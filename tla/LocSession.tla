---------------------------- MODULE LocSession ----------------------------
(***************************************************************************)
(* The tracking session of the location engine.  The framework's calls     *)
(* (set_position_mode, start, stop, delete_aiding_data) only post          *)
(* messages; the MsgTask thread runs their handlers one at a time, among   *)
(* those of the modem's engine-state indications and of its restarts.  The *)
(* intent of the framework, the adapter's mNavigating and mFixCriteria,    *)
(* LocApiV02's mInSession and mEngineOn and the modem's own session are    *)
(* five copies of one fact, and each is updated by a different handler.    *)
(* Requests to the modem are synchronous, so a handler and the modem's     *)
(* answer to it are one action.                                            *)
(***************************************************************************)
EXTENDS Naturals, Sequences

CONSTANTS
    Modes,        \* the position modes the framework may set
    Standalone,   \* the mode the modem runs when none was set
    None,         \* no session, or LOC_POSITION_MODE_INVALID
    MaxCall,      \* bound: calls of the framework in a behaviour
    MaxCrash,     \* bound: restarts of the modem in a behaviour
    MaxRefuse     \* bound: requests a live modem refuses in a behaviour

ASSUME SessionAssumption ==
    /\ Standalone \in Modes
    /\ None \notin Modes
    /\ MaxCall \in Nat /\ MaxCrash \in Nat /\ MaxRefuse \in Nat

VARIABLES
    want,           \* what the framework's calls, taken in order, ask for
    queue,          \* the messages of the MsgTask thread
    mNavigating,    \* LocEngAdapter: in session
    mFixCriteria,   \* LocEngAdapter: the mode of the next start
    engine_status,  \* loc_eng_data: the engine's state, as last reported
    aiding,         \* loc_eng_data: a deletion of aiding data is pending
    mInSession,     \* LocApiV02: in session
    mEngineOn,      \* LocApiV02: the engine's state, as last indicated
    client,         \* the QMI client: live, stale (service gone) or none
    registered,     \* the modem has our mask with the tracking events
    session,        \* the mode the modem runs a session in, or None
    engine,         \* the modem's engine is on
    errorCb,        \* messages errorCb has yet to post
    calls, crashes, refusals

handlerVars == <<mNavigating, mFixCriteria, engine_status, aiding>>
apiVars == <<mInSession, mEngineOn>>
modemVars == <<client, registered, session, engine>>
boundVars == <<calls, crashes, refusals>>
vars == <<want, queue, handlerVars, apiVars, modemVars, errorCb, boundVars>>

Messages ==
    [op: {"mode"}, mode: Modes]
    \cup [op: {"engine", "status"}, on: BOOLEAN]
    \cup [op: {"start", "stop", "delete", "down", "ssr", "up"}]

TypeOK ==
    /\ want \in [run: BOOLEAN, mode: Modes \cup {None}]
    /\ queue \in Seq(Messages)
    /\ mNavigating \in BOOLEAN
    /\ mFixCriteria \in Modes \cup {None}
    /\ engine_status \in BOOLEAN
    /\ aiding \in BOOLEAN
    /\ mInSession \in BOOLEAN
    /\ mEngineOn \in BOOLEAN
    /\ client \in {"live", "stale", "none"}
    /\ registered \in BOOLEAN
    /\ session \in Modes \cup {None}
    /\ engine \in BOOLEAN
    /\ errorCb \in Seq(Messages)
    /\ calls \in Nat /\ crashes \in Nat /\ refusals \in Nat

\* After loc_eng_init and a first open of the client that succeeded.
Init ==
    /\ want = [run |-> FALSE, mode |-> None]
    /\ queue = <<>> /\ errorCb = <<>>
    /\ mNavigating = FALSE /\ mFixCriteria = None
    /\ engine_status = FALSE /\ aiding = FALSE
    /\ mInSession = FALSE /\ mEngineOn = FALSE
    /\ client = "live" /\ registered = FALSE
    /\ session = None /\ engine = FALSE
    /\ calls = 0 /\ crashes = 0 /\ refusals = 0

---------------------------------------------------------------------------
(* The framework's calls. *)

Post(m) == queue' = Append(queue, m)

Call(m) ==
    /\ calls < MaxCall
    /\ calls' = calls + 1
    /\ Post(m)
    /\ UNCHANGED <<handlerVars, apiVars, modemVars, errorCb, crashes, refusals>>

loc_eng_set_position_mode(m) ==
    /\ Call([op |-> "mode", mode |-> m])
    /\ want' = [want EXCEPT !.mode = m]

loc_eng_start ==
    /\ Call([op |-> "start"])
    /\ want' = [want EXCEPT !.run = TRUE]

\* The end of a session forgets its mode.
loc_eng_stop ==
    /\ Call([op |-> "stop"])
    /\ want' = IF want.run THEN [run |-> FALSE, mode |-> None] ELSE want

loc_eng_delete_aiding_data ==
    /\ Call([op |-> "delete"])
    /\ UNCHANGED want

---------------------------------------------------------------------------
(* The handlers, on the MsgTask thread. *)

Received(op) == queue # <<>> /\ Head(queue).op = op
Done == queue' = Tail(queue)
DoneAndPost(m) == queue' = Append(Tail(queue), m)

Refused == refusals < MaxRefuse /\ refusals' = refusals + 1
Accepted == UNCHANGED refusals

\* registerEventMask: the tracking events only while mInSession.
registerEventMask(inSession) ==
    registered' = IF client = "live" THEN inSession ELSE registered

ModeToRun(mode) == IF mode = None THEN Standalone ELSE mode

\* Mutant: PHONE_OFFLINE and INTERNAL do not hold the session.
startFix_offlineFails(mode, held) ==
    /\ mInSession' = TRUE
    /\ registerEventMask(TRUE)
    /\ \/ /\ client = "live" /\ held /\ Accepted
          /\ session' = ModeToRun(mode)
       \/ /\ client = "live" /\ Refused
          /\ UNCHANGED session
       \/ /\ client = "stale" /\ ~held /\ Accepted
          /\ UNCHANGED session
       \/ /\ client = "none" /\ ~held /\ Accepted
          /\ UNCHANGED session

\* startFix(mode) with its result: `held` when loc_eng_start_handler takes
\* the session for started.  A live modem accepts; or refuses, with an error
\* of either kind (a refused mode is reported as success); a client whose
\* service is gone gives PHONE_OFFLINE or INTERNAL, which hold; a client that
\* was never opened again gives INVALID_HANDLE, which does not.
startFix(mode, held) ==
    /\ mInSession' = TRUE
    /\ registerEventMask(TRUE)
    /\ \/ /\ client = "live" /\ held /\ Accepted
          /\ session' = ModeToRun(mode)
       \/ /\ client = "live" /\ Refused
          /\ UNCHANGED session
       \/ /\ client = "stale" /\ held /\ Accepted
          /\ UNCHANGED session
       \/ /\ client = "none" /\ ~held /\ Accepted
          /\ UNCHANGED session

stopFix ==
    /\ \/ /\ client = "live" /\ Accepted
          /\ session' = None
       \/ /\ client = "live" /\ Refused
          /\ UNCHANGED session
       \/ /\ client # "live" /\ Accepted
          /\ UNCHANGED session
    /\ mInSession' = FALSE
    /\ IF mEngineOn THEN UNCHANGED registered ELSE registerEventMask(FALSE)

setInSession(in, criteria) ==
    /\ mNavigating' = in
    /\ mFixCriteria' = IF in THEN criteria ELSE None

loc_eng_start_handler ==
    /\ Received("start")
    /\ Done
    /\ \/ /\ mNavigating
          /\ UNCHANGED <<mNavigating, mFixCriteria, mInSession, registered,
                         session, refusals>>
       \/ /\ ~mNavigating
          /\ \E held \in BOOLEAN :
                /\ startFix(mFixCriteria, held)
                /\ mNavigating' = held
                /\ UNCHANGED mFixCriteria
    /\ UNCHANGED <<want, engine_status, aiding, mEngineOn, client, engine,
                   errorCb, calls, crashes>>

loc_eng_stop_handler ==
    /\ Received("stop")
    /\ Done
    /\ \/ /\ mNavigating
          /\ stopFix
          /\ setInSession(FALSE, mFixCriteria)
       \/ /\ ~mNavigating
          /\ UNCHANGED <<mNavigating, mFixCriteria, mInSession, registered,
                         session, refusals>>
    /\ UNCHANGED <<want, engine_status, aiding, mEngineOn, client, engine,
                   errorCb, calls, crashes>>

\* Mutant: a new mode waits for the next start.
setPositionMode_nextStart ==
    /\ Received("mode")
    /\ Done
    /\ mFixCriteria' = Head(queue).mode
    /\ \/ /\ mNavigating
          /\ UNCHANGED <<mInSession, registered, session, refusals>>
       \/ /\ ~mNavigating
          /\ UNCHANGED <<mInSession, registered, session, refusals>>
    /\ UNCHANGED <<want, mNavigating, engine_status, aiding, mEngineOn, client,
                   engine, errorCb, calls, crashes>>

\* A session that runs is started again in the new mode; nobody looks at the
\* result.
setPositionMode ==
    /\ Received("mode")
    /\ Done
    /\ mFixCriteria' = Head(queue).mode
    /\ \/ /\ mNavigating
          /\ \E held \in BOOLEAN : startFix(mFixCriteria', held)
       \/ /\ ~mNavigating
          /\ UNCHANGED <<mInSession, registered, session, refusals>>
    /\ UNCHANGED <<want, mNavigating, engine_status, aiding, mEngineOn, client,
                   engine, errorCb, calls, crashes>>

\* Mutant: engine off deregisters without a look at mInSession.
MsgUpdateEngineState_anySession ==
    LET on == Head(queue).on IN
    /\ Received("engine")
    /\ IF mEngineOn /\ ~on
       THEN registerEventMask(FALSE)
       ELSE UNCHANGED registered
    /\ mEngineOn' = on
    /\ IF on /\ ~mInSession THEN Done
       ELSE DoneAndPost([op |-> "status", on |-> on])
    /\ UNCHANGED <<want, handlerVars, mInSession, client, session, engine,
                   errorCb, boundVars>>

\* MsgUpdateEngineState: the status report it makes is one more message.
MsgUpdateEngineState ==
    LET on == Head(queue).on IN
    /\ Received("engine")
    /\ IF mEngineOn /\ ~mInSession /\ ~on
       THEN registerEventMask(FALSE)
       ELSE UNCHANGED registered
    /\ mEngineOn' = on
    /\ IF on /\ ~mInSession THEN Done
       ELSE DoneAndPost([op |-> "status", on |-> on])
    /\ UNCHANGED <<want, handlerVars, mInSession, client, session, engine,
                   errorCb, boundVars>>

\* update_aiding_data_for_deletion, for a status and a pending deletion.
update_aiding_data_for_deletion(on, pending) == aiding' = (pending /\ on)

\* Mutant: a status report does not release a pending deletion.
LocEngReportStatus_noFlush ==
    /\ Received("status")
    /\ Done
    /\ engine_status' = Head(queue).on
    /\ UNCHANGED aiding
    /\ UNCHANGED <<want, mNavigating, mFixCriteria, apiVars, modemVars,
                   errorCb, boundVars>>

LocEngReportStatus ==
    /\ Received("status")
    /\ Done
    /\ engine_status' = Head(queue).on
    /\ update_aiding_data_for_deletion(engine_status', aiding)
    /\ UNCHANGED <<want, mNavigating, mFixCriteria, apiVars, modemVars,
                   errorCb, boundVars>>

LocEngDelAidData ==
    /\ Received("delete")
    /\ Done
    /\ update_aiding_data_for_deletion(engine_status, TRUE)
    /\ UNCHANGED <<want, mNavigating, mFixCriteria, engine_status, apiVars,
                   modemVars, errorCb, boundVars>>

loc_eng_handle_engine_down ==
    /\ Received("down")
    /\ Done
    /\ engine_status' = FALSE
    /\ UNCHANGED <<want, mNavigating, mFixCriteria, aiding, apiVars, modemVars,
                   errorCb, boundVars>>

\* A new client, with the mask of no session; locClientOpen gives up when its
\* retries are used up.
open ==
    /\ \/ client' = "live" /\ Accepted
       \/ client' = "none" /\ Refused
    /\ registered' = FALSE

LocSsrMsg ==
    /\ Received("ssr")
    /\ Done
    /\ open
    /\ UNCHANGED <<want, handlerVars, apiVars, session, engine, errorCb, calls,
                   crashes>>

\* Mutant: the restarted modem is not told to start again.
loc_eng_handle_engine_up_noStart ==
    /\ Received("up")
    /\ \/ /\ mNavigating
          /\ setInSession(FALSE, mFixCriteria)
          /\ Done
       \/ /\ ~mNavigating
          /\ Done
          /\ UNCHANGED <<mNavigating, mFixCriteria>>
    /\ UNCHANGED <<want, engine_status, aiding, apiVars, modemVars, errorCb,
                   boundVars>>

\* Mutant: the restart is a mode message, with the criteria just reset.
loc_eng_handle_engine_up_resetMode ==
    /\ Received("up")
    /\ \/ /\ mNavigating
          /\ setInSession(FALSE, mFixCriteria)
          /\ DoneAndPost([op |-> "mode", mode |-> mFixCriteria'])
       \/ /\ ~mNavigating
          /\ Done
          /\ UNCHANGED <<mNavigating, mFixCriteria>>
    /\ UNCHANGED <<want, engine_status, aiding, apiVars, modemVars, errorCb,
                   boundVars>>

\* "If we crashed in the middle of navigating, we restart."
loc_eng_handle_engine_up ==
    /\ Received("up")
    /\ \/ /\ mNavigating
          /\ setInSession(FALSE, mFixCriteria)
          /\ DoneAndPost([op |-> "start"])
       \/ /\ ~mNavigating
          /\ Done
          /\ UNCHANGED <<mNavigating, mFixCriteria>>
    /\ UNCHANGED <<want, engine_status, aiding, apiVars, modemVars, errorCb,
                   boundVars>>

MsgTask ==
    \/ loc_eng_start_handler
    \/ loc_eng_stop_handler
    \/ setPositionMode
    \/ MsgUpdateEngineState
    \/ LocEngReportStatus
    \/ LocEngDelAidData
    \/ loc_eng_handle_engine_down
    \/ LocSsrMsg
    \/ loc_eng_handle_engine_up

---------------------------------------------------------------------------
(* The modem: its engine follows its session, and tells a client that has  *)
(* registered for it (reportEngineState).  A crash takes the session, the  *)
(* registration and the service away and makes the QMI thread run errorCb, *)
(* which posts three messages among those of the others.                   *)

reportEngineState(on) ==
    IF registered THEN Post([op |-> "engine", on |-> on]) ELSE UNCHANGED queue

EngineFollows ==
    /\ engine # (session # None)
    /\ engine' = ~engine
    /\ reportEngineState(engine')
    /\ UNCHANGED <<want, handlerVars, apiVars, client, registered, session,
                   errorCb, boundVars>>

Crash ==
    /\ client = "live"
    /\ crashes < MaxCrash
    /\ crashes' = crashes + 1
    /\ client' = "stale"
    /\ registered' = FALSE /\ session' = None /\ engine' = FALSE
    /\ errorCb' = errorCb \o <<[op |-> "down"], [op |-> "ssr"], [op |-> "up"]>>
    /\ UNCHANGED <<want, queue, handlerVars, apiVars, calls, refusals>>

ErrorCbPosts ==
    /\ errorCb # <<>>
    /\ Post(Head(errorCb))
    /\ errorCb' = Tail(errorCb)
    /\ UNCHANGED <<want, handlerVars, apiVars, modemVars, boundVars>>

Framework ==
    \/ \E m \in Modes : loc_eng_set_position_mode(m)
    \/ loc_eng_start
    \/ loc_eng_stop
    \/ loc_eng_delete_aiding_data

Next == Framework \/ MsgTask \/ EngineFollows \/ Crash \/ ErrorCbPosts

\* The threads run and the engine follows; nobody has to call, crash or refuse.
Fairness ==
    /\ WF_vars(MsgTask)
    /\ WF_vars(EngineFollows)
    /\ WF_vars(ErrorCbPosts)

Spec == Init /\ [][Next]_vars /\ Fairness

---------------------------------------------------------------------------
(* Properties. *)

\* Everything posted has been handled and the modem has reacted.
Settled ==
    /\ queue = <<>> /\ errorCb = <<>>
    /\ client # "stale"
    /\ engine = (session # None)

Healthy == refusals = 0

\* A session the framework asked for runs, its events reach us and both
\* layers know of it, whatever restarts of the modem came in between
\* (loc_eng_handle_engine_up starts again what the crash ended).
SessionRuns ==
    Settled /\ Healthy /\ want.run =>
        session # None /\ registered /\ mNavigating /\ mInSession

\* While the modem neither restarts nor refuses, it ends up doing what the
\* framework's calls ask for when taken in order: the session in the mode
\* last set, or none (loc_eng_start_handler, loc_eng_stop_handler and
\* setPositionMode against the engine's indications between them).
ModemFollows ==
    Settled /\ Healthy /\ crashes = 0 =>
        session = IF want.run THEN ModeToRun(want.mode) ELSE None

\* At every moment without restarts and refusals the three records of the
\* session agree, and tracking events are on while it runs: a late engine-off
\* indication of the session before never turns them off.
LayersAgree ==
    Healthy /\ crashes = 0 =>
        /\ mNavigating = (session # None)
        /\ mInSession = mNavigating
        /\ mNavigating => registered

\* A deletion waits only for an engine that was reported on: the report that
\* it is off releases it (update_aiding_data_for_deletion).
DeletionNotHeldUp == crashes = 0 /\ aiding => engine_status

\* A start is never forgotten: the session runs, or was stopped, or the modem
\* refused it or could not be opened again.
StartRuns == want.run ~> (~want.run \/ session # None \/ ~Healthy)

\* "Stops the tracking session" (loc_eng_stop): once everything has settled,
\* no session runs that the framework has stopped.
StopStops == Settled /\ Healthy /\ ~want.run => session = None
=============================================================================
