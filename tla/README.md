# Specifications of the A6020 location engine

The repository is an Android device tree. Nearly all of its own program logic is
the GPS hardware abstraction layer under `src/gps` (C and C++, some 50 000 lines,
half of them generated QMI tables): the location engine that stands between the
Android framework (through JNI) and the modem (through QMI). This directory models
the concurrent core of that engine in TLA+, checks it with TLC and proves part of
it with TLAPS. `A/` stands below for `src/gps/loc_api/libloc_api_50001/`, `V/` for
`src/gps/loc_api/loc_api_v02/`, `C/` for `src/gps/core/` and `U/` for `src/gps/utils/`.

## 1. The system

### Threads and how they meet

- The **framework's threads** (JNI) call the entry points of `A/loc.cpp` and
  `A/loc_eng.cpp`. Nearly all of them only post a message; the answer to a
  network-initiated request is the exception and works on shared state at once.
- One **MsgTask thread** (`U/MsgTask.cpp`) takes the messages one by one and runs
  them. The location engine's state has no lock: it belongs to this thread.
- The **QMI receiver thread** brings indications and service errors of the modem
  (`V/loc_api_v02_client.c`). It answers blocked synchronous calls
  (`V/loc_api_sync_req.c`) and posts everything else to the MsgTask thread.
- **NI threads** (`A/loc_eng_ni.cpp`), one per network-initiated request, wait for
  the user's answer or a timeout.
- The **timer threads** (`U/LocTimer.cpp`): a message thread that owns the heap of
  timers and a poll thread that waits for the timerfd.
- A **server thread** (`A/loc_eng_dmn_conn*.c*`) reads requests of daemons from a pipe.

### Inventory

| Component | Source | State | Operations | What makes it correct |
|---|---|---|---|---|
| Tracking session | `A/loc_eng.cpp`, `A/LocEngAdapter.*`, `V/LocApiV02.cpp`, `C/LocApiBase.cpp` | mNavigating, mFixCriteria, engine_status, aiding_data_for_deletion; mInSession, mEngineOn, the client and its event mask | start, stop, set position mode, delete aiding data; engine on/off; modem down, SSR, up | modem, adapter and framework agree on the session; a restart restores it; a stop stops |
| AGPS data connections | `A/loc_eng_agps.*` | state object, subscriber list, per NIF | subscribe, unsubscribe, granted, denied, released, drop all | no client forgotten, no connection leaked, every request answered |
| Synchronous requests | `V/loc_api_sync_req.c` | slot array, `in_use`, per-slot mutex and condition | send and wait, process an indication | no write into a frame that is gone, no lost wake-up, success means an answer |
| NI requests | `A/loc_eng_ni.*` | two sessions: rawRequest, reqID, respRecvd, resp, thread | request, respond, time out, reset | one answer per request, the user's, in time |
| Timers | `U/LocTimer.*` | heap of delegates, timerfd, epoll set, two threads | start, stop, expire | fires, and what fires was its client's; no dangling delegate |
| Message tasks | `U/MsgTask.*`, `U/LocThread.*`, `U/msg_q.c`, `U/linked_list.c` | queue, unblocked flag, delegate's reference count | send, receive, unblock, destroy | FIFO, nothing lost, freed once |
| Data services | `DSStateMachine` in `A/loc_eng_agps.cpp`, `src/gps/loc_api/ds_api` | state object, subscriber list, retries, dsClientHandle | request, retry, release, fall back on AGNSS | one call at a time, none without a handle, every session served or passed on |
| Adapters and contexts | `C/*` | array of adapters, event masks | add, remove, update mask, dispatch | the modem's mask covers the adapters' |
| QMI client | `V/loc_api_v02_client.c` | one block per client, the notifier's signal | open (with retries), close, send, callbacks | a lost service is reported and the client replaced |
| Configuration | `U/loc_cfg.cpp`, `A/loc_eng.cpp`, the setters of `V/LocApiV02.cpp` | gps_conf, server buffers | read, update by the carrier, set server, send again | the modem runs with what gps_conf holds, through restarts |
| Daemon connection | `A/loc_eng_dmn_conn*` | pipe, thread helper's flags | start, block, unblock, join; receive loop | thread starts and ends; messages stay framed |
| Timer heap | `U/LocHeap.cpp` | a tree balanced by size | push, pop, remove, peek | the top has the highest rank |

Without control of their own, or outside of the location engine: the HAL entry points
(`A/loc.cpp`), NMEA and XTRA, the probing of the target, logs, the QMI tables,
the camera wrapper, lights, doze, init, the shims and the device's configuration
files. `PROJECT.json` lists each with the reason.

### What is hard

*Ordering*: the framework answers AGPS requests asynchronously and one machine's
requests can overlap; engine indications trail the session they are about.
*Restarts*: a modem restart takes the session, the registration and the ATL clients
away and reaches the engine as three messages among those of others. *Late answers*:
indications of calls that have timed out, answers of a user to a request that is over.
*Unlocked sharing*: the reset of NI sessions, the timerfd, the timer's client pointer,
`gps_conf` and the server buffers. *Partial failure*: a request to the modem that is
refused and never repeated, a data call that does not start.
*Lifetime*: timer delegates, the thread delegate and the task are freed by whichever
thread is last. The list with lines is `hazards` in `PROJECT.json`.

## 2. The modules

Each module has an MC module and configurations of its own. Its variables keep the
source's names; an action is named after the function it models; `map` in
`PROJECT.json` gives the lines of each definition. In every module what runs under one
lock, or to completion on the thread that owns the state, is one action, and a step that
others can see half-done is split. Operators marked `Mutant` are faulty variants of the
operator that follows; no specification uses them, they serve to show that a property
can fail.

**LocSession**: the framework's calls append to `queue`; each handler of the MsgTask
thread is one action. The modem answers synchronous requests at once, so it is part of
the handler's action (`startFix`, `stopFix`, `registerEventMask`); what it does on its
own is `EngineFollows` (its engine goes on and off after its session and is indicated
only to a registered client) and `Crash`, after which the QMI thread runs `errorCb`
and posts down, SSR and up one at a time. A live modem may refuse a request, with an
error that makes `loc_eng_start_handler` hold the session or not; a client whose
service is gone gives the errors that hold; one that was never reopened gives
INVALID_HANDLE, which does not. `want` is a history variable: the calls applied in
order. Left out: muting (nothing requests it), SESSION_BEGIN and SESSION_END reports
(written and never read), single-shot sessions; measurement events are in `LocAdapters`,
the configuration that `loc_eng_reinit` posts again in `LocConfig`.

**AgpsStateMachine**: one machine: `mStatePtr`, `mSubscribers` (per client absent,
active, inactive), `view` (what each client was told last), and the two channels to and
from the framework. `MCAgpsAtl` instantiates it as `agnss_nif`/`internet_nif` (modem
clients, dropped by a restart), `MCAgpsWifi` as `wifi_nif` (single subscriber, waits for
the close). **ConnectionLease** is the abstract specification that it implements
(`ImplementsLease`): a lease that is free, wanted or held, and users who are told at once
when it is granted or ends, and from whom it is never taken while they need it. The
lease is held in Acquired and wanted in Pending, and in Releasing when somebody has
asked again. Its users are the clients that no restart parts from what they were told
(`Lasting`); the BIT daemon, whose subscription a restart drops without telling it, is
one of its `Others`.

**LocSyncReq**: `loc_sync_send_req` as the steps of a thread (select a slot, send, wait,
wake, free) and `loc_sync_process_ind` as a scan over the slots that holds the call
mutex. Indications can be lost, late, or of another call; waits time out and may wake
for no reason.

**LocEngNi**: two sessions, MsgTask, JNI and NI threads. `fate` and `said` are history:
what was sent to the modem and what the user said.

**LocTimer**: clients, heap, message queue and the kernel's timerfd with its epoll
registration, a system call at a time. `start` and `stop` hold the client's
`LocSharedLock`, which the expiration does not take to read `mClient`, so they are split
where it can look: `Start` posts the push (the delegate's constructor does), `Assign`
sets `mTimer`; `Stop` takes `mTimer` away, `Clear` resets `mClient`, `Post` asks for the
removal. `mLock` says how far the holder is. The expiration reads (`ExpireRead`) and then
calls `stop` itself (`ExpireStop`), which waits for the lock. The heap is a set with a
top, ranked by seconds, as `LocTimerDelegate::ranks` compares.

**MsgTask** and **Mailbox**: the queue, worker and teardown at the grain of the two
mutexes; `Mailbox` is the abstract specification that it implements (`ImplementsMailbox`,
`box <- msg_list, busy <- worker.msg, closed <- unblocked`). The other modules rely on
it: their queues are first-in first-out and lose nothing.

**DataServices**: `ds_nif`. `DSStateMachine` shares the state objects of
`AgpsStateMachine` but its request is a synchronous call into `ds_client` that may fail.
An attempt is a situation the code meets (how the polls for the service go, which
profiles it reads, whether a dsi handle and the call are given) and
`openAndStartDataCall` computes from it what is returned and what is left in the one
variable `dsClientHandle`. `retryCallback` runs on the timer's thread. `agnss` is what
the module needs of `agnss_nif`: who was passed on to it. `data.lost` is history: a live
call was cut off from its handle.

**LocAdapters**: the list of adapters, the mask of each `LocOpenMsg` (a snapshot taken
when it was posted), `LocSsrMsg`, the measurement registration, and `locClientOpen` step
by step (clear the signal, look up, wait without a timeout, initialise, register, fill
in the callbacks), against a service that goes and comes. The engine's own adapter is
never deleted, so the list never becomes empty and the close of the last one is left
out. `mMask` stands for `mQmiMask` too; the bits withheld out of a session are in
`LocSession`.

**LocConfig**: the framework's thread (`loc_eng_init`, `loc_eng_configuration_update`,
`loc_eng_set_server_proxy`, `loc_eng_agps_init`) and the handlers `LocEngInit` and
`LocEngUp` of the MsgTask thread, one read or post at a time, over variables that no
lock guards. A parameter is a name with a value; `CAPABILITIES` stands for its bit
`GPS_CAPABILITY_MEASUREMENTS`. `stale` and `failed` are history: the keys that the code
itself leaves out of date, because it posted a value read before a change, or because a
request was refused. The framework makes one call at a time. What sends nothing to this
modem is left out: `enableData` and `setAPN` do nothing in `LocApiBase`, `SUPL_MODE` goes
to the external ULP proxy, `GPS_LOCK` is not sent by these functions, the power vote is
for another board. `sap_conf` never changes after it was read; its messages are
parameters that no carrier sets. A server's address is a pair of host and port, which
`loc_eng_set_server` writes one after the other and the handlers read one after the
other. A c2k name that is not resolved counts as refused. `MaxCalls` bounds the calls
that the framework repeats (`loc_eng_configuration_update`, `loc_eng_set_server_proxy`);
the two initialisations happen once.

How they fit: `LocSession`, `AgpsStateMachine`, `DataServices`, `LocEngNi` and
`LocConfig` are parts of the state of one MsgTask thread and share its messages for a
modem restart: `down` resets `LocEngNi` (its EngineDown and Reset), `ssr` reopens the
client (`LocAdapters`), `up` drops the subscribers of `AgpsStateMachine` (its
DropAllSubscribers; `DataServices` has it as EngineUp), sends the configuration again
(`LocConfig`) and starts the session again (`LocSession`). `LocSession` and `LocConfig`
take the reopening as one step, `LocAdapters` looks inside it. A fall back of
`DataServices` is a subscription of `AgpsStateMachine`. They touch no other common
variable. The synchronous requests inside the handlers return by `LocSyncReq`'s
`CallReturns`.

## 3. What is checked

| Run | Instance | Shows |
|---|---|---|
| `session` | 2 modes, 4 calls, 1 restart, 1 refusal | `SessionRuns`, `ModemFollows`, `LayersAgree`, `DeletionNotHeldUp`, `StartRuns` |
| `session_stop` | same, no refusal | `StopStops` is **violated** |
| `agps_atl` | 2 ATL clients and BIT, 3 messages each way, 1 restart | `ToldTrue`, `PendingAnswered`, `AcquiredIsOpen`, `RequestAnswered`, `ImplementsLease` |
| `agps_wifi` | 2 WIFI clients, 4 messages each way | `ReleasingAnswered`, `CloseAnswered` |
| `data_services` | 2 sessions, 2 retries, 2 polls and 2 profiles, 1 restart | `CallOwned`, `AcquiredIsUp`, `SoleRequestServed` |
| `adapters` | 3 adapters, list of 2, 2 changes, 2 losses, 1 refusal, 1 retry | `EventsKept`, `Reopened` |
| `adapters_measure` | same, nothing excluded (foreground) | `MeasurementsKept` is **violated** |
| `config` | 2 parameters, 1 server with 2 addresses, 2 carrier files, 2 calls besides the initialisations, 1 restart, 1 refusal | `ConfigKept`, `ServerKept`, `MeasurementsTold`, `SettingArrives` |
| `sync_req` | 2 threads, 2 slots, 1 indication ID, 2 in flight | `PayloadOwned`, `InUseExact`, `NoWakeupLost`, `SuccessMeansArrived`, `CallReturns` |
| `ni` | 2 requests, 2 answers, 2 engine downs | `SentOnce`, `ConsumedOnce`, `RequestGuarded`, `AnswerNoticed`, `RequestSettled` |
| `loc_timer` | 2 timers, 3 starts, 2 ticks of half a second | `ArmedForTop`, `NothingDangles`, `TimerEnds`, `StopsExpired` |
| `msg_task` | 4 messages, joinable or not | `NoLostWakeup`, `DelegateLives`, `TaskDeleted`, `MessageLeaves`, `ImplementsMailbox` |

`adapters` excludes the measurement bit and `agps_atl` never has a client that waits
for the close (`WaitClose`); `agps_wifi` refuses a second subscriber. A request that
comes while the machine is Releasing is therefore met in `data_services` only.

The comment above each property in its module says what it claims and what it exempts.
Three exemptions are the code's own behaviour and worth knowing: `SoleRequestServed`
leaves out a *wedged* machine (one that repeated its request on leaving Releasing and
did not look at the result), `EventsKept` an open that gave up or a registration that
was refused (`missed`), `ConfigKept` and its relatives the keys in `stale` and `failed`.
`SessionRuns` and `LayersAgree` leave out a refused set-mode request, `StartRuns` counts
a failed opening as a refusal, `DeletionNotHeldUp` and `ConsumedOnce` are about behaviours
without a restart. The hazards that these exemptions let through (an engine-on left behind
by a down, the reset's second free of an NI request, a parameter posted too late and
others) have no property in `PROJECT.json`, and their notes say so.

### Bounds and why they are enough

Bounds are constants named `Max...` and stand in the guards of the actions they limit.

- *Session*: the shortest bad histories of the engine's bookkeeping are start, stop,
  start, stop with indications between, that is four calls; one restart meets any prefix
  of them. The second mode is what tells a stale mode from a new one.
- *AGPS*: two modem clients and the BIT daemon make "last one leaves" different from
  "one leaves"; three messages each way let the answers to three generations of requests
  overlap, more than the machine has states between.
- *Sync*: two calls that meet on two slots show every use and reuse of a slot; the ID is
  the same for both, which is the hard case. As many slots as callers: see below for the one
  that finds none.
- *NI*: a second request makes a stale answer possible, two downs put two threads on
  one session.
- *Timer*: two timers order the heap both ways, the third start reuses a client; two
  ticks make the whole second by which delegates are ranked. An expiration meets each
  point of a `start` and of a `stop`.
- *Data services*: two sessions make "last one leaves" and "asks again while Releasing"
  happen; two retries distinguish the last from the others; two polls and profiles let
  a search pass one element over; one restart cuts the modem's sessions loose.
- *Adapters*: the third adapter finds the list of two full; two changes put one mask
  behind another; two losses let the second fall into the reopening after the first.
- *Configuration*: two calls besides the initialisations set a server twice, or change
  one value twice, around a restart; of the two parameters one is kept after the
  carrier's call and one put back. The two addresses of the server differ in host and in
  port, so that the MsgTask thread, when it sends the servers again while the framework
  replaces one, can read the host of one with the port of the other: the modem is given
  such a pair, and given the right one after it unless it was posted last. `Supported` and `AgpsCapable` are TRUE, as otherwise nothing is to be
  told or sent.
- *MsgTask*: the worker has one message in hand; four give a queue of three behind it.

### Fairness

- `LocSession`: the MsgTask thread, the QMI thread and the modem's engine take their
  steps. Nobody has to call, crash or refuse.
- `AgpsStateMachine`: the MsgTask thread handles what is queued and the framework
  answers what it was asked. Clients need do nothing.
- `LocSyncReq`: threads run, waits time out; strong fairness of `Free` because the
  receiver takes the call mutex over and over and a mutex lets everyone in eventually.
  The modem need not answer.
- `LocEngNi`: threads run and the wait of an NI thread times out
  (`pthread_cond_timedwait`); the user need not answer.
- `LocTimer`: time passes, both threads run, and who holds a client's lock goes on to
  release it; nobody need stop a timer.
- `DataServices`: timers expire, the MsgTask thread runs, and a call that was started
  or stopped comes up or ends: `dsi_start_data_call` promises an event.
- `LocAdapters`: the MsgTask and QMI threads run, and a modem that went down comes
  back (its subsystem is restarted; without it `locClientOpen` waits for good).
- `LocConfig`: both threads finish what they have begun; nobody need call, and the
  modem need not restart.
- `MsgTask`: worker and owner run; nobody need send or destroy.

Runs of modules whose behaviours may rest for good (bounded calls, no obligation on
clients) say `CHECK_DEADLOCK FALSE`; the AGPS and the synchronous request runs check
for deadlock.

### What the violated properties say

1. `StopStops` (`A/loc_eng.cpp:2860`): the engine-up handler posts a start behind a
   stop that is already queued. The stop finds no session, the start makes one, and it
   runs although the framework's last word was stop.
2. `MeasurementsKept` (`C/LocApiBase.cpp:96`): the reopening after a loss of the service
   uses the adapters' masks. The measurement bit was only ever put into `mMask`, which
   the close has set to 0, so the framework's measurement callback gets nothing more.

Further behaviours seen in the models that no run states as a property:

- A GRANT of an abandoned request is ignored in Released and the connection stays open
  (`A/loc_eng_agps.cpp:299`).
- With no free slot `loc_sync_send_req` returns success without having sent its request
  (`V/loc_api_sync_req.c:500`); hence `SuccessMeansArrived` is about as many slots as
  callers.
- A user's answer that comes between two NI requests answers the second one
  (`A/loc_eng_ni.cpp:235`).
- A reset frees an NI request without the lock, and the session's thread may send or free
  the same one (`A/loc_eng_ni.cpp:282`); the end of a thread clears `reqID`, unlocked, when
  the next request may have set it (`A/loc_eng_ni.cpp:260`), and the user's answer to that
  one then finds no session.
- `LocTimerDelegate::expire` stops whatever timer its client has by then
  (`U/LocTimer.cpp:521`): after a stop and a new start the new timer may be reported at
  once. It may also read a client that has not got its timer yet (`U/LocTimer.cpp:481`,
  554) or has it no more (567, 489). `StopsExpired` says how far it goes: the client is
  making the popped delegate its timer, has it or is giving it up, and what is reported is
  that delegate, or that delegate had been stopped in the meantime.
- A timer may be reported before its time although nobody stops one. The comment of
  `LocTimerContainer::expire` pops "everything in the heap that outRanks now"
  (`U/LocTimer.cpp:361`), but its first pop asks for no rank (`U/LocTimer.cpp:367`). When the
  message thread sets the fd between the poll thread's `epoll_wait` and its message, the
  same top expires twice, and the second message pops the timer behind it. TLC finds it
  with three timers, delays of one to three, whole seconds and four ticks, which is
  beyond the bounds of `loc_timer`.
- The position mode is lost by the restart of a session (`A/LocEngAdapter.cpp:402`).
- A failed attempt on the way from Releasing to Pending wedges `ds_nif` until something
  closes it (`A/loc_eng_agps.cpp:556`); a subscriber that fell back stays listed in
  Released; a modem restart does not empty the list of `ds_nif`.
- An open that gives up sets `mMask` to 0; the next `LocOpenMsg` then registers what it
  carries and no more (`V/LocApiV02.cpp:223`). A service that is lost before the
  client's callbacks are filled in is reported to nobody (`V/loc_api_v02_client.c:1785`).
- `loc_eng_init` clears `loc_eng_data` and with it the servers that were set before
  (`A/loc_eng.cpp:1739`), although `loc_eng_set_server_proxy`'s comment says that it "buffers
  server settings and calls loc_eng_set_server when the client is open"
  (`A/loc_eng.cpp:2569`). `ServerKept` is about the servers set since (`host_set` is
  cleared with the rest). A pair of host and port torn by a restart stays in the modem if
  it is posted behind the framework's own message; `stale` exempts it. A setter's request that is refused is not repeated.

## 4. What is proved

TLAPS checks these theorems for every value of the constants that meets the module's
named assumption (`AgpsAssumption`, `SyncAssumption`, `MsgTaskAssumption`,
`SessionAssumption`, `NiAssumption`, `DataAssumption`, `AdapterAssumption`,
`ConfigAssumption`, `TimerAssumption`, which say only what kind of thing each constant
is). Every one of these modules has `TypeCorrect` (and `TaskTypeCorrect` for `MsgTask`);
the rest, with the invariant each needs:

- `LocSessionProofs`: `Agreement` (`LayersAgree`), `DeletionReleased`
  (`DeletionNotHeldUp`) from types, both properties and `Undisturbed`: as long as no
  restart happened, none of its messages is queued or about to be, and the client is
  live. `ModemFollowsWant` (`ModemFollows`): the queued messages *lead* from what the
  adapter does to what the framework wants; a chain of intents, one per message, is the
  witness, so that no recursion over the queue is needed. `SessionRunsAgain`
  (`SessionRuns`): an engine-up is behind every loss and every reopening, in the queue
  or still to be posted (`Covered`), and a wanted session is in the adapter with no stop
  queued or has its start behind the last stop (`StartLast`).
- `AgpsStateMachineProofs`: `ListCorrect` (`ToldTrue`), `Answered` (`PendingAnswered`),
  `ReleasingIsAnswered`, `AcquiredHasNif` (`AcquiredIsOpen`), `SharedLease`
  (`ImplementsLease`, for both closing rules).
  `ListInv` holds the facts about state, list and views together; `WireInv` what the
  channels hold in each state. The second needs the first, since an order is sent only
  when the list becomes empty or stops being so. For the refinement `LeaseInv` adds
  that, for the clients that last, list and views say the same: whoever waits for the
  close is still listed to be told of it.
- `DataServicesProofs`: `CallStaysOwned` (`CallOwned`), `AcquiredHasCall`
  (`AcquiredIsUp`). `CallInv` relates the machine, the call and the events in the queue:
  a CLOSED is the last event of its call, a Released machine has no call and no event to
  come, a call that lives has its handle. Hence no attempt meets a live call.
- `LocAdaptersProofs`: `EventsStayKept` (`EventsKept`). `OwedEvents` follows an event
  that a listed adapter wants: it is in the mask of the client or of the open under way,
  or in a message of the queue.
- `LocConfigProofs`: `ConfigStaysKept`, `ServersStayKept`. For each key one of five
  things holds (`KeyInv`): it is stale, a reopening will send everything again, the
  handler under way has yet to send it, the framework's call has yet to post it, or the
  last message about it carries, or the modem has, the current value.
  `MeasurementsAreTold` (`MeasurementsTold`): a message that tells the framework is
  behind the one that adds the bit.
- `LocEngNiProofs`: `RequestIsGuarded`, `AnswerIsNoticed`, `AnswerSentOnce`
  (`SentOnce`), `RequestConsumedOnce` (`ConsumedOnce`). A session's request has its own
  thread that has not finished (`OwnThread`), one thread of a session closes at a time
  and what it closes was opened there (`ClosingOwns`); a request that was sent is held
  by nobody any more (`Once`).
- `LocSyncReqProofs`: `PayloadSafe` (`PayloadOwned`), `InUseCorrect` (`InUseExact`),
  `WakeupKept` (`NoWakeupLost`), and `SuccessArrives` (`SuccessMeansArrived`) under the
  assumption `EnoughSlots`, no more callers than slots. The strengthening ties a thread's
  program counter to what it owns (`Phase`) and what the receiver's scan has seen so far
  to the slots it has passed (`Seen`): `in_use` is recomputed from the scan, so the scan
  must be exact.
- `LocUtilsProofs`, on timers: `SoonestArmed` (`ArmedForTop`), `DelegatesLive`
  (`NothingDangles`), `ExpiredStopped` (`StopsExpired`). `References`: a delegate that the
  heap, a message, a client, a lock's holder or the thread's hand points at has not been
  destroyed; a delegate that knows a client is its `mTimer` or in the hands of its lock's
  holder (`Owned`, `Held`), and its removal is posted after both (`Removals`). `Arming`:
  the fd is set for the top, or the thread is on its way to set it. `Expiring`: the client
  that the thread is about to stop has the popped timer, is about to have it, or has
  stopped it, and a timer under a lock was taken by the thread itself or stopped.
- `LocUtilsProofs`, on message tasks: `Refinement` (`ImplementsMailbox`, every step of the
  task is a step of the mailbox or a stutter), `WakeupKept` (`NoLostWakeup`),
  `DelegateSafe` (`DelegateLives`). The strengthening: the reference count is the number
  of threads that hold the delegate (`RefsCounted`), the worker holds a message exactly
  while it handles one, and whatever makes it leave comes after the unblock (`Closed`).

Only model-checked: all liveness (`RequestAnswered`, `CloseAnswered`, `CallReturns`,
`RequestSettled`, `TimerEnds`, `TaskDeleted`, `MessageLeaves`, `StartRuns`,
`SoleRequestServed`, `Reopened`, `SettingArrives`: fairness and ENABLED are out of the
prover's reach).

## 5. Not modelled, and why

- **Generated and tabular code** is more than half of `src/gps`: the QMI message tables
  (`V/location_service_v02.*`, 22 000 lines), the client's tables of indication sizes
  and its header, and the names for the logs (`V/loc_api_v02_log.c`). They have no
  behaviour to model.
- **Conversions**: most of `V/LocApiV02.cpp` and `A/loc_eng_nmea.cpp` copies or formats
  positions, satellites, geofences and assistance data between layouts, and the log
  files turn values into names. A model would restate them.
- **HAL entry points** (`A/loc.cpp`) check a handle and forward; the modules start at
  the functions they call.
- **Daemon connection**: the server thread ends for good at its first failed receive, and
  `thelper_signal_wait` waits once with `if`; both are in the hazards list. The requests
  it passes on are the BIT client of `AgpsStateMachine`.
- **Timer heap**: a tree in memory. `LocTimer` takes it as a set with a top.
- **Memory**: subscriber lists, delegates of the C timer wrapper and refused messages are
  values in the models, so a dangling pointer in them is not seen.
- **Tracking session**: muting, SESSION_BEGIN and SESSION_END reports, single-shot
  sessions, injections and certificates.
- **Board and device files**: camera wrapper, lights, doze, init, shims, build files,
  overlays. Single-threaded forwarding, or data.
- **Closed libraries**: the QMI framework, data services and the ULP proxy appear only
  as what the code above them sees.
