------------------------------ MODULE LocTimer ------------------------------
(***************************************************************************)
(* LocTimer.cpp: timers of one container (the timers, or the alarms).      *)
(*                                                                         *)
(* A client's start() makes a LocTimerDelegate and stop() gives it up; the *)
(* heap of the delegates belongs to the LocTimerMsgTask thread, which both *)
(* ask by message.  That thread keeps the container's timerfd armed for    *)
(* the soonest delegate; the LocTimerPollTask thread waits for the fd with *)
(* epoll and posts a message when it expires.  Both threads touch the fd:  *)
(* a system call is one action.                                            *)
(*                                                                         *)
(* start() and stop() hold the client's LocSharedLock over several steps,  *)
(* which others see between: the push is posted before mTimer is assigned, *)
(* and mTimer, mClient and the removal are written one by one.  The        *)
(* expiration reads mClient without the lock and takes it in stop().       *)
(***************************************************************************)
EXTENDS Naturals, Sequences

CONSTANTS
    Clients,      \* the LocTimer objects
    NoClient,     \* NULL
    Delays,       \* the delays they ask for, in ticks
    Second,       \* ticks per second
    MaxStart,     \* bound: delegates ever made
    MaxTime       \* bound: the clock

ASSUME TimerAssumption ==
    /\ NoClient \notin Clients
    /\ Delays \subseteq Nat \ {0}
    /\ Second \in Nat \ {0}
    /\ MaxStart \in Nat
    /\ MaxTime \in Nat

Delegates == 1 .. MaxStart   \* a delegate is named by the start that made it
None == 0                    \* NULL
Disarmed == 0                \* an itimerspec of zero

VARIABLES
    now,        \* CLOCK_BOOTTIME
    starts,     \* delegates made so far
    mTimer,     \* per client: its delegate
    mLock,      \* per client: how far start or stop is under the lock, with what delegate
    mClient,    \* per delegate: the client to call
    due,        \* per delegate: mFutureTime
    fate,       \* per delegate: what became of the start (history)
    alive,      \* the delegates that are not deleted
    queue,      \* mMsgTask's messages
    task,       \* the LocTimerMsgTask thread
    heap, top,  \* the container, and the delegate on top of it
    armed,      \* when the timerfd expires
    polled,     \* is the timerfd registered with epoll?
    poll        \* the LocTimerPollTask thread

clients == <<starts, mTimer, mLock, mClient, due, fate>>
kernel == <<armed, polled>>
vars == <<now, clients, alive, queue, task, heap, top, kernel, poll>>

Refs == Delegates \cup {None}
Msgs == [kind : {"push", "remove"}, d : Delegates] \cup {[kind |-> "expire", d |-> None]}

TypeOK ==
    /\ now \in 0 .. MaxTime
    /\ starts \in 0 .. MaxStart
    /\ mTimer \in [Clients -> Refs]
    /\ mLock \in [Clients -> [at : {"free", "assign", "clear", "post"}, d : Refs]]
    /\ mClient \in [Delegates -> Clients \cup {NoClient}]
    /\ due \in [Delegates -> Nat]
    /\ fate \in [Delegates -> {"none", "running", "stopped", "fired"}]
    /\ alive \subseteq Delegates
    /\ queue \in Seq(Msgs)
    /\ task \in [at : {"idle", "expire", "stop", "halt", "poll", "arm"}, d : Refs,
                 client : Clients \cup {NoClient}, now : Nat]
    /\ heap \subseteq Delegates
    /\ top \in heap \cup {None}
    /\ armed \in Nat
    /\ polled \in BOOLEAN
    /\ poll \in {"wait", "disarm", "unpoll", "send"}

Unlocked == [at |-> "free", d |-> None]
Idle == [at |-> "idle", d |-> None, client |-> NoClient, now |-> 0]

Init ==
    /\ now = 0
    /\ starts = 0
    /\ mTimer = [c \in Clients |-> None]
    /\ mLock = [c \in Clients |-> Unlocked]
    /\ mClient = [d \in Delegates |-> NoClient]
    /\ due = [d \in Delegates |-> 0]
    /\ fate = [d \in Delegates |-> "none"]
    /\ alive = {}
    /\ queue = <<>>
    /\ task = Idle
    /\ heap = {} /\ top = None
    /\ armed = Disarmed
    /\ polled = FALSE
    /\ poll = "wait"

Tick ==
    /\ now < MaxTime
    /\ now' = now + 1
    /\ UNCHANGED <<clients, alive, queue, task, heap, top, kernel, poll>>
---------------------------------------------------------------------------
(* The container as a heap.  Delegates are ranked by whole seconds; of     *)
(* equals, any may be on top.                                              *)

Sec(t) == t \div Second
OutRanks(d, e) == Sec(due[d]) < Sec(due[e])

Tops(set) == {d \in set : \A e \in set : ~ OutRanks(e, d)}

Push(d) ==
    /\ heap' = heap \cup {d}
    /\ top' = IF top = None THEN d ELSE IF OutRanks(d, top) THEN d ELSE top

\* Mutant: the last node's link is not cleared.
TakeOutStale(d) == heap' = heap \ {d} /\ UNCHANGED top

TakeOut(d) ==
    /\ heap' = heap \ {d}
    /\ \/ d # top /\ UNCHANGED top
       \/ d = top /\ heap' # {} /\ top' \in Tops(heap')
       \/ d = top /\ heap' = {} /\ top' = None

\* Mutant: only the first delegate of an empty heap is armed for.
UpdateSoonestTimeFirst(prior) ==
    task' = IF prior = None /\ top' # None THEN [Idle EXCEPT !.at = "poll"] ELSE Idle

\* updateSoonestTime(prior), before its system calls: nothing to do unless the
\* top has changed to a sooner one.  An empty heap never disarms: a prior top
\* is passed only after a push.
UpdateSoonestTime(prior) ==
    task' = IF /\ top' # prior /\ top' # None
               /\ prior # None => OutRanks(top', prior)
            THEN [Idle EXCEPT !.at = "poll"] ELSE Idle
---------------------------------------------------------------------------
(* The clients, and what start() and stop() do under the lock.             *)

\* start() takes the lock; the delegate's constructor posts the push.
Start(c, delay) ==
    LET d == starts + 1 IN
    /\ mLock[c] = Unlocked
    /\ mTimer[c] = None
    /\ starts < MaxStart
    /\ now + delay <= MaxTime
    /\ starts' = d
    /\ mLock' = [mLock EXCEPT ![c] = [at |-> "assign", d |-> d]]
    /\ mClient' = [mClient EXCEPT ![d] = c]
    /\ due' = [due EXCEPT ![d] = now + delay]
    /\ fate' = [fate EXCEPT ![d] = "running"]
    /\ alive' = alive \cup {d}
    /\ queue' = Append(queue, [kind |-> "push", d |-> d])
    /\ UNCHANGED <<now, mTimer, task, heap, top, kernel, poll>>

\* The rest of start(): mTimer has the new delegate, and the lock is released.
Assign(c) ==
    /\ mLock[c].at = "assign"
    /\ mTimer' = [mTimer EXCEPT ![c] = mLock[c].d]
    /\ mLock' = [mLock EXCEPT ![c] = Unlocked]
    /\ UNCHANGED <<now, starts, mClient, due, fate, alive, queue, task, heap, top, kernel, poll>>

\* stop() takes the lock and the timer.
TakeTimer(c, outcome) ==
    /\ mLock[c] = Unlocked
    /\ mTimer[c] # None
    /\ mTimer' = [mTimer EXCEPT ![c] = None]
    /\ mLock' = [mLock EXCEPT ![c] = [at |-> "clear", d |-> mTimer[c]]]
    /\ fate' = [fate EXCEPT ![mTimer[c]] = outcome]
    /\ UNCHANGED <<starts, mClient, due>>

Stop(c) ==
    /\ TakeTimer(c, "stopped")
    /\ UNCHANGED <<now, alive, queue, task, heap, top, kernel, poll>>

\* Mutant: the delegate is deleted at once.
ClearDeletes(c) ==
    /\ mLock[c].at = "clear"
    /\ mClient' = [mClient EXCEPT ![mLock[c].d] = NoClient]
    /\ mLock' = [mLock EXCEPT ![c].at = "post"]
    /\ alive' = alive \ {mLock[c].d}
    /\ UNCHANGED <<now, starts, mTimer, due, fate, queue, task, heap, top, kernel, poll>>

\* Mutant: mClient is not reset.
ClearKeepsClient(c) ==
    /\ mLock[c].at = "clear"
    /\ mLock' = [mLock EXCEPT ![c].at = "post"]
    /\ UNCHANGED <<now, starts, mTimer, mClient, due, fate, alive, queue, task, heap, top,
                   kernel, poll>>

\* destroyLocked resets mClient ...
Clear(c) ==
    /\ mLock[c].at = "clear"
    /\ mClient' = [mClient EXCEPT ![mLock[c].d] = NoClient]
    /\ mLock' = [mLock EXCEPT ![c].at = "post"]
    /\ UNCHANGED <<now, starts, mTimer, due, fate, alive, queue, task, heap, top, kernel, poll>>
---------------------------------------------------------------------------
(* The LocTimerMsgTask thread.                                             *)

Received(kind) ==
    /\ task.at = "idle"
    /\ queue # <<>> /\ Head(queue).kind = kind
    /\ queue' = Tail(queue)

ProcPush ==
    /\ Received("push")
    /\ Push(Head(queue).d)
    /\ UpdateSoonestTime(top)
    /\ UNCHANGED <<now, clients, alive, kernel, poll>>

\* The fd is armed anew if the top was removed; the delegate is deleted whether
\* or not it was still in the heap.
ProcRemove ==
    LET d == Head(queue).d IN
    /\ Received("remove")
    /\ TakeOut(d)
    /\ IF d = top THEN UpdateSoonestTime(None) ELSE UNCHANGED task
    /\ alive' = alive \ {d}
    /\ UNCHANGED <<now, clients, kernel, poll>>

\* Mutant: the fd is left disarmed after an expiration.
PopExpiredUnarmed(time) ==
    \/ /\ heap # {} /\ Sec(due[top]) <= Sec(time)
       /\ TakeOut(top)
       /\ task' = [at |-> "expire", d |-> top, client |-> NoClient, now |-> time]
    \/ /\ heap # {} => Sec(due[top]) > Sec(time)
       /\ UNCHANGED <<heap, top>>
       /\ task' = Idle

\* The rest of the loop of MsgTimerExpire::proc: popIfOutRanks, or arm the fd
\* for what remains.
PopExpired(time) ==
    \/ /\ heap # {} /\ Sec(due[top]) <= Sec(time)
       /\ TakeOut(top)
       /\ task' = [at |-> "expire", d |-> top, client |-> NoClient, now |-> time]
    \/ /\ heap # {} => Sec(due[top]) > Sec(time)
       /\ UNCHANGED <<heap, top>>
       /\ UpdateSoonestTime(None)

\* The first pop is unconditional.
ProcExpire ==
    /\ Received("expire")
    /\ \/ /\ heap # {}
          /\ TakeOut(top)
          /\ task' = [at |-> "expire", d |-> top, client |-> NoClient, now |-> now]
       \/ /\ heap = {}
          /\ UNCHANGED <<task, heap, top>>
    /\ UNCHANGED <<now, clients, alive, kernel, poll>>

\* LocTimerDelegate::expire reads mClient without the lock.
ExpireRead ==
    /\ task.at = "expire"
    /\ \/ /\ mClient[task.d] # NoClient
          /\ task' = [task EXCEPT !.at = "stop", !.client = mClient[task.d]]
          /\ UNCHANGED <<heap, top>>
       \/ /\ mClient[task.d] = NoClient
          /\ PopExpired(task.now)
    /\ UNCHANGED <<now, clients, alive, queue, kernel, poll>>

\* client->stop(): waits for the lock, then stops whatever delegate the client has
\* by now, whose callback will be called.
ExpireStop ==
    /\ task.at = "stop"
    /\ \/ /\ TakeTimer(task.client, "fired")
          /\ task' = [task EXCEPT !.at = "halt"]
          /\ UNCHANGED <<heap, top>>
       \/ /\ mLock[task.client] = Unlocked
          /\ mTimer[task.client] = None
          /\ PopExpired(task.now)
          /\ UNCHANGED clients
    /\ UNCHANGED <<now, alive, queue, kernel, poll>>

\* Is it the expiration that stops client c?
Halting(c) == task.at = "halt" /\ task.client = c

\* ... and posts the removal; stop() releases the lock, and the expiration goes on
\* after its stop().
Post(c) ==
    /\ mLock[c].at = "post"
    /\ queue' = Append(queue, [kind |-> "remove", d |-> mLock[c].d])
    /\ mLock' = [mLock EXCEPT ![c] = Unlocked]
    /\ IF Halting(c) THEN PopExpired(task.now) ELSE UNCHANGED <<task, heap, top>>
    /\ UNCHANGED <<now, starts, mTimer, mClient, due, fate, alive, kernel, poll>>

\* addPoll; a second registration of the fd changes nothing.
AddPoll ==
    /\ task.at = "poll"
    /\ polled' = TRUE
    /\ task' = [task EXCEPT !.at = "arm"]
    /\ UNCHANGED <<now, clients, alive, queue, heap, top, armed, poll>>

SetTime ==
    /\ task.at = "arm"
    /\ armed' = due[top]
    /\ task' = Idle
    /\ UNCHANGED <<now, clients, alive, queue, heap, top, polled, poll>>

\* What is left to do for the holder of client c's lock.
Locked(c) == Assign(c) \/ Clear(c) \/ Post(c)

MsgTask == ProcPush \/ ProcRemove \/ ProcExpire \/ ExpireRead \/ ExpireStop
           \/ AddPoll \/ SetTime
---------------------------------------------------------------------------
(* The LocTimerPollTask thread: run, and LocTimerContainer::expire.        *)

EpollWait ==
    /\ poll = "wait"
    /\ polled /\ armed # Disarmed /\ armed <= now
    /\ poll' = "disarm"
    /\ UNCHANGED kernel

Disarm ==
    /\ poll = "disarm"
    /\ armed' = Disarmed
    /\ poll' = "unpoll"
    /\ UNCHANGED polled

RemovePoll ==
    /\ poll = "unpoll"
    /\ polled' = FALSE
    /\ poll' = "send"
    /\ UNCHANGED armed

SendExpire ==
    /\ poll = "send"
    /\ queue' = Append(queue, [kind |-> "expire", d |-> None])
    /\ poll' = "wait"
    /\ UNCHANGED <<now, clients, alive, task, heap, top, kernel>>

PollTask ==
    \/ /\ EpollWait \/ Disarm \/ RemovePoll
       /\ UNCHANGED <<now, clients, alive, queue, task, heap, top>>
    \/ SendExpire
---------------------------------------------------------------------------
Next ==
    \/ Tick
    \/ \E c \in Clients, delay \in Delays : Start(c, delay)
    \/ \E c \in Clients : Stop(c) \/ Locked(c)
    \/ MsgTask
    \/ PollTask

Spec == Init /\ [][Next]_vars

\* Time passes, both threads run, and who holds a lock goes on to release it; no
\* client need stop its timer.
FairSpec ==
    /\ Spec
    /\ WF_vars(Tick) /\ WF_vars(MsgTask) /\ WF_vars(PollTask)
    /\ \A c \in Clients : WF_vars(Locked(c))
---------------------------------------------------------------------------
(* Properties                                                              *)

\* The soonest timer is never forgotten: while the message thread rests, the fd
\* is registered and armed no later than the top's time, or an expiration that
\* will arm it again is on its way, although two threads arm, disarm, register
\* and remove the fd without a lock.
ExpireComing ==
    poll # "wait" \/ \E i \in 1 .. Len(queue) : queue[i].kind = "expire"

ArmedForTop ==
    task.at = "idle" /\ heap # {} =>
        \/ polled /\ armed # Disarmed /\ armed <= due[top]
        \/ ExpireComing

\* "all timers are deleted here, and only here": what the heap, a message, a
\* client, a start or stop under way or the expiration in progress refers to is not
\* deleted.
NothingDangles ==
    /\ heap \subseteq alive
    /\ \A i \in 1 .. Len(queue) : queue[i].kind # "expire" => queue[i].d \in alive
    /\ \A c \in Clients : mTimer[c] # None => mTimer[c] \in alive
    /\ \A c \in Clients : mLock[c] # Unlocked => mLock[c].d \in alive
    /\ task.at = "expire" => task.d \in alive

\* A started timer that nobody stops fires.
TimerEnds == \A c \in Clients : mTimer[c] # None ~> mTimer[c] = None

\* expire reads mClient without the lock, while start and stop write it and mTimer
\* in separate steps: even so, the client it reads has the expired delegate as its
\* timer, or is making it its timer, or is giving it up.  What the expiration then
\* stops is that delegate or, only if the client has stopped it in between, the one
\* the client has started since.  The callback comes "only if stop() returns true,
\* i.e. it hasn't been stopped already", and once for a start.
StopsExpired ==
    [][/\ task.at = "expire" /\ task'.at = "stop" =>
             task.d \in {mTimer[task'.client], mLock[task'.client].d}
       /\ \A d \in Delegates :
             /\ fate'[d] = "fired" /\ fate[d] # "fired" =>
                   fate[d] = "running" /\ (d = task.d \/ fate[task.d] = "stopped")
             /\ fate[d] \in {"stopped", "fired"} => fate'[d] = fate[d]]_vars
=============================================================================
