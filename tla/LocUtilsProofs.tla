--------------------------- MODULE LocUtilsProofs ---------------------------
(***************************************************************************)
(* The proofs about gps/utils: LocTimer and MsgTask, for any clients,      *)
(* delays and numbers of timers and messages.                              *)
(*                                                                         *)
(* Timers: the soonest timer is armed for, nothing refers to a deleted     *)
(* delegate, and an expiration stops the timer that expired.  The          *)
(* invariant follows a delegate through clients, messages, heap and        *)
(* expiration (References), and the arming of the fd call by call          *)
(* (Arming).                                                               *)
(*                                                                         *)
(* The message task implements Mailbox, loses no wake-up and keeps the     *)
(* delegate alive as long as it is used.  The invariant adds to types what *)
(* the counters and flags say about where the two threads are:             *)
(* RefsCounted, Handling, Closed.                                          *)
(***************************************************************************)
EXTENDS LocTimer, MsgTask, SequenceTheorems, TLAPS
---------------------------------------------------------------------------
(* The timers.                                                             *)

Tasks == [at : {"idle", "expire", "stop", "halt", "poll", "arm"}, d : Refs,
          client : Clients \cup {NoClient}, now : Nat]
Locks == [at : {"free", "assign", "clear", "post"}, d : Refs]

\* A heap that is not empty has a top.
Shape == top = None <=> heap = {}

\* Only delegates that were made are alive or have ended, and each has a time.
Made ==
    /\ alive \subseteq 1 .. starts
    /\ \A d \in 1 .. starts : due[d] # 0
    /\ \A d \in Delegates : d > starts => fate[d] = "none"

\* mTimer and mClient agree while no start or stop is under way: a client's timer runs
\* and knows its client, and a delegate that knows a client is that client's timer or
\* is being made or given up by it.
Owned ==
    /\ \A c \in Clients : mTimer[c] # None =>
          mLock[c].at = "free" /\ mClient[mTimer[c]] = c /\ fate[mTimer[c]] = "running"
    /\ \A d \in Delegates : mClient[d] # NoClient =>
          mTimer[mClient[d]] = d \/ mLock[mClient[d]].d = d

\* What start or stop of client c has done so far to its delegate, which no other
\* client is at work on.
HeldBy(c) ==
    /\ mLock[c].at = "free" => mLock[c] = Unlocked
    /\ mLock[c].at # "free" => mLock[c].d \in alive
    /\ mLock[c].at \in {"assign", "clear"} => mClient[mLock[c].d] = c
    /\ mLock[c].at = "assign" => fate[mLock[c].d] = "running"
    /\ mLock[c].at = "post" => mClient[mLock[c].d] = NoClient
    /\ \A b \in Clients : b # c /\ mLock[c].at # "free" => mLock[b].d # mLock[c].d

Held == \A c \in Clients : HeldBy(c)

\* A removal is the last message about its delegate, which has no client any more
\* and is out of every client's hands.
Removals ==
    \A i \in 1 .. Len(queue) : queue[i].kind = "remove" =>
        /\ mClient[queue[i].d] = NoClient
        /\ \A c \in Clients : mLock[c].d # queue[i].d
        /\ \A j \in 1 .. Len(queue) :
              j > i => queue[j].kind = "expire" \/ queue[j].d # queue[i].d

\* The parts of NothingDangles.
QueueAlive == \A i \in 1 .. Len(queue) : queue[i].kind # "expire" => queue[i].d \in alive
TimersAlive == \A c \in Clients : mTimer[c] # None => mTimer[c] \in alive
HeapAlive == heap \subseteq alive /\ (task.at = "expire" => task.d \in alive)

\* The client that is about to be stopped has the timer that was popped, or is about
\* to have it, or has stopped it; and who has taken a timer is the expiration, which
\* waits in its stop(), or a client, which has stopped it.
Expiring ==
    /\ task.at = "stop" =>
          /\ task.client \in Clients
          /\ task.d \in 1 .. starts
          /\ \/ mTimer[task.client] = task.d \/ fate[task.d] = "stopped"
             \/ mLock[task.client].at = "assign" /\ mLock[task.client].d = task.d
    /\ task.at = "halt" =>
          task.client \in Clients /\ mLock[task.client].at \in {"clear", "post"}
    /\ \A c \in Clients :
          mLock[c].at \in {"clear", "post"} /\ ~ Halting(c) => fate[mLock[c].d] = "stopped"

\* Between the calls that arm the fd there is a top to arm it for, and the fd is
\* registered unless the poll thread is about to ask for another round.
Arming ==
    /\ task.at \in {"poll", "arm"} => heap # {}
    /\ task.at = "arm" => polled \/ ExpireComing

References == Made /\ Owned /\ Held /\ Removals /\ QueueAlive /\ TimersAlive /\ HeapAlive

TimerInv == TypeOK /\ Shape /\ References /\ Expiring /\ Arming /\ ArmedForTop

\* What Append and Tail do to a queue.
LEMMA QueueFacts ==
    ASSUME NEW S, NEW q \in Seq(S)
    PROVE  /\ Len(q) \in Nat
           /\ \A i \in 1 .. Len(q) : q[i] \in S
           /\ \A m \in S : /\ Append(q, m) \in Seq(S)
                           /\ Len(Append(q, m)) = Len(q) + 1
                           /\ \A i \in 1 .. Len(q) : Append(q, m)[i] = q[i]
                           /\ Append(q, m)[Len(q) + 1] = m
           /\ q # <<>> => /\ Len(q) > 0
                          /\ Head(q) = q[1] /\ Head(q) \in S
                          /\ Tail(q) \in Seq(S)
                          /\ Len(Tail(q)) = Len(q) - 1
                          /\ \A i \in 1 .. Len(q) - 1 : Tail(q)[i] = q[i + 1]
  BY ElementOfSeq, LenProperties, AppendProperties, HeadTailProperties, EmptySeq

\* The messages of the queue.
LEMMA MsgFacts ==
    /\ \A d \in Delegates : /\ [kind |-> "push", d |-> d] \in Msgs
                            /\ [kind |-> "remove", d |-> d] \in Msgs
    /\ [kind |-> "expire", d |-> None] \in Msgs
    /\ \A m \in Msgs : m.kind # "expire" => m.kind \in {"push", "remove"} /\ m.d \in Delegates
    /\ Delegates \subseteq Nat /\ None \notin Delegates /\ MaxStart \in Nat
  BY TimerAssumption DEF Msgs, Delegates, None

\* A delegate taken out leaves a heap with a top, the same one unless it was that.
LEMMA TakeOutFacts ==
    ASSUME TypeOK, Shape, NEW d \in Delegates, TakeOut(d)
    PROVE  /\ heap' = heap \ {d}
           /\ top' \in heap' \cup {None}
           /\ Shape'
           /\ d # top => top' = top
  BY MsgFacts DEF TypeOK, Shape, TakeOut, Tops

\* The rest of an expiration pops the top or arms the fd for it.
LEMMA PopFacts ==
    ASSUME TypeOK, Shape, NEW time \in Nat, PopExpired(time)
    PROVE  /\ heap' \subseteq heap
           /\ top' \in heap' \cup {None}
           /\ Shape'
           /\ task' \in Tasks
           /\ task'.at \in {"expire", "poll", "idle"}
           /\ task'.at = "expire" => task'.d \in heap
           /\ task'.at = "poll" => heap' # {}
           /\ task'.at = "idle" => heap' = {}
<1>1. CASE heap # {} /\ TakeOut(top)
           /\ task' = [at |-> "expire", d |-> top, client |-> NoClient, now |-> time]
  <2>1. top \in heap /\ top \in Delegates BY <1>1 DEF TypeOK, Shape
  <2>2. task' \in Tasks BY <1>1, <2>1 DEF Tasks, Refs
  <2> QED BY <1>1, <2>1, <2>2, TakeOutFacts
<1>2. CASE UNCHANGED <<heap, top>> /\ UpdateSoonestTime(None)
  <2>1. Idle \in Tasks /\ [Idle EXCEPT !.at = "poll"] \in Tasks
    BY DEF Idle, Tasks, Refs
  <2>2. Idle.at = "idle" /\ [Idle EXCEPT !.at = "poll"].at = "poll" BY DEF Idle
  <2> QED BY <1>2, <2>1, <2>2 DEF UpdateSoonestTime, TypeOK, Shape
<1> QED BY <1>1, <1>2 DEF PopExpired

\* updateSoonestTime leaves the thread idle or about to arm the fd for the top.
LEMMA UpdateFacts ==
    ASSUME NEW prior, UpdateSoonestTime(prior)
    PROVE  /\ task' \in Tasks
           /\ task'.at \in {"poll", "idle"}
           /\ task'.at = "poll" => top' # None
           /\ task'.at = "idle" => \/ top' = None \/ top' = prior
                                   \/ prior # None /\ ~ OutRanks(top', prior)
<1>1. Idle \in Tasks /\ [Idle EXCEPT !.at = "poll"] \in Tasks
  BY DEF Idle, Tasks, Refs
<1>2. Idle.at = "idle" /\ [Idle EXCEPT !.at = "poll"].at = "poll" BY DEF Idle
<1> QED BY <1>1, <1>2 DEF UpdateSoonestTime

\* The constructors of the container leave nothing that dangles.
LEMMA TimerInitInv == Init => TimerInv
<1> SUFFICES ASSUME Init PROVE TimerInv OBVIOUS
<1> USE TimerAssumption DEF Init
<1>1. TypeOK
  <2>1. Idle \in Tasks BY DEF Idle, Tasks, Refs
  <2>2. queue \in Seq(Msgs) OBVIOUS
  <2>3. now \in 0 .. MaxTime /\ starts \in 0 .. MaxStart OBVIOUS
  <2>4. Unlocked \in Locks BY DEF Unlocked, Locks, Refs
  <2> QED BY <2>1, <2>2, <2>3, <2>4 DEF TypeOK, Tasks, Locks, Refs, Disarmed
<1>2. Shape /\ References
  BY DEF Shape, References, Made, Owned, Held, HeldBy, Unlocked, Removals, QueueAlive,
         TimersAlive, HeapAlive, Idle
<1>3. Expiring /\ Arming /\ ArmedForTop
  BY DEF Expiring, Arming, ArmedForTop, Idle, Unlocked
<1> QED BY <1>1, <1>2, <1>3 DEF TimerInv

\* What start() and stop() make of the lock.
LEMMA LockFacts ==
    ASSUME TypeOK, NEW c \in Clients
    PROVE  /\ mLock[c] \in Locks /\ mLock[c].at \in {"free", "assign", "clear", "post"}
           /\ mLock[c].at # "free" /\ Held => mLock[c].d \in Delegates /\ mLock[c].d # None
           /\ Unlocked \in Locks /\ Unlocked.at = "free" /\ Unlocked.d = None
           /\ [mLock[c] EXCEPT !.at = "post"] \in Locks
           /\ [mLock[c] EXCEPT !.at = "post"].at = "post"
           /\ [mLock[c] EXCEPT !.at = "post"].d = mLock[c].d
           /\ \A l \in Locks : /\ [mLock EXCEPT ![c] = l] \in [Clients -> Locks]
                               /\ [mLock EXCEPT ![c] = l][c] = l
                               /\ \A b \in Clients : b # c => [mLock EXCEPT ![c] = l][b] = mLock[b]
<1>1. mLock \in [Clients -> Locks] BY DEF TypeOK, Locks
<1>2. mLock[c].at # "free" /\ Held => mLock[c].d \in Delegates
  BY DEF Held, HeldBy, TypeOK
<1>3. Unlocked \in Locks BY DEF Unlocked, Locks, Refs
<1> QED BY <1>1, <1>2, <1>3, MsgFacts DEF Locks, Unlocked

\* start(): types.
LEMMA StartType ==
    ASSUME TimerInv, NEW c \in Clients, NEW delay \in Delays, Start(c, delay)
    PROVE  TypeOK' /\ Shape' /\ starts + 1 \in Delegates
<1> USE DEF Start
<1>1. starts + 1 \in Delegates /\ starts' \in 0 .. MaxStart /\ now + delay \in Nat
  BY TimerAssumption DEF TimerInv, TypeOK, Delegates
<1>2. queue' \in Seq(Msgs)
  BY <1>1, MsgFacts, QueueFacts DEF TimerInv, TypeOK
<1>3. /\ mClient' \in [Delegates -> Clients \cup {NoClient}]
      /\ due' \in [Delegates -> Nat]
      /\ fate' \in [Delegates -> {"none", "running", "stopped", "fired"}]
      /\ alive' \subseteq Delegates
  BY <1>1 DEF TimerInv, TypeOK
<1>4. mLock' \in [Clients -> Locks]
  <2>1. [at |-> "assign", d |-> starts + 1] \in Locks BY <1>1 DEF Locks, Refs
  <2> QED BY <2>1, LockFacts DEF TimerInv
<1>5. UNCHANGED <<now, mTimer, task, heap, top, armed, polled, poll>>
  BY DEF kernel
<1>6. Shape' BY <1>5 DEF TimerInv, Shape
<1>7. TypeOK' BY <1>1, <1>2, <1>3, <1>4, <1>5 DEF TimerInv, TypeOK, Locks
<1> QED BY <1>1, <1>6, <1>7

\* The end of start(): types.
LEMMA AssignType == ASSUME TimerInv, NEW c \in Clients, Assign(c) PROVE TypeOK' /\ Shape'
<1>1. mLock' \in [Clients -> Locks] /\ mLock[c].d \in Refs
  BY LockFacts DEF Assign, TimerInv, Locks
<1> QED BY <1>1 DEF Assign, TimerInv, TypeOK, Shape, Locks, kernel

\* stop() takes the timer: types.
LEMMA TakeType ==
    ASSUME TimerInv, NEW c \in Clients, NEW outcome \in {"stopped", "fired"}, TakeTimer(c, outcome)
    PROVE  /\ mTimer[c] \in Delegates
           /\ mTimer' \in [Clients -> Refs]
           /\ mLock' \in [Clients -> Locks]
           /\ mLock'[c].at = "clear" /\ mLock'[c].d = mTimer[c]
           /\ \A b \in Clients : b # c => mLock'[b] = mLock[b]
           /\ fate' \in [Delegates -> {"none", "running", "stopped", "fired"}]
<1>1. mTimer[c] \in Delegates BY DEF TakeTimer, TimerInv, TypeOK, Refs
<1>2. [at |-> "clear", d |-> mTimer[c]] \in Locks BY <1>1 DEF Locks, Refs
<1>3. /\ mLock' = [mLock EXCEPT ![c] = [at |-> "clear", d |-> mTimer[c]]]
      /\ mTimer' = [mTimer EXCEPT ![c] = None]
      /\ fate' = [fate EXCEPT ![mTimer[c]] = outcome]
  BY DEF TakeTimer
<1>4. /\ mLock' \in [Clients -> Locks]
      /\ mLock'[c].at = "clear" /\ mLock'[c].d = mTimer[c]
      /\ \A b \in Clients : b # c => mLock'[b] = mLock[b]
  BY <1>2, <1>3, LockFacts DEF TimerInv
<1>5. /\ mTimer' \in [Clients -> Refs]
      /\ fate' \in [Delegates -> {"none", "running", "stopped", "fired"}]
  BY <1>1, <1>3 DEF TimerInv, TypeOK, Refs
<1> QED BY <1>1, <1>4, <1>5

\* destroyLocked: types.
LEMMA ClearType ==
    ASSUME TimerInv, NEW c \in Clients, Clear(c)
    PROVE  /\ TypeOK' /\ Shape'
           /\ mLock[c].d \in Delegates
           /\ mLock'[c].at = "post" /\ mLock'[c].d = mLock[c].d
           /\ \A b \in Clients : b # c => mLock'[b] = mLock[b]
<1>1. mLock' = [mLock EXCEPT ![c] = [mLock[c] EXCEPT !.at = "post"]]
  BY DEF Clear
<1>2. mLock[c].d \in Delegates
  BY LockFacts DEF Clear, TimerInv, References
<1>3. /\ mLock' \in [Clients -> Locks]
      /\ mLock'[c].at = "post" /\ mLock'[c].d = mLock[c].d
      /\ \A b \in Clients : b # c => mLock'[b] = mLock[b]
  BY <1>1, LockFacts DEF TimerInv
<1> QED BY <1>2, <1>3 DEF Clear, TimerInv, TypeOK, Shape, Locks, kernel

LEMMA PostType ==
    ASSUME TimerInv, NEW c \in Clients, Post(c)
    PROVE  /\ TypeOK' /\ Shape'
           /\ mLock[c].d \in Delegates
           /\ mLock'[c] = Unlocked
           /\ \A b \in Clients : b # c => mLock'[b] = mLock[b]
<1>1. mLock[c].d \in Delegates
  BY LockFacts DEF Post, TimerInv, References
<1>2. /\ mLock' \in [Clients -> Locks] /\ mLock'[c] = Unlocked
      /\ \A b \in Clients : b # c => mLock'[b] = mLock[b]
  BY LockFacts DEF Post, TimerInv
<1>3. queue' \in Seq(Msgs)
  BY <1>1, MsgFacts, QueueFacts DEF TimerInv, TypeOK, Post
<1>4. /\ heap' \subseteq Delegates /\ top' \in heap' \cup {None} /\ Shape'
      /\ task' \in Tasks
  <2>1. CASE Halting(c)
    BY <2>1, PopFacts DEF Post, TimerInv, TypeOK
  <2>2. CASE ~ Halting(c)
    BY <2>2 DEF Post, TimerInv, TypeOK, Shape, Tasks
  <2> QED BY <2>1, <2>2
<1> QED BY <1>1, <1>2, <1>3, <1>4 DEF Post, TimerInv, TypeOK, Locks, Tasks, kernel

\* The message thread: types.
LEMMA MsgTaskType == ASSUME TimerInv, MsgTask PROVE TypeOK' /\ Shape'
<1> USE DEF TimerInv
<1>1. CASE ProcPush
  <2> DEFINE d == Head(queue).d
  <2>1. d \in Delegates /\ Tail(queue) \in Seq(Msgs)
    BY <1>1, MsgFacts, QueueFacts DEF ProcPush, Received, TypeOK
  <2>2. task' \in Tasks BY <1>1, UpdateFacts DEF ProcPush
  <2>3. heap' \subseteq Delegates /\ top' \in heap' \cup {None} /\ Shape'
    BY <1>1, <2>1, MsgFacts DEF ProcPush, Push, TypeOK, Shape
  <2> QED BY <1>1, <2>1, <2>2, <2>3
          DEF ProcPush, Received, TypeOK, Tasks, clients, kernel
<1>2. CASE ProcRemove
  <2> DEFINE d == Head(queue).d
  <2>1. d \in Delegates /\ Tail(queue) \in Seq(Msgs)
    BY <1>2, MsgFacts, QueueFacts DEF ProcRemove, Received, TypeOK
  <2>2. task' \in Tasks BY <1>2, UpdateFacts DEF ProcRemove, TypeOK, Tasks
  <2>3. heap' \subseteq Delegates /\ top' \in heap' \cup {None} /\ Shape'
    BY <1>2, <2>1, TakeOutFacts DEF ProcRemove, TypeOK
  <2> QED BY <1>2, <2>1, <2>2, <2>3
          DEF ProcRemove, Received, TypeOK, Tasks, clients, kernel
<1>3. CASE ProcExpire
  <2>1. Tail(queue) \in Seq(Msgs)
    BY <1>3, QueueFacts DEF ProcExpire, Received, TypeOK
  <2>2. CASE heap # {} /\ TakeOut(top)
             /\ task' = [at |-> "expire", d |-> top, client |-> NoClient, now |-> now]
    <3>1. top \in Delegates /\ now \in Nat
      BY <2>2, TimerAssumption DEF TypeOK, Shape
    <3>2. task' \in Tasks BY <2>2, <3>1 DEF Tasks, Refs
    <3>3. heap' \subseteq Delegates /\ top' \in heap' \cup {None} /\ Shape'
      BY <2>2, <3>1, TakeOutFacts DEF TypeOK
    <3> QED BY <1>3, <2>1, <3>2, <3>3
            DEF ProcExpire, Received, TypeOK, Tasks, clients, kernel
  <2>3. CASE UNCHANGED <<task, heap, top>>
    BY <1>3, <2>1, <2>3 DEF ProcExpire, Received, TypeOK, Shape, clients, kernel
  <2> QED BY <1>3, <2>2, <2>3 DEF ProcExpire
<1>4. CASE ExpireRead
  <2>1. CASE /\ task' = [task EXCEPT !.at = "stop", !.client = mClient[task.d]]
             /\ UNCHANGED <<heap, top>>
    <3>1. task.d \in Delegates
      BY <1>4 DEF ExpireRead, References, HeapAlive, TypeOK
    <3>2. task' \in Tasks BY <2>1, <3>1 DEF TypeOK, Tasks
    <3> QED BY <1>4, <2>1, <3>2 DEF ExpireRead, TypeOK, Shape, Tasks, clients, kernel
  <2>2. CASE PopExpired(task.now)
    <3>1. task.now \in Nat BY DEF TypeOK
    <3>2. /\ heap' \subseteq Delegates /\ top' \in heap' \cup {None} /\ Shape'
          /\ task' \in Tasks
      BY <2>2, <3>1, PopFacts DEF TypeOK
    <3> QED BY <1>4, <3>2 DEF ExpireRead, TypeOK, Tasks, clients, kernel
  <2> QED BY <1>4, <2>1, <2>2 DEF ExpireRead
<1>5. CASE ExpireStop
  <2>1. task.now \in Nat /\ task.client \in Clients
    BY <1>5 DEF ExpireStop, TypeOK, Expiring
  <2>2. CASE TakeTimer(task.client, "fired") /\ task' = [task EXCEPT !.at = "halt"]
             /\ UNCHANGED <<heap, top>>
    <3>1. task' \in Tasks BY <2>2 DEF TypeOK, Tasks
    <3> QED BY <1>5, <2>1, <2>2, <3>1, TakeType
            DEF ExpireStop, TakeTimer, TypeOK, Shape, Tasks, Locks, kernel
  <2>3. CASE PopExpired(task.now) /\ UNCHANGED clients
    <3>1. /\ heap' \subseteq Delegates /\ top' \in heap' \cup {None} /\ Shape'
          /\ task' \in Tasks
      BY <2>1, <2>3, PopFacts DEF TypeOK
    <3> QED BY <1>5, <2>3, <3>1 DEF ExpireStop, TypeOK, Tasks, clients, kernel
  <2> QED BY <1>5, <2>2, <2>3 DEF ExpireStop
<1>6. CASE AddPoll
  <2>1. task' \in Tasks BY <1>6 DEF AddPoll, TypeOK, Tasks
  <2> QED BY <1>6, <2>1 DEF AddPoll, TypeOK, Tasks, Shape, clients
<1>7. CASE SetTime
  <2>1. Idle \in Tasks BY DEF Idle, Tasks, Refs
  <2>2. top \in Delegates
    BY <1>7 DEF SetTime, Arming, TypeOK, Shape
  <2> QED BY <1>7, <2>1, <2>2 DEF SetTime, TypeOK, Tasks, Shape, clients
<1> QED BY <1>1, <1>2, <1>3, <1>4, <1>5, <1>6, <1>7 DEF MsgTask

\* Every step keeps the types, and the top on the heap.
LEMMA TypeStep == ASSUME TimerInv, [Next]_vars PROVE TypeOK' /\ Shape'
<1>1. CASE Tick
  BY <1>1, TimerAssumption DEF Tick, TimerInv, TypeOK, Shape, clients, kernel
<1>2. ASSUME NEW c \in Clients, NEW delay \in Delays, Start(c, delay) PROVE TypeOK' /\ Shape'
  BY <1>2, StartType
<1>3. ASSUME NEW c \in Clients, Stop(c) \/ Locked(c) PROVE TypeOK' /\ Shape'
  <2>1. CASE Stop(c)
    BY <2>1, TakeType DEF Stop, TakeTimer, TimerInv, TypeOK, Shape, Locks, kernel
  <2> QED BY <1>3, <2>1, AssignType, ClearType, PostType DEF Locked
<1>4. CASE MsgTask BY <1>4, MsgTaskType
<1>5. CASE PollTask
  <2>1. CASE SendExpire
    <3>1. queue' \in Seq(Msgs)
      BY <2>1, MsgFacts, QueueFacts DEF SendExpire, TimerInv, TypeOK
    <3> QED BY <2>1, <3>1 DEF SendExpire, TimerInv, TypeOK, Shape, clients, kernel
  <2>2. CASE ~ SendExpire
    <3>1. UNCHANGED <<now, clients, alive, queue, task, heap, top>>
      BY <1>5, <2>2 DEF PollTask
    <3>2. armed \in Nat /\ polled \in BOOLEAN BY DEF TimerInv, TypeOK
    <3>3. armed' = armed \/ armed' = 0
      BY <1>5, <2>2 DEF PollTask, EpollWait, Disarm, RemovePoll, kernel, Disarmed
    <3>4. polled' \in BOOLEAN
      BY <1>5, <2>2, <3>2 DEF PollTask, EpollWait, Disarm, RemovePoll, kernel
    <3>5. poll' \in {"wait", "disarm", "unpoll", "send"}
      BY <1>5, <2>2 DEF PollTask, EpollWait, Disarm, RemovePoll
    <3> QED BY <3>1, <3>2, <3>3, <3>4, <3>5 DEF TimerInv, TypeOK, Shape, clients
  <2> QED BY <2>1, <2>2
<1>6. CASE UNCHANGED vars
  BY <1>6 DEF vars, clients, kernel, TimerInv, TypeOK, Shape
<1> QED BY <1>1, <1>2, <1>3, <1>4, <1>5, <1>6 DEF Next
---------------------------------------------------------------------------
(* What refers to a delegate. *)

\* A fresh start's delegate is not referred to yet.
LEMMA StartRefs ==
    ASSUME TimerInv, NEW c \in Clients, NEW delay \in Delays, Start(c, delay)
    PROVE  References'
<1> DEFINE d == starts + 1
           push == [kind |-> "push", d |-> d]
<1> USE DEF TimerInv
<1>1. d \in Delegates /\ starts \in Nat /\ d # None
  BY StartType, MsgFacts DEF TypeOK
<1>2. d \notin alive /\ alive \subseteq Delegates
  BY <1>1 DEF References, Made, TypeOK
<1>3. /\ push \in Msgs /\ queue \in Seq(Msgs)
      /\ queue' = Append(queue, push) /\ starts' = d
      /\ mLock[c] = Unlocked /\ mTimer[c] = None
      /\ mLock' = [mLock EXCEPT ![c] = [at |-> "assign", d |-> d]]
      /\ mClient' = [mClient EXCEPT ![d] = c]
      /\ due' = [due EXCEPT ![d] = now + delay]
      /\ fate' = [fate EXCEPT ![d] = "running"]
      /\ alive' = alive \cup {d}
      /\ UNCHANGED <<mTimer, task, heap>>
      /\ push.kind = "push" /\ push.d = d
  BY <1>1, MsgFacts DEF Start, TypeOK
<1> HIDE DEF push
<1>4. /\ Len(queue') = Len(queue) + 1 /\ Len(queue) \in Nat
      /\ \A i \in 1 .. Len(queue) : queue'[i] = queue[i] /\ queue[i] \in Msgs
      /\ queue'[Len(queue) + 1] = push
  BY <1>3, QueueFacts
<1>5. Made'
  <2>1. now + delay \in Nat \ {0}
    BY TimerAssumption DEF TypeOK
  <2>2. \A e \in 1 .. d : e \in Delegates
    BY <1>1, MsgFacts DEF Delegates
  <2>3. \A e \in 1 .. d : e = d \/ e \in 1 .. starts
    BY <1>1
  <2> QED BY <1>1, <1>3, <2>1, <2>2, <2>3 DEF References, Made, TypeOK
<1>6. /\ mLock'[c].at = "assign" /\ mLock'[c].d = d
      /\ \A b \in Clients : b # c => mLock'[b] = mLock[b]
      /\ \A b \in Clients : mLock[b].d # d
  <2>1. [at |-> "assign", d |-> d] \in Locks BY <1>1 DEF Locks, Refs
  <2>2. ASSUME NEW b \in Clients PROVE mLock[b].d # d
    <3>1. CASE mLock[b].at = "free"
      BY <1>1, <3>1, LockFacts DEF References, Held, HeldBy
    <3>2. CASE mLock[b].at # "free"
      BY <1>2, <3>2 DEF References, Held, HeldBy
    <3> QED BY <3>1, <3>2
  <2> QED BY <1>3, <2>1, <2>2, LockFacts
<1>7. Owned'
  <2>1. ASSUME NEW b \in Clients, mTimer'[b] # None
        PROVE  /\ mLock'[b].at = "free" /\ mClient'[mTimer'[b]] = b
               /\ fate'[mTimer'[b]] = "running"
    <3>1. b # c /\ mTimer[b] \in alive /\ mTimer'[b] = mTimer[b]
      BY <1>3, <2>1 DEF References, TimersAlive
    <3> QED BY <1>2, <1>3, <1>6, <2>1, <3>1 DEF References, Owned, TypeOK
  <2>2. ASSUME NEW e \in Delegates, mClient'[e] # NoClient
        PROVE  mTimer'[mClient'[e]] = e \/ mLock'[mClient'[e]].d = e
    <3>1. CASE e = d BY <1>1, <1>3, <1>6, <3>1 DEF TypeOK
    <3>2. CASE e # d
      <4>1. /\ mClient'[e] = mClient[e] /\ mClient[e] \in Clients
            /\ mTimer[mClient[e]] = e \/ mLock[mClient[e]].d = e
        BY <1>3, <2>2, <3>2 DEF TypeOK, References, Owned
      <4>2. mTimer[c] = None /\ mLock[c].d = None /\ e # None
        BY <1>3, LockFacts, MsgFacts
      <4>3. mClient[e] # c BY <4>1, <4>2
      <4> QED BY <1>3, <1>6, <4>1, <4>3
    <3> QED BY <3>1, <3>2
  <2> QED BY <2>1, <2>2 DEF Owned
<1>8. Held'
  <2> SUFFICES ASSUME NEW b \in Clients PROVE HeldBy(b)' BY DEF Held
  <2>1. CASE b = c
    BY <1>1, <1>3, <1>6, <2>1 DEF HeldBy, TypeOK
  <2>2. CASE b # c
    <3>1. HeldBy(b) /\ mLock'[b] = mLock[b] /\ mLock[b].d # d
      BY <1>6, <2>2 DEF References, Held
    <3>2. mLock[b].at # "free" => mLock[b].d \in Delegates
      BY LockFacts DEF References
    <3>3. mLock[b].at # "free" =>
             /\ mClient'[mLock[b].d] = mClient[mLock[b].d]
             /\ fate'[mLock[b].d] = fate[mLock[b].d]
      BY <1>3, <3>1, <3>2 DEF TypeOK
    <3>4. mLock[b].at \in {"free", "assign", "clear", "post"} BY LockFacts
    <3>5. \A a \in Clients : a # b /\ mLock[b].at # "free" => mLock'[a].d # mLock[b].d
      BY <1>6, <3>1 DEF HeldBy
    <3> QED BY <1>3, <3>1, <3>3, <3>4, <3>5 DEF HeldBy
  <2> QED BY <2>1, <2>2
<1>9. QueueAlive'
  BY <1>3, <1>4 DEF References, QueueAlive
<1>10. TimersAlive'
  BY <1>3 DEF References, TimersAlive
<1>11. HeapAlive'
  BY <1>3 DEF References, HeapAlive
<1>12. Removals'
  <2> SUFFICES ASSUME NEW i \in 1 .. Len(queue'), queue'[i].kind = "remove"
               PROVE  /\ mClient'[queue'[i].d] = NoClient
                      /\ \A b \in Clients : mLock'[b].d # queue'[i].d
                      /\ \A j \in 1 .. Len(queue') :
                           j > i => queue'[j].kind = "expire" \/ queue'[j].d # queue'[i].d
    BY DEF Removals
  <2>1. i \in 1 .. Len(queue) /\ queue'[i] = queue[i] /\ queue[i].d \in alive
    BY <1>3, <1>4 DEF References, QueueAlive
  <2>2. queue[i].d # d /\ queue[i].d \in Delegates BY <1>2, <2>1
  <2>3. mClient[queue[i].d] = NoClient BY <1>3, <2>1 DEF References, Removals
  <2>4. mClient'[queue[i].d] = NoClient
    BY <1>3, <2>2, <2>3 DEF TypeOK
  <2>5. ASSUME NEW j \in 1 .. Len(queue'), j > i
        PROVE  queue'[j].kind = "expire" \/ queue'[j].d # queue[i].d
    <3>1. CASE j = Len(queue) + 1 BY <1>3, <1>4, <2>2, <3>1
    <3>2. CASE j \in 1 .. Len(queue)
      BY <1>3, <1>4, <2>1, <2>5, <3>2 DEF References, Removals
    <3> QED BY <1>4, <3>1, <3>2
  <2>6. \A b \in Clients : mLock'[b].d # queue[i].d
    BY <1>3, <1>6, <2>1, <2>2 DEF References, Removals
  <2> QED BY <2>1, <2>4, <2>5, <2>6
<1> QED BY <1>5, <1>7, <1>8, <1>9, <1>10, <1>11, <1>12 DEF References

\* start() hands its delegate over to mTimer.
LEMMA AssignRefs == ASSUME TimerInv, NEW c \in Clients, Assign(c) PROVE References'
<1> DEFINE d == mLock[c].d
<1> USE DEF TimerInv
<1>1. /\ d \in Delegates /\ d # None /\ mClient[d] = c /\ fate[d] = "running" /\ d \in alive
      /\ mLock[c].at = "assign"
  BY LockFacts DEF Assign, References, Held, HeldBy
<1>2. /\ mTimer' = [mTimer EXCEPT ![c] = d] /\ mLock'[c] = Unlocked
      /\ \A b \in Clients : b # c => mLock'[b] = mLock[b]
      /\ UNCHANGED <<starts, mClient, due, fate, alive, queue, task, heap>>
      /\ Unlocked.at = "free" /\ Unlocked.d = None
  BY LockFacts DEF Assign
<1> HIDE DEF d
<1>3. Owned'
  <2>1. ASSUME NEW b \in Clients, mTimer'[b] # None
        PROVE  mLock'[b].at = "free" /\ mClient[mTimer'[b]] = b /\ fate[mTimer'[b]] = "running"
    <3>1. CASE b = c BY <1>1, <1>2, <3>1 DEF TypeOK
    <3>2. CASE b # c BY <1>2, <2>1, <3>2 DEF TypeOK, References, Owned
    <3> QED BY <3>1, <3>2
  <2>2. ASSUME NEW e \in Delegates, mClient[e] # NoClient
        PROVE  mTimer'[mClient[e]] = e \/ mLock'[mClient[e]].d = e
    <3>1. /\ mClient[e] \in Clients
          /\ mTimer[mClient[e]] = e \/ mLock[mClient[e]].d = e
      BY <2>2 DEF TypeOK, References, Owned
    <3>2. CASE mClient[e] = c
      <4>1. mTimer[c] = None BY <1>1 DEF References, Owned
      <4>2. e = d BY <3>1, <3>2, <4>1, MsgFacts DEF d
      <4> QED BY <1>2, <3>2, <4>2 DEF TypeOK
    <3>3. CASE mClient[e] # c BY <1>2, <3>1, <3>3 DEF TypeOK
    <3> QED BY <3>2, <3>3
  <2> QED BY <1>2, <2>1, <2>2 DEF Owned
<1>4. Held'
  <2> SUFFICES ASSUME NEW b \in Clients PROVE HeldBy(b)' BY DEF Held
  <2>1. CASE b = c BY <1>2, <2>1 DEF HeldBy
  <2>2. CASE b # c
    <3>1. HeldBy(b) /\ mLock'[b] = mLock[b] BY <1>2, <2>2 DEF References, Held
    <3>2. mLock[b].at # "free" => mLock[b].d # None BY LockFacts DEF References
    <3>3. \A a \in Clients : a # b /\ mLock[b].at # "free" => mLock'[a].d # mLock[b].d
      BY <1>2, <3>1, <3>2 DEF HeldBy
    <3> QED BY <1>2, <3>1, <3>3 DEF HeldBy
  <2> QED BY <2>1, <2>2
<1>5. Removals'
  <2>1. ASSUME NEW i \in 1 .. Len(queue), queue[i].kind = "remove", NEW b \in Clients
        PROVE  mLock'[b].d # queue[i].d
    <3>1. queue[i] \in Msgs BY QueueFacts DEF TypeOK
    <3>2. queue[i].d # None BY <2>1, <3>1, MsgFacts
    <3> QED BY <1>2, <2>1, <3>2 DEF References, Removals
  <2> QED BY <1>2, <2>1 DEF References, Removals
<1>6. Made' /\ QueueAlive' /\ HeapAlive'
  BY <1>2 DEF References, Made, QueueAlive, HeapAlive
<1>7. TimersAlive'
  BY <1>1, <1>2 DEF References, TimersAlive, TypeOK
<1> QED BY <1>3, <1>4, <1>5, <1>6, <1>7 DEF References

\* stop() has the timer in hand.
LEMMA TakeRefs ==
    ASSUME TimerInv, NEW c \in Clients, NEW outcome \in {"stopped", "fired"},
           TakeTimer(c, outcome), UNCHANGED <<alive, queue>>
    PROVE  Made' /\ Owned' /\ Held' /\ Removals' /\ QueueAlive' /\ TimersAlive'
<1> DEFINE d == mTimer[c]
<1> USE DEF TimerInv
<1>1. /\ d \in Delegates /\ d # None /\ d \in alive /\ mClient[d] = c
      /\ fate[d] = "running"
  BY TakeType DEF References, TimersAlive, Owned, TakeTimer
<1>2. /\ mTimer' = [mTimer EXCEPT ![c] = None]
      /\ mLock'[c].at = "clear" /\ mLock'[c].d = d
      /\ \A b \in Clients : b # c => mLock'[b] = mLock[b]
      /\ fate' = [fate EXCEPT ![d] = outcome]
      /\ UNCHANGED <<starts, mClient, due, alive, queue>>
  BY TakeType DEF TakeTimer
<1>3. \A b \in Clients : b # c => mLock[b].d # d
  <2> SUFFICES ASSUME NEW b \in Clients, b # c, mLock[b].d = d PROVE FALSE OBVIOUS
  <2>1. mLock[b].at \in {"assign", "clear", "post"}
    BY <1>1, LockFacts DEF References, Held, HeldBy
  <2>2. mClient[d] \in {b, NoClient} BY <2>1 DEF References, Held, HeldBy
  <2> QED BY <1>1, <2>2, TimerAssumption
<1> HIDE DEF d
<1>4. Made'
  <2>1. d \in 1 .. starts /\ starts \in Nat
    <3>1. starts \in Nat BY TimerAssumption DEF TypeOK
    <3>2. alive \subseteq 1 .. starts BY DEF References, Made
    <3> QED BY <1>1, <3>1, <3>2
  <2>2. \A e \in Delegates : e > starts => e # d
    BY <2>1, MsgFacts
  <2> QED BY <1>2, <2>2 DEF References, Made, TypeOK
<1>5. Owned'
  <2>1. ASSUME NEW b \in Clients, mTimer'[b] # None
        PROVE  mLock'[b].at = "free" /\ mClient[mTimer'[b]] = b /\ fate'[mTimer'[b]] = "running"
    <3>1. b # c /\ mTimer'[b] = mTimer[b] /\ mTimer[b] \in Delegates
      BY <1>2, <2>1 DEF TypeOK, Refs
    <3>2. mLock[b].at = "free" /\ mClient[mTimer[b]] = b /\ fate[mTimer[b]] = "running"
      BY <2>1, <3>1 DEF References, Owned
    <3>3. mTimer[b] # d BY <1>1, <3>1, <3>2
    <3> QED BY <1>2, <3>1, <3>2, <3>3 DEF TypeOK
  <2>2. ASSUME NEW e \in Delegates, mClient[e] # NoClient
        PROVE  mTimer'[mClient[e]] = e \/ mLock'[mClient[e]].d = e
    <3>1. /\ mClient[e] \in Clients
          /\ mTimer[mClient[e]] = e \/ mLock[mClient[e]].d = e
      BY <2>2 DEF TypeOK, References, Owned
    <3>2. CASE mClient[e] = c
      <4>1. mLock[c].d = None BY LockFacts DEF TakeTimer
      <4>2. e = d BY <3>1, <3>2, <4>1, MsgFacts DEF d
      <4> QED BY <1>2, <3>2, <4>2
    <3>3. CASE mClient[e] # c BY <1>2, <3>1, <3>3 DEF TypeOK
    <3> QED BY <3>2, <3>3
  <2> QED BY <1>2, <2>1, <2>2 DEF Owned
<1>6. Held'
  <2> SUFFICES ASSUME NEW b \in Clients PROVE HeldBy(b)' BY DEF Held
  <2>1. CASE b = c BY <1>1, <1>2, <1>3, <2>1 DEF HeldBy
  <2>2. CASE b # c
    <3>1. HeldBy(b) /\ mLock'[b] = mLock[b] /\ mLock[b].d # d
      BY <1>2, <1>3, <2>2 DEF References, Held
    <3>2. mLock[b].at # "free" => mLock[b].d \in Delegates BY LockFacts DEF References
    <3>3. mLock[b].at # "free" => fate'[mLock[b].d] = fate[mLock[b].d]
      BY <1>2, <3>1, <3>2 DEF TypeOK
    <3>4. \A a \in Clients : a # b /\ mLock[b].at # "free" => mLock'[a].d # mLock[b].d
      BY <1>2, <3>1 DEF HeldBy
    <3>5. mLock[b].at \in {"free", "assign", "clear", "post"} BY LockFacts
    <3> QED BY <1>2, <3>1, <3>3, <3>4, <3>5 DEF HeldBy
  <2> QED BY <2>1, <2>2
<1>7. Removals'
  <2>1. ASSUME NEW i \in 1 .. Len(queue), queue[i].kind = "remove", NEW b \in Clients
        PROVE  mLock'[b].d # queue[i].d
    <3>1. queue[i].d # d BY <1>1, <2>1, TimerAssumption DEF References, Removals
    <3> QED BY <1>2, <2>1, <3>1 DEF References, Removals
  <2> QED BY <1>2, <2>1 DEF References, Removals
<1>8. QueueAlive' BY <1>2 DEF References, QueueAlive
<1>9. TimersAlive' BY <1>2 DEF References, TimersAlive, TypeOK
<1> QED BY <1>4, <1>5, <1>6, <1>7, <1>8, <1>9

\* destroyLocked resets mClient.
LEMMA ClearRefs == ASSUME TimerInv, NEW c \in Clients, Clear(c) PROVE References'
<1> DEFINE d == mLock[c].d
<1> USE DEF TimerInv
<1>1. d \in Delegates /\ d \in alive /\ mClient[d] = c /\ mLock[c].at = "clear"
  BY ClearType DEF References, Held, HeldBy, Clear
<1>2. /\ mClient' = [mClient EXCEPT ![d] = NoClient]
      /\ mLock'[c].at = "post" /\ mLock'[c].d = d
      /\ \A b \in Clients : b # c => mLock'[b] = mLock[b]
      /\ UNCHANGED <<starts, mTimer, due, fate, alive, queue, task, heap>>
  BY ClearType DEF Clear
<1>3. \A b \in Clients : mLock'[b].d = mLock[b].d
  BY <1>2
<1> HIDE DEF d
<1>4. Owned'
  <2>1. ASSUME NEW b \in Clients, mTimer[b] # None
        PROVE  mLock'[b].at = "free" /\ mClient'[mTimer[b]] = b /\ fate[mTimer[b]] = "running"
    <3>1. /\ mLock[b].at = "free" /\ mClient[mTimer[b]] = b /\ fate[mTimer[b]] = "running"
          /\ mTimer[b] \in Delegates
      BY <2>1 DEF References, Owned, TypeOK, Refs
    <3>2. b # c BY <1>1, <3>1
    <3>3. mTimer[b] # d BY <1>1, <3>1, <3>2
    <3> QED BY <1>2, <3>1, <3>2, <3>3 DEF TypeOK
  <2>2. ASSUME NEW e \in Delegates, mClient'[e] # NoClient
        PROVE  mTimer[mClient'[e]] = e \/ mLock'[mClient'[e]].d = e
    <3>1. e # d /\ mClient'[e] = mClient[e] /\ mClient[e] \in Clients
      BY <1>1, <1>2, <2>2 DEF TypeOK
    <3>2. mTimer[mClient[e]] = e \/ mLock[mClient[e]].d = e
      BY <2>2, <3>1 DEF References, Owned
    <3> QED BY <1>3, <3>1, <3>2
  <2> QED BY <1>2, <2>1, <2>2 DEF Owned
<1>5. Held'
  <2> SUFFICES ASSUME NEW b \in Clients PROVE HeldBy(b)' BY DEF Held
  <2>1. HeldBy(b) BY DEF References, Held
  <2>2. CASE b = c
    <3>1. mClient'[d] = NoClient BY <1>1, <1>2 DEF TypeOK
    <3>2. \A a \in Clients : a # c => mLock'[a].d # d
      BY <1>1, <1>3, <2>1, <2>2 DEF HeldBy, d
    <3> QED BY <1>1, <1>2, <2>2, <3>1, <3>2 DEF HeldBy
  <2>3. CASE b # c
    <3>1. mLock[b].d # d
      BY <1>1, <2>3 DEF References, Held, HeldBy, d
    <3>2. mLock[b].at # "free" => mLock[b].d \in Delegates BY LockFacts DEF References
    <3>3. mLock[b].at # "free" => mClient'[mLock[b].d] = mClient[mLock[b].d]
      BY <1>2, <3>1, <3>2 DEF TypeOK
    <3>4. mLock[b].at \in {"free", "assign", "clear", "post"} BY LockFacts
    <3> QED BY <1>2, <1>3, <2>1, <2>3, <3>3, <3>4 DEF HeldBy
  <2> QED BY <2>2, <2>3
<1>6. Removals'
  <2>1. ASSUME NEW i \in 1 .. Len(queue), queue[i].kind = "remove"
        PROVE  mClient'[queue[i].d] = NoClient
    <3>1. queue[i] \in Msgs BY QueueFacts DEF TypeOK
    <3>2. queue[i].d \in Delegates BY <2>1, <3>1, MsgFacts
    <3> QED BY <1>2, <2>1, <3>2 DEF TypeOK, References, Removals
  <2> QED BY <1>2, <1>3, <2>1 DEF References, Removals
<1>7. Made' /\ QueueAlive' /\ TimersAlive' /\ HeapAlive'
  BY <1>2 DEF References, Made, QueueAlive, TimersAlive, HeapAlive
<1> QED BY <1>4, <1>5, <1>6, <1>7 DEF References

\* destroyLocked posts the last message about the delegate.
LEMMA PostRefs == ASSUME TimerInv, NEW c \in Clients, Post(c) PROVE References'
<1> DEFINE d == mLock[c].d
           remove == [kind |-> "remove", d |-> d]
<1> USE DEF TimerInv
<1>1. /\ d \in Delegates /\ d # None /\ d \in alive /\ mClient[d] = NoClient
      /\ mLock[c].at = "post"
      /\ \A b \in Clients : b # c => mLock[b].d # d
  <2>1. mLock[c].at = "post" BY DEF Post
  <2>2. d \in Delegates /\ d # None BY PostType, MsgFacts
  <2>3. HeldBy(c) BY DEF References, Held
  <2> QED BY <2>1, <2>2, <2>3 DEF HeldBy
<1>2. /\ remove \in Msgs /\ queue \in Seq(Msgs)
      /\ queue' = Append(queue, remove)
      /\ mLock'[c] = Unlocked
      /\ \A b \in Clients : b # c => mLock'[b] = mLock[b]
      /\ UNCHANGED <<starts, mTimer, mClient, due, fate, alive>>
      /\ remove.kind = "remove" /\ remove.d = d
      /\ Unlocked.at = "free" /\ Unlocked.d = None
  BY <1>1, PostType, LockFacts, MsgFacts DEF Post, TypeOK
<1> HIDE DEF remove, d
<1>3. /\ Len(queue') = Len(queue) + 1 /\ Len(queue) \in Nat
      /\ \A i \in 1 .. Len(queue) : queue'[i] = queue[i] /\ queue[i] \in Msgs
      /\ queue'[Len(queue) + 1] = remove
  BY <1>2, QueueFacts
<1>4. Made' /\ TimersAlive' BY <1>2 DEF References, Made, TimersAlive
<1>5. Owned'
  <2>1. ASSUME NEW b \in Clients, mTimer[b] # None PROVE mLock'[b].at = "free"
    BY <1>2, <2>1 DEF References, Owned
  <2>2. ASSUME NEW e \in Delegates, mClient[e] # NoClient
        PROVE  mTimer[mClient[e]] = e \/ mLock'[mClient[e]].d = e
    <3>1. /\ mClient[e] \in Clients /\ e # d
          /\ mTimer[mClient[e]] = e \/ mLock[mClient[e]].d = e
      BY <1>1, <2>2 DEF TypeOK, References, Owned
    <3>2. mClient[e] = c => mTimer[mClient[e]] = e BY <3>1 DEF d
    <3> QED BY <1>2, <3>1, <3>2
  <2> QED BY <1>2, <2>1, <2>2 DEF References, Owned
<1>6. Held'
  <2> SUFFICES ASSUME NEW b \in Clients PROVE HeldBy(b)' BY DEF Held
  <2>1. CASE b = c BY <1>2, <2>1 DEF HeldBy
  <2>2. CASE b # c
    <3>1. HeldBy(b) /\ mLock'[b] = mLock[b] BY <1>2, <2>2 DEF References, Held
    <3>2. mLock[b].at # "free" => mLock[b].d # None BY LockFacts DEF References
    <3>3. \A a \in Clients : a # b /\ mLock[b].at # "free" => mLock'[a].d # mLock[b].d
      BY <1>2, <3>1, <3>2 DEF HeldBy
    <3> QED BY <1>2, <3>1, <3>3 DEF HeldBy
  <2> QED BY <2>1, <2>2
<1>7. QueueAlive'
  BY <1>1, <1>2, <1>3 DEF References, QueueAlive
<1>8. Removals'
  <2> SUFFICES ASSUME NEW i \in 1 .. Len(queue'), queue'[i].kind = "remove"
               PROVE  /\ mClient'[queue'[i].d] = NoClient
                      /\ \A b \in Clients : mLock'[b].d # queue'[i].d
                      /\ \A j \in 1 .. Len(queue') :
                           j > i => queue'[j].kind = "expire" \/ queue'[j].d # queue'[i].d
    BY DEF Removals
  <2>1. CASE i \in 1 .. Len(queue)
    <3>1. /\ queue'[i] = queue[i] /\ queue[i].d \in Delegates /\ mClient[queue[i].d] = NoClient
          /\ \A b \in Clients : mLock[b].d # queue[i].d
      BY <1>3, <2>1, MsgFacts DEF References, Removals
    <3>2. queue[i].d # d /\ queue[i].d # None BY <3>1, MsgFacts DEF d
    <3>3. ASSUME NEW j \in 1 .. Len(queue'), j > i
          PROVE  queue'[j].kind = "expire" \/ queue'[j].d # queue[i].d
      <4>1. CASE j = Len(queue) + 1 BY <1>2, <1>3, <3>2, <4>1
      <4>2. CASE j \in 1 .. Len(queue)
        BY <1>3, <2>1, <3>1, <3>3, <4>2 DEF References, Removals
      <4> QED BY <1>3, <4>1, <4>2
    <3> QED BY <1>2, <3>1, <3>2, <3>3
  <2>2. CASE i = Len(queue) + 1
    BY <1>1, <1>2, <1>3, <2>2
  <2> QED BY <1>3, <2>1, <2>2
<1>9. HeapAlive'
  <2>1. heap' \subseteq heap /\ (task'.at = "expire" => task'.d \in alive)
    <3>1. CASE Halting(c)
      BY <3>1, PopFacts DEF Post, TypeOK, References, HeapAlive
    <3>2. CASE ~ Halting(c)
      BY <3>2 DEF Post, References, HeapAlive
    <3> QED BY <3>1, <3>2
  <2> QED BY <1>2, <2>1 DEF References, HeapAlive
<1> QED BY <1>4, <1>5, <1>6, <1>7, <1>8, <1>9 DEF References

\* A message that is taken: what was true of all messages is true of the rest.
LEMMA ReceivedFacts ==
    ASSUME TypeOK, NEW kind, Received(kind)
    PROVE  /\ task.at = "idle"
           /\ Len(queue) > 0 /\ queue[1] = Head(queue) /\ Head(queue) \in Msgs
           /\ Head(queue).kind = kind
           /\ Len(queue) \in Nat /\ Len(queue') = Len(queue) - 1
           /\ \A i \in 1 .. Len(queue') :
                 /\ i + 1 \in 1 .. Len(queue) /\ queue'[i] = queue[i + 1]
                 /\ queue'[i] \in Msgs
  BY QueueFacts DEF Received, TypeOK

LEMMA ReceivedRefs ==
    ASSUME TimerInv, NEW kind, Received(kind), UNCHANGED clients
    PROVE  /\ Owned' /\ Removals'
           /\ alive' = alive => Made' /\ Held' /\ QueueAlive' /\ TimersAlive'
<1> USE DEF clients
<1>1. Owned' BY DEF TimerInv, References, Owned
<1>2. Removals'
  <2>1. /\ Len(queue) \in Nat /\ Len(queue') = Len(queue) - 1
        /\ \A i \in 1 .. Len(queue') : i + 1 \in 1 .. Len(queue) /\ queue'[i] = queue[i + 1]
    BY ReceivedFacts DEF TimerInv
  <2>2. SUFFICES ASSUME NEW i \in 1 .. Len(queue'), queue'[i].kind = "remove"
                 PROVE  /\ mClient'[queue'[i].d] = NoClient
                        /\ \A c \in Clients : mLock'[c].d # queue'[i].d
                        /\ \A j \in 1 .. Len(queue') :
                              j > i => \/ queue'[j].kind = "expire"
                                       \/ queue'[j].d # queue'[i].d
    BY DEF Removals
  <2>3. /\ i + 1 \in 1 .. Len(queue) /\ queue'[i] = queue[i + 1]
        /\ mClient' = mClient /\ mLock' = mLock
    BY <2>1
  <2>4. /\ mClient[queue[i + 1].d] = NoClient
        /\ \A c \in Clients : mLock[c].d # queue[i + 1].d
        /\ \A k \in 1 .. Len(queue) :
              k > i + 1 => queue[k].kind = "expire" \/ queue[k].d # queue[i + 1].d
    BY <2>2, <2>3 DEF TimerInv, References, Removals
  <2>5. ASSUME NEW j \in 1 .. Len(queue'), j > i
        PROVE  queue'[j].kind = "expire" \/ queue'[j].d # queue'[i].d
    <3>1. j + 1 \in 1 .. Len(queue) /\ j + 1 > i + 1 /\ queue'[j] = queue[j + 1]
      BY <2>1, <2>5
    <3> QED BY <2>3, <2>4, <3>1
  <2> QED BY <2>3, <2>4, <2>5
<1>3. alive' = alive => Made' /\ Held' /\ QueueAlive' /\ TimersAlive'
  BY ReceivedFacts DEF TimerInv, References, Made, Held, HeldBy, QueueAlive, TimersAlive
<1> QED BY <1>1, <1>2, <1>3

\* Nothing refers to a delegate by the time its removal deletes it.
LEMMA RemoveRefs == ASSUME TimerInv, ProcRemove PROVE References'
<1> DEFINE d == Head(queue).d
<1>1. /\ d \in Delegates /\ d = queue[1].d /\ queue[1].kind = "remove"
      /\ 1 \in 1 .. Len(queue) /\ Len(queue) \in Nat
      /\ \A i \in 1 .. Len(queue') : i + 1 \in 1 .. Len(queue) /\ queue'[i] = queue[i + 1]
      /\ Len(queue') \in Nat
  BY ReceivedFacts, MsgFacts DEF ProcRemove, TimerInv
<1>2. alive' = alive \ {d} /\ UNCHANGED clients BY DEF ProcRemove
<1>3. mClient[d] = NoClient /\ \A c \in Clients : mLock[c].d # d
  BY <1>1 DEF TimerInv, References, Removals
<1>4. Owned' /\ Removals'
  BY <1>2, ReceivedRefs DEF ProcRemove
<1>5. Made' BY <1>2 DEF TimerInv, References, Made, clients
<1>6. QueueAlive'
  <2> SUFFICES ASSUME NEW i \in 1 .. Len(queue'), queue'[i].kind # "expire"
               PROVE  queue'[i].d \in alive'
    BY DEF QueueAlive
  <2>1. i + 1 \in 1 .. Len(queue) /\ queue'[i] = queue[i + 1] /\ i + 1 > 1
    BY <1>1
  <2>2. queue[i + 1].d # d
    BY <1>1, <2>1 DEF TimerInv, References, Removals
  <2>3. queue[i + 1].d \in alive
    BY <2>1 DEF TimerInv, References, QueueAlive
  <2> QED BY <1>2, <2>1, <2>2, <2>3
<1>7. TimersAlive'
  <2> SUFFICES ASSUME NEW c \in Clients, mTimer[c] # None PROVE mTimer[c] \in alive \ {d}
    BY <1>2 DEF TimersAlive, clients
  <2>1. mClient[mTimer[c]] = c /\ mTimer[c] \in alive
    BY DEF TimerInv, References, Owned, TimersAlive
  <2> QED BY <1>3, <2>1, TimerAssumption
<1>8. HeapAlive'
  <2>1. heap' = heap \ {d}
    BY <1>1, TakeOutFacts DEF ProcRemove, TimerInv
  <2>2. task'.at # "expire"
    BY ReceivedFacts, UpdateFacts DEF ProcRemove, TimerInv
  <2> QED BY <1>2, <2>1, <2>2 DEF TimerInv, References, HeapAlive
<1>9. Held'
  BY <1>2, <1>3 DEF TimerInv, References, Held, HeldBy, clients
<1> QED BY <1>4, <1>5, <1>6, <1>7, <1>8, <1>9 DEF References

\* The message thread: what it pops or pushes is alive.
LEMMA MsgTaskRefs == ASSUME TimerInv, MsgTask PROVE References'
<1>1. CASE ProcPush
  <2>1. UNCHANGED <<clients, alive>> /\ Received("push") BY <1>1 DEF ProcPush
  <2>2. Head(queue).d \in alive
    BY <2>1, ReceivedFacts DEF TimerInv, References, QueueAlive
  <2>3. task'.at # "expire" BY <1>1, UpdateFacts DEF ProcPush
  <2>4. HeapAlive'
    BY <1>1, <2>1, <2>2, <2>3 DEF ProcPush, Push, TimerInv, References, HeapAlive
  <2> QED BY <2>1, <2>4, ReceivedRefs DEF References
<1>2. CASE ProcRemove BY <1>2, RemoveRefs
<1>3. CASE ProcExpire
  <2>1. UNCHANGED <<clients, alive>> /\ Received("expire") BY <1>3 DEF ProcExpire
  <2>2. HeapAlive'
    <3>1. CASE heap # {} /\ TakeOut(top)
               /\ task' = [at |-> "expire", d |-> top, client |-> NoClient, now |-> now]
      <4>1. top \in heap /\ top \in Delegates BY <3>1 DEF TimerInv, TypeOK, Shape
      <4>2. heap' = heap \ {top} BY <3>1, <4>1, TakeOutFacts DEF TimerInv
      <4> QED BY <2>1, <3>1, <4>1, <4>2 DEF TimerInv, References, HeapAlive
    <3>2. CASE UNCHANGED <<task, heap, top>>
      BY <2>1, <3>2 DEF TimerInv, References, HeapAlive
    <3> QED BY <1>3, <3>1, <3>2 DEF ProcExpire
  <2> QED BY <2>1, <2>2, ReceivedRefs DEF References
<1>4. CASE ExpireRead
  <2>1. UNCHANGED <<clients, alive, queue>> BY <1>4 DEF ExpireRead
  <2>2. HeapAlive'
    <3>1. CASE /\ task' = [task EXCEPT !.at = "stop", !.client = mClient[task.d]]
               /\ UNCHANGED <<heap, top>>
      BY <2>1, <3>1 DEF TimerInv, TypeOK, References, HeapAlive
    <3>2. CASE PopExpired(task.now)
      <4>1. heap' \subseteq heap /\ (task'.at = "expire" => task'.d \in heap)
        BY <3>2, PopFacts DEF TimerInv, TypeOK
      <4> QED BY <2>1, <4>1 DEF TimerInv, References, HeapAlive
    <3> QED BY <1>4, <3>1, <3>2 DEF ExpireRead
  <2> QED BY <2>1, <2>2 DEF clients, TimerInv, References, Made, Owned, Held, HeldBy,
                            Removals, QueueAlive, TimersAlive
<1>5. CASE ExpireStop
  <2>1. task.now \in Nat /\ task.client \in Clients /\ UNCHANGED <<alive, queue>>
    BY <1>5 DEF ExpireStop, TimerInv, TypeOK, Expiring
  <2>2. CASE TakeTimer(task.client, "fired") /\ task' = [task EXCEPT !.at = "halt"]
             /\ UNCHANGED <<heap, top>>
    <3>1. task'.at # "expire" BY <2>2 DEF TimerInv, TypeOK
    <3>2. Made' /\ Owned' /\ Held' /\ Removals' /\ QueueAlive' /\ TimersAlive'
      BY <2>1, <2>2, TakeRefs
    <3> QED BY <2>1, <2>2, <3>1, <3>2 DEF TimerInv, References, HeapAlive
  <2>3. CASE PopExpired(task.now) /\ UNCHANGED clients
    <3>1. heap' \subseteq heap /\ (task'.at = "expire" => task'.d \in heap)
      BY <2>1, <2>3, PopFacts DEF TimerInv
    <3>2. HeapAlive' BY <2>1, <3>1 DEF TimerInv, References, HeapAlive
    <3>3. Made' /\ Owned' /\ Held' /\ TimersAlive'
      BY <2>1, <2>3 DEF clients, TimerInv, References, Made, Owned, Held, HeldBy, TimersAlive
    <3>4. Removals' /\ QueueAlive'
      BY <2>1, <2>3 DEF clients, TimerInv, References, Removals, QueueAlive
    <3> QED BY <3>2, <3>3, <3>4 DEF References
  <2> QED BY <1>5, <2>2, <2>3 DEF ExpireStop
<1>6. CASE AddPoll \/ SetTime
  <2>1. UNCHANGED <<clients, alive, queue, heap>> /\ task'.at # "expire"
    BY <1>6 DEF AddPoll, SetTime, Idle, TimerInv, TypeOK
  <2> QED BY <2>1 DEF clients, TimerInv, References, Made, Owned, Held, HeldBy, Removals,
                      QueueAlive, TimersAlive, HeapAlive
<1> QED BY <1>1, <1>2, <1>3, <1>4, <1>5, <1>6 DEF MsgTask

LEMMA RefsStep == ASSUME TimerInv, [Next]_vars PROVE References'
<1>1. ASSUME NEW c \in Clients, NEW delay \in Delays, Start(c, delay) PROVE References'
  BY <1>1, StartRefs
<1>2. ASSUME NEW c \in Clients, Stop(c) \/ Locked(c) PROVE References'
  <2>1. CASE Stop(c) BY <2>1, TakeRefs DEF Stop, TimerInv, References, HeapAlive
  <2> QED BY <1>2, <2>1, AssignRefs, ClearRefs, PostRefs DEF Locked
<1>3. CASE MsgTask BY <1>3, MsgTaskRefs
<1>4. CASE SendExpire
  <2>1. /\ UNCHANGED <<clients, alive, task, heap>>
        /\ queue' = Append(queue, [kind |-> "expire", d |-> None])
    BY <1>4 DEF SendExpire
  <2>2. /\ Len(queue') = Len(queue) + 1 /\ Len(queue) \in Nat
        /\ \A i \in 1 .. Len(queue) : queue'[i] = queue[i]
        /\ queue'[Len(queue) + 1].kind = "expire"
    BY <2>1, MsgFacts, QueueFacts DEF TimerInv, TypeOK
  <2>3. Removals' /\ QueueAlive'
    BY <2>1, <2>2 DEF TimerInv, References, Removals, QueueAlive, clients
  <2> QED BY <2>1, <2>3 DEF clients, TimerInv, References, Made, Owned, Held, HeldBy,
                            TimersAlive, HeapAlive
<1>5. CASE Tick \/ (PollTask /\ ~ SendExpire) \/ UNCHANGED vars
  <2>1. UNCHANGED <<clients, alive, queue, task, heap>>
    BY <1>5 DEF Tick, PollTask, vars
  <2> QED BY <2>1 DEF clients, TimerInv, References, Made, Owned, Held, HeldBy, Removals,
                      QueueAlive, TimersAlive, HeapAlive
<1> QED BY <1>1, <1>2, <1>3, <1>4, <1>5 DEF Next, PollTask
---------------------------------------------------------------------------
(* The expiration in progress, and the arming of the fd. *)

\* A stop leaves the expiring client with the popped timer, or that timer stopped.
LEMMA ExpiringStep == ASSUME TimerInv, [Next]_vars PROVE Expiring'
<1> USE DEF TimerInv
<1>0. 1 .. starts \subseteq Delegates /\ starts \in Nat
  BY TimerAssumption DEF TypeOK, Delegates
<1>1. ASSUME NEW c \in Clients, NEW delay \in Delays, Start(c, delay) PROVE Expiring'
  <2>1. /\ starts' = starts + 1 /\ mLock[c].at = "free"
        /\ fate' = [fate EXCEPT ![starts + 1] = "running"]
        /\ UNCHANGED <<mTimer, task>>
        /\ mLock'[c].at = "assign"
        /\ \A b \in Clients : b # c => mLock'[b] = mLock[b]
    <3>1. [at |-> "assign", d |-> starts + 1] \in Locks
      BY <1>1, StartType DEF Locks, Refs
    <3> QED BY <1>1, <3>1, LockFacts DEF Start
  <2>2. fate[starts + 1] = "none" /\ \A d \in Delegates : fate[d] = "stopped" => fate'[d] = "stopped"
    <3>1. fate[starts + 1] = "none" BY <1>0, <1>1, StartType DEF References, Made
    <3> QED BY <2>1, <3>1 DEF TypeOK
  <2>3. ASSUME NEW b \in Clients, mLock'[b].at \in {"clear", "post"}, ~ Halting(b)'
        PROVE  fate'[mLock'[b].d] = "stopped"
    <3>1. b # c /\ mLock'[b] = mLock[b] /\ ~ Halting(b) BY <2>1, <2>3 DEF Halting
    <3>2. fate[mLock[b].d] = "stopped" BY <2>3, <3>1 DEF Expiring
    <3>3. mLock[b].d \in Delegates BY <2>3, <3>1, LockFacts DEF References
    <3> QED BY <2>2, <3>1, <3>2, <3>3
  <2>4. ASSUME task.at = "stop"
        PROVE  /\ task.client \in Clients /\ task.d \in 1 .. starts'
               /\ \/ mTimer[task.client] = task.d \/ fate'[task.d] = "stopped"
                  \/ mLock'[task.client].at = "assign" /\ mLock'[task.client].d = task.d
    <3>1. task.client \in Clients /\ task.d \in 1 .. starts /\ task.d \in Delegates
      BY <1>0, <2>4 DEF Expiring
    <3>2. task.d \in 1 .. starts' BY <1>0, <2>1, <3>1
    <3>3. CASE mTimer[task.client] = task.d \/ fate[task.d] = "stopped"
      BY <2>2, <3>1, <3>2, <3>3
    <3>4. CASE mLock[task.client].at = "assign" /\ mLock[task.client].d = task.d
      BY <2>1, <3>1, <3>2, <3>4
    <3> QED BY <2>4, <3>3, <3>4 DEF Expiring
  <2>5. task.at = "halt" => task.client \in Clients /\ mLock'[task.client].at \in {"clear", "post"}
    BY <2>1 DEF Expiring
  <2> QED BY <2>1, <2>3, <2>4, <2>5 DEF Expiring
<1>2. ASSUME NEW c \in Clients, NEW outcome \in {"stopped", "fired"}, TakeTimer(c, outcome)
      PROVE  /\ UNCHANGED starts /\ mTimer' = [mTimer EXCEPT ![c] = None]
             /\ mLock[c].at = "free"
             /\ mLock'[c].at = "clear" /\ mLock'[c].d = mTimer[c]
             /\ \A b \in Clients : b # c => mLock'[b] = mLock[b]
             /\ mTimer[c] \in Delegates /\ fate'[mTimer[c]] = outcome
             /\ \A d \in Delegates : fate[d] = "stopped" => fate'[d] = "stopped"
  <2>1. mTimer[c] \in Delegates /\ fate[mTimer[c]] = "running"
    BY <1>2, TakeType DEF References, Owned, TakeTimer
  <2>2. fate' = [fate EXCEPT ![mTimer[c]] = outcome] BY <1>2 DEF TakeTimer
  <2>3. fate'[mTimer[c]] = outcome
        /\ \A d \in Delegates : fate[d] = "stopped" => fate'[d] = "stopped"
    BY <2>1, <2>2 DEF TypeOK
  <2> QED BY <1>2, <2>1, <2>3, TakeType, LockFacts DEF TakeTimer
<1>3. ASSUME NEW c \in Clients, Stop(c) PROVE Expiring'
  <2>1. TakeTimer(c, "stopped") /\ UNCHANGED task BY <1>3 DEF Stop
  <2>2. ASSUME task.at = "stop"
        PROVE  /\ task.client \in Clients /\ task.d \in 1 .. starts'
               /\ \/ mTimer'[task.client] = task.d \/ fate'[task.d] = "stopped"
                  \/ mLock'[task.client].at = "assign" /\ mLock'[task.client].d = task.d
    <3>1. task.client \in Clients /\ task.d \in 1 .. starts /\ task.d \in Delegates
      BY <1>0, <2>2 DEF Expiring
    <3>2. mTimer \in [Clients -> Refs] BY DEF TypeOK
    <3>3. CASE task.client = c
      BY <1>2, <2>1, <2>2, <3>1, <3>3 DEF Expiring
    <3>4. CASE task.client # c
      BY <1>2, <2>1, <2>2, <3>1, <3>2, <3>4 DEF Expiring
    <3> QED BY <3>3, <3>4
  <2>3. ASSUME NEW b \in Clients, mLock'[b].at \in {"clear", "post"}, ~ Halting(b)'
        PROVE  fate'[mLock'[b].d] = "stopped"
    <3>1. CASE b = c BY <1>2, <2>1, <3>1
    <3>2. CASE b # c
      <4>1. mLock'[b] = mLock[b] /\ ~ Halting(b) BY <1>2, <2>1, <2>3, <3>2 DEF Halting
      <4>2. fate[mLock[b].d] = "stopped" BY <2>3, <4>1 DEF Expiring
      <4>3. mLock[b].d \in Delegates BY <2>3, <4>1, LockFacts DEF References
      <4> QED BY <1>2, <2>1, <4>1, <4>2, <4>3
    <3> QED BY <3>1, <3>2
  <2>4. task.at = "halt" => task.client \in Clients /\ mLock'[task.client].at \in {"clear", "post"}
    BY <1>2, <2>1 DEF Expiring
  <2> QED BY <2>1, <2>2, <2>3, <2>4 DEF Expiring
<1>4. ASSUME NEW c \in Clients, Assign(c) PROVE Expiring'
  <2>1. /\ mTimer' = [mTimer EXCEPT ![c] = mLock[c].d] /\ mLock[c].at = "assign"
        /\ mLock'[c].at = "free"
        /\ \A b \in Clients : b # c => mLock'[b] = mLock[b]
        /\ UNCHANGED <<starts, fate, task>> /\ mTimer[c] = None
    <3>1. mLock' = [mLock EXCEPT ![c] = Unlocked] BY <1>4 DEF Assign
    <3>2. mLock'[c].at = "free" /\ \A b \in Clients : b # c => mLock'[b] = mLock[b]
      BY <3>1, LockFacts
    <3>3. mTimer[c] = None BY <1>4 DEF Assign, References, Owned
    <3> QED BY <1>4, <3>2, <3>3 DEF Assign
  <2>2. ASSUME task.at = "stop"
        PROVE  \/ mTimer'[task.client] = task.d \/ fate[task.d] = "stopped"
               \/ mLock'[task.client].at = "assign" /\ mLock'[task.client].d = task.d
    <3>1. task.client \in Clients /\ task.d # None /\ mTimer \in [Clients -> Refs]
      BY <1>0, <2>2, MsgFacts DEF Expiring, TypeOK
    <3> QED BY <2>1, <2>2, <3>1 DEF Expiring
  <2>3. ASSUME NEW b \in Clients, mLock'[b].at \in {"clear", "post"}
        PROVE  mLock'[b] = mLock[b]
    BY <2>1, <2>3
  <2>4. task.at = "halt" => task.client \in Clients /\ mLock'[task.client].at \in {"clear", "post"}
    BY <2>1 DEF Expiring
  <2>5. \A b \in Clients : Halting(b)' <=> Halting(b) BY <2>1 DEF Halting
  <2>6. task.at = "stop" => task.client \in Clients /\ task.d \in 1 .. starts
    BY DEF Expiring
  <2> QED BY <2>1, <2>2, <2>3, <2>4, <2>5, <2>6 DEF Expiring
<1>5. ASSUME NEW c \in Clients, Clear(c) PROVE Expiring'
  <2>1. /\ mLock[c].at = "clear" /\ mLock'[c].at = "post" /\ mLock'[c].d = mLock[c].d
        /\ \A b \in Clients : b # c => mLock'[b] = mLock[b]
        /\ UNCHANGED <<starts, mTimer, fate, task>>
    BY <1>5, ClearType DEF Clear
  <2>2. \A b \in Clients : /\ mLock'[b].d = mLock[b].d
                          /\ mLock[b].at = "assign" => mLock'[b].at = "assign"
                          /\ mLock'[b].at \in {"clear", "post"} <=> mLock[b].at \in {"clear", "post"}
    BY <2>1
  <2> QED BY <2>1, <2>2 DEF Expiring, Halting
<1>6. ASSUME NEW c \in Clients, Post(c) PROVE Expiring'
  <2>1. /\ mLock[c].at = "post" /\ mLock'[c].at = "free"
        /\ \A b \in Clients : b # c => mLock'[b] = mLock[b]
        /\ UNCHANGED <<starts, mTimer, fate>>
    BY <1>6, PostType, LockFacts DEF Post
  <2>2. CASE Halting(c)
    <3>1. task'.at \in {"expire", "poll", "idle"}
      BY <1>6, <2>2, PopFacts DEF Post, TypeOK
    <3> QED BY <2>1, <2>2, <3>1 DEF Expiring, Halting
  <2>3. CASE ~ Halting(c)
    <3>1. UNCHANGED task BY <1>6, <2>3 DEF Post
    <3> QED BY <2>1, <2>3, <3>1 DEF Expiring, Halting
  <2> QED BY <2>2, <2>3
<1>7. ASSUME UNCHANGED clients, task.at # "halt", task'.at \notin {"stop", "halt"}
      PROVE  Expiring'
  BY <1>7 DEF clients, Expiring, Halting
<1>8. CASE ProcPush
  BY <1>7, <1>8, UpdateFacts, ReceivedFacts DEF ProcPush
<1>9. CASE ProcRemove
  BY <1>7, <1>9, UpdateFacts, ReceivedFacts DEF ProcRemove
<1>10. CASE ProcExpire
  BY <1>7, <1>10, ReceivedFacts DEF ProcExpire
<1>11. CASE ExpireRead
  <2>1. CASE PopExpired(task.now)
    BY <1>7, <1>11, <2>1, PopFacts DEF ExpireRead, TypeOK
  <2>2. CASE /\ mClient[task.d] # NoClient
             /\ task' = [task EXCEPT !.at = "stop", !.client = mClient[task.d]]
    <3> DEFINE c == mClient[task.d]
    <3>1. task.d \in 1 .. starts /\ task.d \in Delegates /\ task.d # None
      BY <1>0, <1>11, MsgFacts DEF ExpireRead, References, HeapAlive, Made
    <3>2. c \in Clients /\ (mTimer[c] = task.d \/ mLock[c].d = task.d)
      BY <2>2, <3>1 DEF TypeOK, References, Owned
    <3>3. task'.client = c /\ task'.d = task.d /\ task'.at = "stop" /\ task.at = "expire"
      BY <1>11, <2>2 DEF TypeOK, ExpireRead
    <3>4. UNCHANGED <<starts, mTimer, mLock, fate>> BY <1>11 DEF ExpireRead, clients
    <3>5. ASSUME mLock[c].d = task.d
          PROVE  mLock[c].at = "assign" \/ fate[task.d] = "stopped"
      <4>1. mLock[c].at # "free" BY <3>1, <3>2, <3>5, LockFacts DEF References, Held, HeldBy
      <4>2. mLock[c].at = "clear" => fate[task.d] = "stopped"
        BY <3>2, <3>3, <3>5 DEF Expiring, Halting
      <4>3. mLock[c].at # "post" BY <2>2, <3>2, <3>5 DEF References, Held, HeldBy
      <4> QED BY <3>2, <4>1, <4>2, <4>3, LockFacts
    <3> HIDE DEF c
    <3> QED BY <3>1, <3>2, <3>3, <3>4, <3>5 DEF Expiring, Halting
  <2> QED BY <1>11, <2>1, <2>2 DEF ExpireRead
<1>12. CASE ExpireStop
  <2> DEFINE c == task.client
  <2>1. c \in Clients /\ task.at = "stop" BY <1>12 DEF ExpireStop, Expiring
  <2>2. CASE TakeTimer(c, "fired") /\ task' = [task EXCEPT !.at = "halt"]
    <3>1. task'.at = "halt" /\ task'.client = c BY <2>2 DEF TypeOK
    <3> HIDE DEF c
    <3>2. ASSUME NEW b \in Clients, mLock'[b].at \in {"clear", "post"}, ~ Halting(b)'
          PROVE  fate'[mLock'[b].d] = "stopped"
      <4>1. b # c /\ mLock'[b] = mLock[b] BY <1>2, <2>1, <2>2, <3>1, <3>2 DEF Halting
      <4>2. fate[mLock[b].d] = "stopped" BY <2>1, <3>2, <4>1 DEF Expiring, Halting
      <4>3. mLock[b].d \in Delegates BY <3>2, <4>1, LockFacts DEF References
      <4> QED BY <1>2, <2>1, <2>2, <4>1, <4>2, <4>3
    <3> QED BY <1>2, <2>1, <2>2, <3>1, <3>2 DEF Expiring
  <2>3. CASE PopExpired(task.now) /\ UNCHANGED clients
    BY <1>7, <2>1, <2>3, PopFacts DEF TypeOK
  <2> QED BY <1>12, <2>2, <2>3 DEF ExpireStop
<1>13. CASE AddPoll \/ SetTime
  <2>1. task'.at \in {"arm", "idle"} /\ task.at # "halt" /\ UNCHANGED clients
    BY <1>13 DEF AddPoll, SetTime, Idle, TypeOK
  <2> QED BY <1>7, <2>1
<1>14. CASE Tick \/ PollTask \/ UNCHANGED vars
  <2>1. UNCHANGED <<clients, task>> BY <1>14 DEF Tick, PollTask, SendExpire, vars
  <2> QED BY <2>1 DEF clients, Expiring, Halting
<1> QED BY <1>1, <1>3, <1>4, <1>5, <1>6, <1>8, <1>9, <1>10, <1>11, <1>12, <1>13, <1>14
        DEF Next, MsgTask, Locked

\* An expiration that is coming stays so until it is received.
LEMMA ComingStep ==
    ASSUME TimerInv, ExpireComing,
           \/ ProcPush \/ ProcRemove \/ PollTask
           \/ \E c \in Clients : Stop(c) \/ Locked(c) \/ \E delay \in Delays : Start(c, delay)
    PROVE  ExpireComing'
<1> USE DEF TimerInv
<1>1. CASE ProcPush \/ ProcRemove
  <2>1. poll' = poll BY <1>1 DEF ProcPush, ProcRemove
  <2>2. ASSUME NEW i \in 1 .. Len(queue), queue[i].kind = "expire"
        PROVE  \E k \in 1 .. Len(queue') : queue'[k].kind = "expire"
    <3>1. /\ Len(queue) \in Nat /\ Len(queue') = Len(queue) - 1 /\ queue[1].kind # "expire"
          /\ \A k \in 1 .. Len(queue') : queue'[k] = queue[k + 1]
      BY <1>1, ReceivedFacts DEF ProcPush, ProcRemove
    <3>2. i - 1 \in 1 .. Len(queue') /\ (i - 1) + 1 = i BY <2>2, <3>1
    <3>3. queue'[i - 1] = queue[(i - 1) + 1] BY <3>1, <3>2
    <3> QED BY <2>2, <3>2, <3>3
  <2> QED BY <2>1, <2>2 DEF ExpireComing
<1>2. CASE SendExpire
  <2>1. queue' = Append(queue, [kind |-> "expire", d |-> None]) BY <1>2 DEF SendExpire
  <2>2. /\ Len(queue') = Len(queue) + 1 /\ Len(queue) \in Nat
        /\ queue'[Len(queue) + 1].kind = "expire"
    BY <2>1, MsgFacts, QueueFacts DEF TypeOK
  <2>3. Len(queue) + 1 \in 1 .. Len(queue') BY <2>2
  <2> QED BY <2>2, <2>3 DEF ExpireComing
<1>3. CASE EpollWait \/ Disarm \/ RemovePoll
  BY <1>3 DEF EpollWait, Disarm, RemovePoll, ExpireComing
<1>4. ASSUME poll' = poll, NEW m \in Msgs, queue' = Append(queue, m) PROVE ExpireComing'
  BY <1>4, QueueFacts DEF ExpireComing, TypeOK
<1>5. ASSUME NEW c \in Clients, Stop(c) \/ Locked(c) PROVE ExpireComing'
  <2>1. CASE UNCHANGED <<poll, queue>> BY <2>1 DEF ExpireComing
  <2>2. CASE Post(c)
    <3>1. poll' = poll /\ queue' = Append(queue, [kind |-> "remove", d |-> mLock[c].d])
      BY <2>2 DEF Post
    <3> QED BY <1>4, <2>2, <3>1, PostType, MsgFacts
  <2> QED BY <1>5, <2>1, <2>2 DEF Stop, Locked, Assign, Clear
<1>6. ASSUME NEW c \in Clients, NEW delay \in Delays, Start(c, delay) PROVE ExpireComing'
  BY <1>4, <1>6, StartType, MsgFacts DEF Start
<1> QED BY <1>1, <1>2, <1>3, <1>5, <1>6 DEF PollTask

\* The message thread comes to rest with the fd armed for the top.
LEMMA ArmedByTask == ASSUME TimerInv, MsgTask PROVE Arming' /\ ArmedForTop'
<1> USE DEF TimerInv
<1>1. CASE ProcPush
  <2> DEFINE d == Head(queue).d
  <2>1. /\ d \in Delegates /\ task.at = "idle" /\ d \in heap'
        /\ UNCHANGED <<due, armed, polled, poll>>
    BY <1>1, ReceivedFacts, MsgFacts DEF ProcPush, Push, clients, kernel
  <2>2. task'.at \in {"poll", "idle"} BY <1>1, UpdateFacts DEF ProcPush
  <2>3. ASSUME task'.at = "idle" PROVE top # None /\ top' = top
    BY <1>1, <2>1, <2>3, UpdateFacts, MsgFacts DEF ProcPush, Push
  <2>4. ASSUME task'.at = "idle"
        PROVE  (polled' /\ armed' # Disarmed /\ armed' <= due'[top']) \/ ExpireComing'
    <3>1. heap # {} BY <2>3, <2>4 DEF Shape
    <3>2. ExpireComing => ExpireComing'
      BY <1>1, ComingStep
    <3> QED BY <2>1, <2>3, <2>4, <3>1, <3>2 DEF ArmedForTop
  <2> QED BY <2>1, <2>2, <2>4 DEF Arming, ArmedForTop
<1>2. CASE ProcRemove
  <2> DEFINE d == Head(queue).d
  <2>1. /\ d \in Delegates /\ task.at = "idle" /\ d # None
        /\ UNCHANGED <<due, armed, polled, poll>>
    BY <1>2, ReceivedFacts, MsgFacts DEF ProcRemove, clients, kernel
  <2>2. CASE d = top
    <3>1. task'.at \in {"poll", "idle"} /\ (task'.at = "poll" => top' # None)
          /\ (task'.at = "idle" => top' = None)
      BY <1>2, <2>2, UpdateFacts DEF ProcRemove
    <3>2. Shape' BY <1>2, <2>1, TakeOutFacts DEF ProcRemove
    <3> QED BY <3>1, <3>2 DEF Shape, Arming, ArmedForTop
  <2>3. CASE d # top
    <3>1. task' = task /\ top' = top /\ heap' \subseteq heap
      BY <1>2, <2>1, <2>3, TakeOutFacts DEF ProcRemove
    <3>2. ExpireComing => ExpireComing'
      BY <1>2, ComingStep
    <3> QED BY <2>1, <3>1, <3>2 DEF Arming, ArmedForTop
  <2> QED BY <2>2, <2>3
<1>3. CASE ProcExpire
  BY <1>3, ReceivedFacts DEF ProcExpire, Arming, ArmedForTop
<1>4. CASE ExpireRead
  <2>1. CASE PopExpired(task.now)
    BY <2>1, PopFacts DEF TypeOK, Arming, ArmedForTop
  <2>2. CASE task' = [task EXCEPT !.at = "stop", !.client = mClient[task.d]]
    BY <2>2 DEF TypeOK, Arming, ArmedForTop
  <2> QED BY <1>4, <2>1, <2>2 DEF ExpireRead
<1>5. CASE ExpireStop
  <2>1. CASE PopExpired(task.now)
    BY <2>1, PopFacts DEF TypeOK, Arming, ArmedForTop
  <2>2. CASE task' = [task EXCEPT !.at = "halt"]
    BY <2>2 DEF TypeOK, Arming, ArmedForTop
  <2> QED BY <1>5, <2>1, <2>2 DEF ExpireStop
<1>6. CASE AddPoll
  <2>1. task'.at = "arm" /\ heap' # {} /\ polled'
    BY <1>6 DEF AddPoll, TypeOK, Arming
  <2> QED BY <2>1 DEF Arming, ArmedForTop
<1>7. CASE SetTime
  <2>1. task'.at = "idle" /\ armed' = due'[top'] /\ UNCHANGED <<polled, top, due>>
    BY <1>7 DEF SetTime, Idle, clients
  <2>2. top \in heap /\ (polled \/ ExpireComing)
    BY <1>7 DEF SetTime, Arming, TypeOK, Shape
  <2>3. top \in 1 .. starts /\ due[top] # 0 /\ due[top] \in Nat
    BY <1>7 DEF SetTime, Arming, TypeOK, Shape, References, Made, HeapAlive
  <2>4. ExpireComing => ExpireComing'
    BY <1>7 DEF SetTime, ExpireComing
  <2> QED BY <1>7, <2>1, <2>2, <2>3, <2>4 DEF SetTime, Arming, ArmedForTop, Disarmed
<1> QED BY <1>1, <1>2, <1>3, <1>4, <1>5, <1>6, <1>7 DEF MsgTask

\* Clients and the poll thread take nothing from a top without asking for a round.
LEMMA ArmedStep == ASSUME TimerInv, [Next]_vars PROVE Arming' /\ ArmedForTop'
<1> USE DEF TimerInv
<1>1. CASE MsgTask BY <1>1, ArmedByTask
<1>2. ASSUME UNCHANGED <<task, heap, top, kernel>>, ExpireComing => ExpireComing',
             top \in heap => due'[top] = due[top]
      PROVE  Arming' /\ ArmedForTop'
  BY <1>2 DEF kernel, Arming, ArmedForTop, TypeOK, Shape
<1>3. CASE PollTask
  <2>1. UNCHANGED <<task, heap, top, clients>>
    BY <1>3 DEF PollTask, SendExpire
  <2>2. CASE EpollWait \/ Disarm \/ RemovePoll
    <3>1. ExpireComing' BY <2>2 DEF EpollWait, Disarm, RemovePoll, ExpireComing
    <3> QED BY <2>1, <3>1 DEF Arming, ArmedForTop
  <2>3. CASE SendExpire
    BY <1>2, <1>3, <2>1, <2>3, ComingStep DEF SendExpire, clients
  <2> QED BY <1>3, <2>2, <2>3 DEF PollTask
<1>4. ASSUME NEW c \in Clients, NEW delay \in Delays, Start(c, delay)
      PROVE  Arming' /\ ArmedForTop'
  <2>1. top \in heap => top \in Delegates /\ top # starts + 1
    BY StartType DEF TypeOK, References, Made, HeapAlive
  <2>2. due' = [due EXCEPT ![starts + 1] = now + delay] BY <1>4 DEF Start
  <2>3. top \in heap => due'[top] = due[top]
    BY <2>1, <2>2 DEF TypeOK
  <2>4. ExpireComing => ExpireComing' BY <1>4, ComingStep
  <2> QED BY <1>2, <1>4, <2>3, <2>4 DEF Start
<1>5. ASSUME NEW c \in Clients, Stop(c) \/ Locked(c) PROVE Arming' /\ ArmedForTop'
  <2>1. ExpireComing => ExpireComing' BY <1>5, ComingStep
  <2>2. CASE Post(c) /\ Halting(c)
    BY <2>2, PopFacts DEF Post, TypeOK, Arming, ArmedForTop
  <2>3. CASE ~ (Post(c) /\ Halting(c))
    <3>1. UNCHANGED <<task, heap, top, kernel, due>>
      BY <1>5, <2>3 DEF Stop, TakeTimer, Locked, Assign, Clear, Post
    <3> QED BY <1>2, <2>1, <3>1
  <2> QED BY <2>2, <2>3
<1>6. CASE Tick \/ UNCHANGED vars
  BY <1>2, <1>6 DEF Tick, vars, clients, ExpireComing
<1> QED BY <1>1, <1>3, <1>4, <1>5, <1>6 DEF Next
---------------------------------------------------------------------------
(* The theorems about the timers. *)

\* The invariant of the timers is inductive.
THEOREM Inductive == Spec => []TimerInv
<1>1. TimerInv /\ [Next]_vars => TimerInv'
  BY TypeStep, RefsStep, ExpiringStep, ArmedStep DEF TimerInv
<1> QED BY <1>1, TimerInitInv, PTL DEF Spec

\* Every variable of the timers keeps its type.
THEOREM TypeCorrect == Spec => []TypeOK
<1>1. TimerInv => TypeOK BY DEF TimerInv
<1> QED BY <1>1, Inductive, PTL

\* Whatever the two threads do between each other's system calls, the message
\* thread never rests with a soonest timer that nothing will wake it for.
THEOREM SoonestArmed == Spec => []ArmedForTop
<1>1. TimerInv => ArmedForTop BY DEF TimerInv
<1> QED BY <1>1, Inductive, PTL

\* The heap, the messages, the clients, a start or stop under way and an expiration
\* refer to delegates that the only deletion, in MsgTimerRemove, has not reached.
THEOREM DelegatesLive == Spec => []NothingDangles
<1>1. TimerInv => NothingDangles
  BY DEF TimerInv, References, Held, HeldBy, QueueAlive, TimersAlive, HeapAlive, NothingDangles
<1> QED BY <1>1, Inductive, PTL

\* Although start, stop and expire read and write mTimer and mClient in separate
\* steps, expire without the lock, an expiration stops the timer that was popped, or
\* what its client has started after stopping that one; what was stopped is never
\* reported, nor reported twice.
THEOREM ExpiredStopped == Spec => StopsExpired
<1> DEFINE Reads == task.at = "expire" /\ task'.at = "stop" =>
                       task.d \in {mTimer[task'.client], mLock[task'.client].d}
           Ends == \A d \in Delegates :
                      /\ fate'[d] = "fired" /\ fate[d] # "fired" =>
                            fate[d] = "running" /\ (d = task.d \/ fate[task.d] = "stopped")
                      /\ fate[d] \in {"stopped", "fired"} => fate'[d] = fate[d]
<1>1. ASSUME TimerInv, [Next]_vars PROVE Reads
  <2> SUFFICES ASSUME task.at = "expire", task'.at = "stop"
               PROVE  task.d \in {mTimer[task'.client], mLock[task'.client].d}
    OBVIOUS
  <2>1. ExpireRead
    <3>1. ~ (ProcPush \/ ProcRemove \/ ProcExpire)
      BY DEF ProcPush, ProcRemove, ProcExpire, Received
    <3>2. ~ (ExpireStop \/ AddPoll \/ SetTime) BY DEF ExpireStop, AddPoll, SetTime
    <3>3. ASSUME NEW c \in Clients, Locked(c) PROVE UNCHANGED task
      BY <3>3 DEF Locked, Assign, Clear, Post, Halting
    <3> QED BY <1>1, <3>1, <3>2, <3>3
            DEF Next, MsgTask, Tick, Start, Stop, PollTask, SendExpire, vars
  <2>2. /\ mClient[task.d] # NoClient
        /\ task' = [task EXCEPT !.at = "stop", !.client = mClient[task.d]]
    BY <1>1, <2>1, PopFacts DEF ExpireRead, TimerInv, TypeOK
  <2>3. task.d \in Delegates /\ task'.client = mClient[task.d]
    BY <1>1, <2>2 DEF TimerInv, TypeOK, References, HeapAlive
  <2> QED BY <1>1, <2>2, <2>3 DEF TimerInv, References, Owned
<1>2. ASSUME TimerInv, [Next]_vars PROVE Ends
  <2> USE DEF TimerInv
  <2>1. ASSUME NEW c \in Clients, NEW outcome \in {"stopped", "fired"}, TakeTimer(c, outcome)
        PROVE  /\ fate[mTimer[c]] = "running" /\ fate'[mTimer[c]] = outcome
               /\ \A e \in Delegates : e # mTimer[c] => fate'[e] = fate[e]
    <3>1. mTimer[c] \in Delegates BY <1>2, <2>1, TakeType
    <3>2. fate[mTimer[c]] = "running" BY <1>2, <2>1 DEF References, Owned, TakeTimer
    <3>3. fate' = [fate EXCEPT ![mTimer[c]] = outcome] BY <2>1 DEF TakeTimer
    <3> QED BY <1>2, <3>1, <3>2, <3>3 DEF TypeOK
  <2>2. CASE ExpireStop /\ fate' # fate
    <3>1. TakeTimer(task.client, "fired") /\ task.client \in Clients
      BY <1>2, <2>2 DEF ExpireStop, Expiring, clients
    <3>2. mTimer[task.client] = task.d \/ fate[task.d] = "stopped"
      BY <1>2, <2>2, <3>1, LockFacts DEF ExpireStop, Expiring, TakeTimer
    <3> QED BY <2>1, <3>1, <3>2
  <2>3. ASSUME NEW c \in Clients, NEW delay \in Delays, Start(c, delay) PROVE Ends
    <3>1. fate' = [fate EXCEPT ![starts + 1] = "running"] BY <2>3 DEF Start
    <3>2. starts \in Nat BY <1>2, TimerAssumption DEF TypeOK
    <3>3. starts + 1 \in Delegates BY <1>2, <2>3, StartType
    <3>4. fate[starts + 1] = "none" BY <1>2, <3>2, <3>3 DEF References, Made
    <3> QED BY <1>2, <3>1, <3>3, <3>4 DEF TypeOK
  <2>4. ASSUME NEW c \in Clients, Stop(c) PROVE Ends
    <3>1. TakeTimer(c, "stopped") BY <2>4 DEF Stop
    <3> QED BY <2>1, <3>1
  <2>5. CASE UNCHANGED fate
    BY <2>5
  <2>6. ASSUME ~ ExpireStop, ~ \E c \in Clients : Stop(c) \/ \E delay \in Delays : Start(c, delay)
        PROVE  UNCHANGED fate
    BY <1>2, <2>6 DEF Next, Tick, Locked, Assign, Clear, Post, MsgTask, ProcPush, ProcRemove,
           ProcExpire, ExpireRead, AddPoll, SetTime, PollTask, SendExpire, vars, clients
  <2> QED BY <2>2, <2>3, <2>4, <2>5, <2>6
<1>3. TimerInv /\ [Next]_vars => [Reads /\ Ends]_vars
  BY <1>1, <1>2
<1> QED BY <1>3, Inductive, PTL DEF Spec, StopsExpired
---------------------------------------------------------------------------
(* The message task.                                                       *)

\* mRefCount counts the threads that have not let go of the delegate.
RefsCounted ==
    mRefCount = IF worker.at = "gone" THEN IF owner = "gone" THEN 0 ELSE 1
                                      ELSE IF owner = "gone" THEN 1 ELSE 2

\* The worker holds a message exactly while it handles it.
Handling == worker.msg # NoMsg <=> worker.at = "proc"

\* Whatever makes the worker leave comes after the unblock.
Closed ==
    owner # "using" \/ ~ mRunnable \/ worker.at \in {"leave", "delete"} => unblocked

TaskInv == TaskTypeOK /\ RefsCounted /\ Handling /\ Closed /\ NoLostWakeup /\ DelegateLives

Workers == [at : Places, msg : Messages \cup {NoMsg}]

\* The constructors establish the invariant.
LEMMA TaskInitInv == TaskInit => TaskInv
<1> SUFFICES ASSUME TaskInit PROVE TaskInv OBVIOUS
<1> USE DEF TaskInit, NoMsg
<1>1. TaskTypeOK
  <2>1. sent \in 0 .. MaxMsg BY MsgTaskAssumption
  <2>2. msg_list \in Seq(Messages) OBVIOUS
  <2>3. worker \in Workers BY DEF Workers, Places
  <2>4. /\ unblocked \in BOOLEAN /\ refused \subseteq Messages
        /\ owner \in {"using", "read", "stop", "join", "drop", "gone"}
    OBVIOUS
  <2>5. mRunnable \in BOOLEAN /\ mJoinable \in BOOLEAN OBVIOUS
  <2>6. mRefCount \in 0 .. 2 /\ deleted \subseteq {"task", "delegate"} OBVIOUS
  <2> QED BY ONLY <2>1, <2>2, <2>3, <2>4, <2>5, <2>6 DEF TaskTypeOK, Workers, NoMsg
<1>2. RefsCounted /\ Handling BY DEF RefsCounted, Handling
<1>3. Closed BY DEF Closed
<1>4. NoLostWakeup BY DEF NoLostWakeup
<1>5. DelegateLives BY DEF DelegateLives
<1> QED BY <1>1, <1>2, <1>3, <1>4, <1>5 DEF TaskInv

\* A signal wakes the worker if it sleeps, and changes nothing else.
LEMMA WakeFacts ==
  ASSUME worker \in Workers, Wake
  PROVE  /\ worker' \in Workers
         /\ worker'.msg = worker.msg
         /\ worker.at # "asleep" => worker'.at = worker.at
         /\ worker.at = "asleep" => worker'.at = "woken"
<1>1. CASE worker.at = "asleep"
  <2>1. worker' = [worker EXCEPT !.at = "woken"] BY <1>1 DEF Wake
  <2> QED BY <1>1, <2>1 DEF Workers, Places
<1>2. CASE worker.at # "asleep"
  BY <1>2 DEF Wake
<1> QED BY <1>1, <1>2

\* sendMsg: what is sent is a message, and wakes the worker.
LEMMA SendInv == TaskInv /\ SendMsg => TaskInv'
<1> SUFFICES ASSUME TaskInv, SendMsg PROVE TaskInv' OBVIOUS
<1> USE DEF SendMsg, delegate
<1>1. worker \in Workers /\ sent' \in Messages /\ sent' \in 0 .. MaxMsg
  BY MsgTaskAssumption DEF TaskInv, TaskTypeOK, Workers, Messages
<1>2. worker' \in Workers /\ worker'.msg = worker.msg
  BY <1>1, WakeFacts
<1>3. /\ worker.at # "asleep" => worker'.at = worker.at
      /\ worker'.at = "asleep" => unblocked
      /\ worker.at = "asleep" => worker'.at \in {"asleep", "woken"}
  BY <1>1, WakeFacts
<1>4. msg_list' \in Seq(Messages) /\ refused' \subseteq Messages
  <2>1. msg_list \in Seq(Messages) /\ refused \subseteq Messages
    BY DEF TaskInv, TaskTypeOK
  <2>2. CASE unblocked BY <1>1, <2>1, <2>2
  <2>3. CASE ~ unblocked
    <3>1. msg_list' = Append(msg_list, sent') /\ refused' = refused BY <2>3
    <3> QED BY ONLY <1>1, <2>1, <3>1
  <2> QED BY <2>2, <2>3
<1>5. TaskTypeOK'
  BY <1>1, <1>2, <1>4 DEF TaskInv, TaskTypeOK, Workers
<1>6. (RefsCounted /\ Handling /\ Closed /\ DelegateLives)'
  BY <1>2, <1>3 DEF TaskInv, RefsCounted, Handling, Closed, DelegateLives
<1>7. NoLostWakeup'
  BY <1>3 DEF TaskInv, NoLostWakeup
<1> QED BY <1>5, <1>6, <1>7 DEF TaskInv

\* A worker that moves on without a message and without touching the queue,
\* the owner or the references, to a place it may be in.
LEMMA MoveInv ==
  ASSUME TaskInv, NEW place \in Places \ {"proc", "gone"}, Goto(place),
         worker.at # "gone",
         UNCHANGED <<msg_q, owner, mJoinable, mRefCount, deleted>>,
         mRunnable' \in BOOLEAN,
         place = "asleep" => msg_list = <<>> /\ ~ unblocked,
         place \in {"leave", "delete"} \/ mRunnable' # mRunnable => unblocked
  PROVE  TaskInv'
<1> USE DEF msg_q, Goto, NoMsg
<1>1. worker' \in Workers /\ worker'.at = place /\ worker'.msg = 0
  BY DEF Workers
<1>2. TaskTypeOK'
  BY <1>1 DEF TaskInv, TaskTypeOK, Workers
<1>3. (RefsCounted /\ Handling /\ DelegateLives)'
  BY <1>1 DEF TaskInv, RefsCounted, Handling, DelegateLives
<1>4. Closed'
  BY <1>1 DEF TaskInv, Closed
<1>5. NoLostWakeup'
  BY <1>1 DEF TaskInv, NoLostWakeup
<1> QED BY <1>2, <1>3, <1>4, <1>5 DEF TaskInv

\* The worker takes the oldest message.
LEMMA TakeInv ==
  ASSUME TaskInv, worker.at \in {"rcv", "woken"}, msg_list # <<>>, Take,
         UNCHANGED <<sent, unblocked, refused, owner, delegate, deleted>>
  PROVE  TaskInv'
<1> USE DEF delegate, NoMsg
<1>1. /\ worker' = [at |-> "proc", msg |-> Head(msg_list)]
      /\ msg_list' = Tail(msg_list)
  BY DEF Take
<1>2. Head(msg_list) \in Messages /\ msg_list' \in Seq(Messages)
  BY <1>1 DEF TaskInv, TaskTypeOK
<1>3. worker' \in Workers /\ worker'.at = "proc" /\ worker'.msg # 0
  BY <1>1, <1>2, MsgTaskAssumption DEF Workers, Places, Messages
<1>4. TaskTypeOK'
  BY <1>2, <1>3 DEF TaskInv, TaskTypeOK, Workers
<1>5. (RefsCounted /\ Handling /\ Closed /\ DelegateLives /\ NoLostWakeup)'
  BY <1>3 DEF TaskInv, RefsCounted, Handling, Closed, DelegateLives, NoLostWakeup
<1> QED BY <1>4, <1>5 DEF TaskInv

\* The worker's way through its loop, out of it and away.
LEMMA WorkerInv == TaskInv /\ (Worker \/ SpuriousWakeup) => TaskInv'
<1> SUFFICES ASSUME TaskInv, Worker \/ SpuriousWakeup PROVE TaskInv' OBVIOUS
<1>a. mRunnable \in BOOLEAN /\ worker \in Workers
  BY DEF TaskInv, TaskTypeOK, Workers
<1>1. CASE Begin
  BY <1>a, <1>1, MoveInv DEF Begin, delegate, Places
<1>2. CASE Loop
  <2>1. mRunnable \/ unblocked
    BY DEF TaskInv, Closed
  <2> QED BY <1>a, <1>2, <2>1, MoveInv DEF Loop, delegate, Places
<1>3. CASE Proc
  BY <1>a, <1>3, MoveInv DEF Proc, delegate, Places
<1>4. CASE SpuriousWakeup
  BY <1>a, <1>4, MoveInv DEF SpuriousWakeup, delegate, Places
<1>5. CASE Rcv
  <2>1. CASE unblocked /\ Goto("leave") /\ UNCHANGED msg_list
    BY <1>a, <1>5, <2>1, MoveInv DEF Rcv, msg_q, delegate, Places
  <2>2. CASE msg_list # <<>> /\ Take
    BY <1>5, <2>2, TakeInv DEF Rcv
  <2>3. CASE ~ unblocked /\ msg_list = <<>> /\ Goto("asleep") /\ UNCHANGED msg_list
    BY <1>a, <1>5, <2>3, MoveInv DEF Rcv, msg_q, delegate, Places
  <2> QED BY <1>5, <2>1, <2>2, <2>3 DEF Rcv
<1>6. CASE Woken
  <2>1. CASE msg_list = <<>> /\ ~ unblocked /\ Goto("asleep") /\ UNCHANGED msg_list
    BY <1>a, <1>6, <2>1, MoveInv DEF Woken, msg_q, delegate, Places
  <2>2. CASE msg_list # <<>> /\ Take
    BY <1>6, <2>2, TakeInv DEF Woken
  <2>3. CASE unblocked /\ Goto("leave") /\ UNCHANGED msg_list
    BY <1>a, <1>6, <2>3, MoveInv DEF Woken, msg_q, delegate, Places
  <2> QED BY <1>6, <2>1, <2>2, <2>3 DEF Woken, Take
<1>7. CASE Leave
  <2>1. unblocked
    BY <1>7 DEF Leave, TaskInv, Closed
  <2> QED BY <1>7, <2>1, MoveInv DEF Leave, Places
<1>8. CASE DeleteTask
  <2>1. /\ worker' \in Workers /\ worker'.at = "drop" /\ worker'.msg = 0
        /\ worker.at = "delete" /\ unblocked
    BY <1>8 DEF DeleteTask, Goto, Workers, Places, NoMsg, TaskInv, Closed
  <2>2. TaskTypeOK'
    BY <1>8, <2>1 DEF DeleteTask, delegate, TaskInv, TaskTypeOK, Workers
  <2>3. (RefsCounted /\ Handling /\ Closed /\ DelegateLives /\ NoLostWakeup)'
    BY <1>8, <2>1 DEF DeleteTask, delegate, TaskInv, RefsCounted, Handling, Closed,
       DelegateLives, NoLostWakeup, NoMsg
  <2> QED BY <2>2, <2>3 DEF TaskInv
<1>9. CASE WorkerDrop
  <2>1. /\ worker' \in Workers /\ worker'.at = "gone" /\ worker'.msg = 0
        /\ worker.at = "drop"
    BY <1>9 DEF WorkerDrop, Goto, Workers, Places, NoMsg
  <2>2. mRefCount = IF owner = "gone" THEN 1 ELSE 2
    BY <2>1 DEF TaskInv, RefsCounted
  <2>3. /\ mRefCount' = IF owner = "gone" THEN 0 ELSE 1
        /\ "delegate" \in deleted' <=> owner = "gone"
        /\ deleted' \subseteq {"task", "delegate"}
    BY <1>9, <2>1, <2>2 DEF WorkerDrop, Drop, TaskInv, DelegateLives, TaskTypeOK
  <2>4. TaskTypeOK'
    BY <1>9, <2>1, <2>3 DEF WorkerDrop, msg_q, TaskInv, TaskTypeOK, Workers
  <2>5. (RefsCounted /\ Handling /\ Closed /\ DelegateLives /\ NoLostWakeup)'
    BY <1>9, <2>1, <2>3 DEF WorkerDrop, msg_q, TaskInv, RefsCounted, Handling, Closed,
       DelegateLives, NoLostWakeup, NoMsg
  <2> QED BY <2>4, <2>5 DEF TaskInv
<1> QED BY <1>1, <1>2, <1>3, <1>4, <1>5, <1>6, <1>7, <1>8, <1>9 DEF Worker

\* The owner's teardown.
LEMMA OwnerInv == TaskInv /\ (Destroy \/ Owner) => TaskInv'
<1> SUFFICES ASSUME TaskInv, Destroy \/ Owner PROVE TaskInv' OBVIOUS
<1> USE DEF msg_q, delegate, NoMsg
<1>1. CASE Destroy
  <2>1. /\ worker' \in Workers /\ worker'.msg = worker.msg
        /\ worker'.at # "asleep"
        /\ \/ worker'.at = worker.at
           \/ worker.at = "asleep" /\ worker'.at = "woken"
    <3>1. worker \in Workers /\ Wake
      BY <1>1 DEF Destroy, TaskInv, TaskTypeOK, Workers
    <3>2. CASE worker.at = "asleep" BY <3>1, <3>2, WakeFacts
    <3>3. CASE worker.at # "asleep" BY <3>1, <3>3, WakeFacts
    <3> QED BY <3>2, <3>3
  <2>2. TaskTypeOK'
    BY <1>1, <2>1 DEF Destroy, TaskInv, TaskTypeOK, Workers
  <2>3. (RefsCounted /\ Handling /\ Closed /\ DelegateLives /\ NoLostWakeup)'
    BY <1>1, <2>1 DEF Destroy, TaskInv, RefsCounted, Handling, Closed, DelegateLives, NoLostWakeup
  <2> QED BY <2>2, <2>3 DEF TaskInv
<1>2. CASE ReadThread \/ StopThread \/ Join
  <2>1. TaskTypeOK'
    BY <1>2 DEF ReadThread, StopThread, Join, TaskInv, TaskTypeOK
  <2>2. (RefsCounted /\ Handling /\ Closed /\ DelegateLives /\ NoLostWakeup)'
    BY <1>2 DEF ReadThread, StopThread, Join, TaskInv, RefsCounted, Handling, Closed, DelegateLives,
       NoLostWakeup
  <2> QED BY <2>1, <2>2 DEF TaskInv
<1>3. CASE OwnerDrop
  <2>1. mRefCount = IF worker.at = "gone" THEN 1 ELSE 2
    BY <1>3 DEF OwnerDrop, TaskInv, RefsCounted
  <2>2. /\ mRefCount' = IF worker.at = "gone" THEN 0 ELSE 1
        /\ "delegate" \in deleted' <=> worker.at = "gone"
        /\ deleted' \subseteq {"task", "delegate"}
    BY <1>3, <2>1 DEF OwnerDrop, Drop, TaskInv, DelegateLives, TaskTypeOK
  <2>3. TaskTypeOK'
    BY <1>3, <2>2 DEF OwnerDrop, TaskInv, TaskTypeOK
  <2>4. (RefsCounted /\ Handling /\ Closed /\ DelegateLives /\ NoLostWakeup)'
    BY <1>3, <2>2 DEF OwnerDrop, TaskInv, RefsCounted, Handling, Closed, DelegateLives, NoLostWakeup
  <2> QED BY <2>3, <2>4 DEF TaskInv
<1> QED BY <1>1, <1>2, <1>3 DEF Owner

\* Every step keeps the invariant.
LEMMA NextInv == TaskInv /\ [TaskNext]_taskVars => TaskInv'
<1>1. ASSUME TaskInv, UNCHANGED taskVars PROVE TaskInv'
  BY <1>1 DEF taskVars, msg_q, delegate, TaskInv, TaskTypeOK, RefsCounted, Handling, Closed,
     NoLostWakeup, DelegateLives
<1> QED BY <1>1, SendInv, WorkerInv, OwnerInv DEF TaskNext

\* The strengthened invariant holds in every reachable state.
THEOREM TaskInductive == TaskSpec => []TaskInv
  BY TaskInitInv, NextInv, PTL DEF TaskSpec

\* The worker never sleeps on a message or on an unblock (msg_q_rcv's loop).
THEOREM WakeupKept == TaskSpec => []NoLostWakeup
<1>1. TaskInv => NoLostWakeup BY DEF TaskInv
<1> QED BY <1>1, TaskInductive, PTL

\* The delegate is deleted by the last of its two users, and only then.
THEOREM DelegateSafe == TaskSpec => []DelegateLives
<1>1. TaskInv => DelegateLives BY DEF TaskInv
<1> QED BY <1>1, TaskInductive, PTL

\* Every step of a task is a step of the mailbox, or none.
LEMMA StepMaps == TaskInv /\ [TaskNext]_taskVars => [Mail!MailNext]_(Mail!mailVars)
<1> SUFFICES ASSUME TaskInv, [TaskNext]_taskVars PROVE [Mail!MailNext]_(Mail!mailVars)
  OBVIOUS
<1> USE DEF Mail!mailVars, msg_q, NoMsg
<1>1. CASE SendMsg
  <2>1. worker'.msg = worker.msg
    BY <1>1, WakeFacts DEF SendMsg, TaskInv, TaskTypeOK, Workers
  <2> QED BY <1>1, <2>1 DEF SendMsg, Mail!MailNext, Mail!Send
<1>2. CASE Rcv \/ Woken
  <2>1. worker.msg = 0
    BY <1>2 DEF Rcv, Woken, TaskInv, Handling
  <2>2. CASE Take /\ msg_list # <<>>
    BY <1>2, <2>1, <2>2 DEF Take, Rcv, Woken, Mail!MailNext, Mail!Handle
  <2>3. CASE UNCHANGED msg_list /\ worker'.msg = 0
    BY <1>2, <2>1, <2>3 DEF Rcv, Woken
  <2> QED BY <1>2, <2>2, <2>3 DEF Rcv, Woken, Take, Goto
<1>3. CASE Proc
  <2>1. worker.msg # 0 /\ worker'.msg = 0
    BY <1>3 DEF Proc, Goto, TaskInv, Handling
  <2> QED BY <1>3, <2>1 DEF Proc, Mail!MailNext, Mail!Finish
<1>4. CASE DeleteTask
  <2>1. worker.msg = 0 /\ worker'.msg = 0 /\ unblocked
    BY <1>4 DEF DeleteTask, Goto, TaskInv, Handling, Closed
  <2> QED BY <1>4, <2>1 DEF DeleteTask, Mail!MailNext, Mail!Discard
<1>5. CASE Begin \/ Loop \/ Leave \/ WorkerDrop \/ SpuriousWakeup
  <2>1. worker.msg = 0 /\ worker'.msg = 0
    BY <1>5 DEF Begin, Loop, Leave, WorkerDrop, SpuriousWakeup, Goto, TaskInv, Handling
  <2> QED BY <1>5, <2>1 DEF Begin, Loop, Leave, WorkerDrop, SpuriousWakeup
<1>6. CASE Destroy
  <2>1. worker'.msg = worker.msg
    BY <1>6, WakeFacts DEF Destroy, TaskInv, TaskTypeOK, Workers
  <2>2. CASE unblocked
    BY <1>6, <2>1, <2>2 DEF Destroy
  <2>3. CASE ~ unblocked
    BY <1>6, <2>1, <2>3 DEF Destroy, Mail!MailNext, Mail!Close
  <2> QED BY <2>2, <2>3
<1>7. CASE Owner
  BY <1>7 DEF Owner, ReadThread, StopThread, Join, OwnerDrop
<1>8. CASE UNCHANGED taskVars
  BY <1>8 DEF taskVars
<1> QED BY <1>1, <1>2, <1>3, <1>4, <1>5, <1>6, <1>7, <1>8 DEF TaskNext, Worker

\* Refinement: MsgTask with LocThread and msg_q is a mailbox.
THEOREM Refinement == TaskSpec => ImplementsMailbox
<1>1. TaskInit => Mail!MailInit
  BY DEF TaskInit, Mail!MailInit, NoMsg
<1> QED BY <1>1, StepMaps, TaskInductive, PTL DEF TaskSpec, ImplementsMailbox, Mail!MailSpec

\* Every variable of the task keeps its type.
THEOREM TaskTypeCorrect == TaskSpec => []TaskTypeOK
<1>1. TaskInv => TaskTypeOK BY DEF TaskInv
<1> QED BY <1>1, TaskInductive, PTL
=============================================================================
