------------------------------ MODULE MsgTask -------------------------------
(***************************************************************************)
(* MsgTask.cpp with LocThread.cpp and msg_q.c: the thread with a message   *)
(* queue on which the location engine, the contexts and the timers run.    *)
(* Any thread sends; one worker thread receives and runs the messages; the *)
(* owner may destroy the task.  The worker deletes the MsgTask and its     *)
(* queue on its way out; the LocThreadDelegate is deleted by whichever of  *)
(* worker and owner lets go of it last.                                    *)
(*                                                                         *)
(* A section under the queue's list_mutex, or under the delegate's mMutex, *)
(* is one action.                                                          *)
(***************************************************************************)
EXTENDS Naturals, Sequences

CONSTANT MaxMsg  \* bound: messages ever sent; a message is its number

ASSUME MsgTaskAssumption == MaxMsg \in Nat

VARIABLES
    sent,          \* messages sent so far
    msg_list,      \* msg_q's list, oldest message first
    unblocked,     \* msg_q's flag
    refused,       \* messages of which msg_q_snd's error is ignored: leaked
    worker,        \* the spawned thread, and the message it has received
    owner,         \* the thread that made the task
    mRunnable,     \* is the delegate's mRunnable set?
    mJoinable,     \* must the owner join the thread?
    mRefCount,     \* the delegate's references
    deleted        \* which of the two objects are deleted

msg_q == <<sent, msg_list, unblocked, refused>>
delegate == <<mRunnable, mJoinable, mRefCount>>
taskVars == <<msg_q, worker, owner, delegate, deleted>>

Messages == 1 .. MaxMsg
NoMsg == 0
Places == {"start", "loop", "rcv", "asleep", "woken", "proc", "leave", "delete",
           "drop", "gone"}

TaskTypeOK ==
    /\ sent \in 0 .. MaxMsg
    /\ msg_list \in Seq(Messages)
    /\ unblocked \in BOOLEAN
    /\ refused \subseteq Messages
    /\ worker \in [at : Places, msg : Messages \cup {NoMsg}]
    /\ owner \in {"using", "read", "stop", "join", "drop", "gone"}
    /\ mRunnable \in BOOLEAN
    /\ mJoinable \in BOOLEAN
    /\ mRefCount \in 0 .. 2
    /\ deleted \subseteq {"task", "delegate"}

\* The constructors: mRefCount is 2 before the thread runs.
TaskInit ==
    /\ sent = 0
    /\ msg_list = <<>>
    /\ unblocked = FALSE
    /\ refused = {}
    /\ worker = [at |-> "start", msg |-> NoMsg]
    /\ owner = "using"
    /\ mRunnable = TRUE
    /\ mJoinable \in BOOLEAN
    /\ mRefCount = 2
    /\ deleted = {}

Goto(place) == worker' = [at |-> place, msg |-> NoMsg]

\* Mutant: pthread_cond_signal or _broadcast is forgotten.
WakeNobody == UNCHANGED worker

\* The worker is the only one that waits on list_cond.
Wake == worker' = IF worker.at = "asleep" THEN [worker EXCEPT !.at = "woken"] ELSE worker
---------------------------------------------------------------------------
\* sendMsg, on a task that is not deleted: msg_q_snd refuses after an unblock.
SendMsg ==
    /\ sent < MaxMsg
    /\ "task" \notin deleted
    /\ sent' = sent + 1
    /\ \/ /\ ~ unblocked
          /\ msg_list' = Append(msg_list, sent')
          /\ Wake
          /\ UNCHANGED refused
       \/ /\ unblocked
          /\ refused' = refused \cup {sent'}
          /\ UNCHANGED <<msg_list, worker>>
    /\ UNCHANGED <<unblocked, owner, delegate, deleted>>
---------------------------------------------------------------------------
(* The worker: LocThreadDelegate::threadMain, and MsgTask::run.            *)

\* A mRunnable that is already NULL is not run, and not deleted either.
Begin ==
    /\ worker.at = "start"
    /\ Goto(IF mRunnable THEN "loop" ELSE "drop")
    /\ UNCHANGED <<msg_q, owner, delegate, deleted>>

Loop ==
    /\ worker.at = "loop"
    /\ Goto(IF mRunnable THEN "rcv" ELSE "leave")
    /\ UNCHANGED <<msg_q, owner, delegate, deleted>>

\* Mutant: the newest message is taken.
TakeNewest ==
    \/ /\ msg_list # <<>>
       /\ worker' = [at |-> "proc", msg |-> msg_list[Len(msg_list)]]
       /\ msg_list' = SubSeq(msg_list, 1, Len(msg_list) - 1)
    \/ /\ msg_list = <<>>
       /\ Goto("leave")
       /\ UNCHANGED msg_list

\* linked_list_remove takes the oldest message; without one, msg_q_rcv fails and
\* run returns FALSE.
Take ==
    \/ /\ msg_list # <<>>
       /\ worker' = [at |-> "proc", msg |-> Head(msg_list)]
       /\ msg_list' = Tail(msg_list)
    \/ /\ msg_list = <<>>
       /\ Goto("leave")
       /\ UNCHANGED msg_list

\* Mutant: the list is not looked at before the wait.
RcvBlind ==
    /\ worker.at = "rcv"
    /\ \/ unblocked /\ Goto("leave")
       \/ ~ unblocked /\ Goto("asleep")
    /\ UNCHANGED <<msg_q, owner, delegate, deleted>>

\* msg_q_rcv up to the wait: an unblocked queue gives no message, even if it
\* has some.
Rcv ==
    /\ worker.at = "rcv"
    /\ \/ unblocked /\ Goto("leave") /\ UNCHANGED msg_list
       \/ ~ unblocked /\ msg_list # <<>> /\ Take
       \/ ~ unblocked /\ msg_list = <<>> /\ Goto("asleep") /\ UNCHANGED msg_list
    /\ UNCHANGED <<sent, unblocked, refused, owner, delegate, deleted>>

\* pthread_cond_wait may return without a signal.
SpuriousWakeup ==
    /\ worker.at = "asleep"
    /\ Goto("woken")
    /\ UNCHANGED <<msg_q, owner, delegate, deleted>>

\* msg_q_rcv after the wait; the message that woke it is taken even if the
\* queue was unblocked in between.
Woken ==
    /\ worker.at = "woken"
    /\ \/ msg_list = <<>> /\ ~ unblocked /\ Goto("asleep") /\ UNCHANGED msg_list
       \/ (msg_list # <<>> \/ unblocked) /\ Take
    /\ UNCHANGED <<sent, unblocked, refused, owner, delegate, deleted>>

\* proc() and the delete of the message.
Proc ==
    /\ worker.at = "proc"
    /\ Goto("loop")
    /\ UNCHANGED <<msg_q, owner, delegate, deleted>>

Leave ==
    /\ worker.at = "leave"
    /\ mRunnable' = FALSE
    /\ Goto("delete")
    /\ UNCHANGED <<msg_q, owner, mJoinable, mRefCount, deleted>>

\* delete runnable: ~MsgTask flushes and destroys the queue.
DeleteTask ==
    /\ worker.at = "delete"
    /\ msg_list' = <<>>
    /\ deleted' = deleted \cup {"task"}
    /\ Goto("drop")
    /\ UNCHANGED <<sent, unblocked, refused, owner, delegate>>

\* Mutant: a reference is dropped twice.
DropTwice == mRefCount' = mRefCount - 2 /\ UNCHANGED deleted

\* Mutant: the reference that reaches 0 is taken for the last but one.
DropEarly ==
    /\ mRefCount' = mRefCount - 1
    /\ deleted' = IF mRefCount = 2 THEN deleted \cup {"delegate"} ELSE deleted

\* LocThreadDelegate::destroy.
Drop ==
    /\ mRefCount' = mRefCount - 1
    /\ deleted' = IF mRefCount = 1 THEN deleted \cup {"delegate"} ELSE deleted

WorkerDrop ==
    /\ worker.at = "drop"
    /\ Drop
    /\ Goto("gone")
    /\ UNCHANGED <<msg_q, owner, mRunnable, mJoinable>>

Worker == Begin \/ Loop \/ Rcv \/ Woken \/ Proc \/ Leave \/ DeleteTask \/ WorkerDrop
---------------------------------------------------------------------------
(* The owner: MsgTask::destroy.                                            *)

\* msg_q_unblock.
Destroy ==
    /\ owner = "using"
    /\ unblocked' = TRUE
    /\ Wake
    /\ owner' = "read"
    /\ UNCHANGED <<sent, msg_list, refused, delegate, deleted>>

\* mThread is read and reset in the MsgTask; ~LocThread calls bye().
ReadThread ==
    /\ owner = "read"
    /\ owner' = IF mJoinable THEN "stop" ELSE "drop"
    /\ UNCHANGED <<msg_q, worker, delegate, deleted>>

\* LocThreadDelegate::stop.
StopThread ==
    /\ owner = "stop"
    /\ mRunnable' = FALSE
    /\ owner' = "join"
    /\ UNCHANGED <<msg_q, worker, mJoinable, mRefCount, deleted>>

Join ==
    /\ owner = "join"
    /\ worker.at = "gone"
    /\ mJoinable' = FALSE
    /\ owner' = "drop"
    /\ UNCHANGED <<msg_q, worker, mRunnable, mRefCount, deleted>>

OwnerDrop ==
    /\ owner = "drop"
    /\ Drop
    /\ owner' = "gone"
    /\ UNCHANGED <<msg_q, worker, mRunnable, mJoinable>>

Owner == ReadThread \/ StopThread \/ Join \/ OwnerDrop
---------------------------------------------------------------------------
TaskNext == SendMsg \/ Worker \/ SpuriousWakeup \/ Destroy \/ Owner

TaskSpec == TaskInit /\ [][TaskNext]_taskVars

\* Both threads run; the owner need not destroy the task.
TaskFairSpec == TaskSpec /\ WF_taskVars(Worker) /\ WF_taskVars(Owner)
---------------------------------------------------------------------------
(* Properties                                                              *)

\* No lost wake-up: the worker does not sleep on a message or on an unblock.
NoLostWakeup == worker.at = "asleep" => msg_list = <<>> /\ ~ unblocked

\* "when mRefCount becomes 0" the delegate is deleted, and not before: whoever
\* is still going to use it finds it alive, and in the end it is not leaked.
DelegateLives ==
    "delegate" \in deleted <=> worker.at = "gone" /\ owner = "gone"

\* The worker is in its loop, or about to delete the task.  A joinable thread
\* whose owner stops it before it has begun never gets here.
Running == worker.at \notin {"start", "drop", "gone"}

\* A task that is destroyed while its thread runs is deleted.
TaskDeleted == owner # "using" /\ Running ~> "task" \in deleted

\* A message that was accepted leaves the queue, to be handled or, once the task
\* is destroyed, to be deleted with it.
Waiting(m) == \E i \in 1 .. Len(msg_list) : msg_list[i] = m

MessageLeaves == \A m \in Messages : Running /\ Waiting(m) ~> ~ Waiting(m)

\* The task is a mailbox: messages are handled in the order they were sent, one
\* at a time, and none accepted is lost while the queue is not unblocked.
Mail == INSTANCE Mailbox WITH
    box <- msg_list, busy <- worker.msg, closed <- unblocked

ImplementsMailbox == Mail!MailSpec
=============================================================================
