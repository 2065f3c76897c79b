----------------------------- MODULE LocSyncReq -----------------------------
(***************************************************************************)
(* loc_api_sync_req.c: threads turn the asynchronous Loc API into blocking *)
(* calls.  A call takes a slot of loc_sync_array, says which indication it *)
(* waits for, sends its request and sleeps on the slot's condition         *)
(* variable; the QMI receiver thread hands each indication to the slots.   *)
(*                                                                         *)
(* A section under a slot's sync_req_lock is one action.  Sections under   *)
(* loc_sync_call_mutex alone (alloc, free) are one action too; the         *)
(* receiver's scan holds that mutex over several slot sections, so it is a *)
(* sequence of actions, and alloc and free wait until it is over.          *)
(***************************************************************************)
EXTENDS Naturals, FiniteSets

CONSTANTS
    Threads,      \* the threads that call loc_sync_send_req
    Size,         \* LOC_SYNC_REQ_BUFFER_SIZE
    Ids,          \* the response indications they wait for
    Old,          \* the sender of a request whose call is over
    None,         \* NULL: no payload pointer, no indication
    NullPayload,  \* may a caller pass a NULL ind_payload_ptr?
    Spurious,     \* may pthread_cond_timedwait return without a signal?
    MaxInd        \* bound: indications under way

Slots == 1 .. Size
NoSlot == 0
NoId == 0

ASSUME SyncAssumption ==
    /\ Size \in Nat \ {0}
    /\ Old \notin Threads /\ None \notin Threads
    /\ NoId \notin Ids
    /\ NullPayload \in BOOLEAN
    /\ Spurious \in BOOLEAN
    /\ MaxInd \in Nat

VARIABLES
    pc,         \* where each thread is; "idle" outside of loc_sync_send_req
    want,       \* the call's ind_id, ind_payload_ptr and select_id
    got,        \* the indication handed to the call (history)
    status,     \* loc_sync_send_req's status, initialised to success
    slots,      \* loc_sync_array.slots and slot_in_use
    inUse,      \* loc_sync_array.in_use
    inflight,   \* answers of the modem under way
    scan        \* the receiver's loop in loc_sync_process_ind

vars == <<pc, want, got, status, slots, inUse, inflight, scan>>

Inds == [id : Ids, by : Threads \cup {Old}]

Pcs == {"idle", "select", "send", "wait", "blocked", "woken", "timedout", "free",
        "return"}
Results == {"SUCCESS", "SEND_FAILED", "TIMEOUT", "INTERNAL"}

NoCall == [id |-> NoId, buf |-> FALSE, sel |-> NoSlot]

FreeSlot == [use |-> FALSE, id |-> NoId, buf |-> None, waiting |-> FALSE,
             arrived |-> FALSE]

Entries == [use : BOOLEAN, id : Ids \cup {NoId}, buf : Threads \cup {None},
            waiting : BOOLEAN, arrived : BOOLEAN]
Wants == {NoCall} \cup [id : Ids, buf : BOOLEAN, sel : Slots]

TypeOK ==
    /\ pc \in [Threads -> Pcs]
    /\ want \in [Threads -> Wants]
    /\ got \in [Threads -> {"nothing", "own", "foreign", "spurious"}]
    /\ status \in [Threads -> Results]
    /\ slots \in [Slots -> Entries]
    /\ inUse \in BOOLEAN
    /\ inflight \subseteq Inds
    /\ scan \in [at : 0 .. Size + 1, seen : BOOLEAN, ind : Inds \cup {None}]

\* loc_sync_req_init
Idle == [at |-> 0, seen |-> FALSE, ind |-> None]

Init ==
    /\ pc = [t \in Threads |-> "idle"]
    /\ want = [t \in Threads |-> NoCall]
    /\ got = [t \in Threads |-> "nothing"]
    /\ status = [t \in Threads |-> "SUCCESS"]
    /\ slots = [s \in Slots |-> FreeSlot]
    /\ inUse = FALSE
    /\ inflight = {}
    /\ scan = Idle

CallMutexFree == scan.at = 0
Slot(t) == slots[want[t].sel]
Goto(t, label) == pc' = [pc EXCEPT ![t] = label]
---------------------------------------------------------------------------
(* loc_sync_send_req, a section at a time.                                 *)

\* loc_alloc_slot: the first free slot.
AllocSlot(t, id, buf) ==
    /\ \E s \in Slots :
          /\ ~ slots[s].use
          /\ \A r \in 1 .. s - 1 : slots[r].use
          /\ slots' = [slots EXCEPT ![s].use = TRUE]
          /\ want' = [want EXCEPT ![t] = [id |-> id, buf |-> buf, sel |-> s]]
    /\ inUse' = TRUE
    /\ Goto(t, "select")
    /\ UNCHANGED status

\* No free slot: loc_sync_select_ind gives -ENOMEM, which loc_sync_send_req
\* does not turn into a status; nothing is sent.
BufferFull(t) ==
    /\ \A s \in Slots : slots[s].use
    /\ status' = [status EXCEPT ![t] = "SUCCESS"]
    /\ Goto(t, "return")
    /\ UNCHANGED <<want, slots, inUse>>

Call(t, id, buf) ==
    /\ pc[t] = "idle" /\ CallMutexFree
    /\ buf \/ NullPayload
    /\ AllocSlot(t, id, buf) \/ BufferFull(t)
    /\ UNCHANGED <<got, inflight, scan>>

\* loc_sync_select_ind, under the slot's lock.
SelectInd(t) ==
    /\ pc[t] = "select"
    /\ slots' = [slots EXCEPT ![want[t].sel] =
          [use |-> TRUE, id |-> want[t].id,
           buf |-> IF want[t].buf THEN t ELSE None,
           waiting |-> FALSE, arrived |-> FALSE]]
    /\ Goto(t, "send")
    /\ UNCHANGED <<want, got, status, inUse, inflight, scan>>

\* locClientSendReq; an answer to a request that was sent may get lost.
SendReq(t) ==
    /\ pc[t] = "send"
    /\ \/ /\ Goto(t, "wait")
          /\ \/ UNCHANGED inflight
             \/ /\ Cardinality(inflight) < MaxInd
                /\ inflight' = inflight \cup {[id |-> want[t].id, by |-> t]}
          /\ UNCHANGED status
       \/ /\ Goto(t, "free")
          /\ status' = [status EXCEPT ![t] = "SEND_FAILED"]
          /\ UNCHANGED inflight
    /\ UNCHANGED <<want, got, slots, inUse, scan>>

\* Mutant: ind_has_arrived is not looked at before the wait.
WaitForIndBlind(t) ==
    /\ pc[t] = "wait"
    /\ slots' = [slots EXCEPT ![want[t].sel].waiting = TRUE]
    /\ Goto(t, "blocked")
    /\ UNCHANGED <<want, got, status, inUse, inflight, scan>>

\* loc_sync_wait_for_ind up to pthread_cond_timedwait, under the slot's lock.
WaitForInd(t) ==
    /\ pc[t] = "wait"
    /\ \/ /\ Slot(t).arrived
          /\ status' = [status EXCEPT ![t] = "SUCCESS"]
          /\ Goto(t, "free") /\ UNCHANGED slots
       \/ /\ ~ Slot(t).arrived /\ Slot(t).waiting
          /\ status' = [status EXCEPT ![t] = "INTERNAL"]
          /\ Goto(t, "free") /\ UNCHANGED slots
       \/ /\ ~ Slot(t).arrived /\ ~ Slot(t).waiting
          /\ slots' = [slots EXCEPT ![want[t].sel].waiting = TRUE]
          /\ Goto(t, "blocked") /\ UNCHANGED status
    /\ UNCHANGED <<want, got, inUse, inflight, scan>>

\* Mutant: pthread_cond_wait, without a timeout.
TimeoutNever(t) == pc[t] = "none" /\ UNCHANGED vars

\* The wait ends without a signal.  The thread does not hold the slot's lock
\* again yet, and ind_is_waiting is still set.
Timeout(t) ==
    /\ pc[t] = "blocked"
    /\ Goto(t, "timedout")
    /\ UNCHANGED <<want, got, status, slots, inUse, inflight, scan>>

SpuriousWakeup(t) ==
    /\ Spurious
    /\ pc[t] = "blocked"
    /\ Goto(t, "woken")
    /\ got' = [got EXCEPT ![t] = "spurious"]
    /\ UNCHANGED <<want, status, slots, inUse, inflight, scan>>

\* Mutant: ETIMEDOUT is not turned into an error.
EndWaitAnyway(t) ==
    /\ pc[t] \in {"woken", "timedout"}
    /\ slots' = [slots EXCEPT ![want[t].sel].waiting = FALSE]
    /\ status' = [status EXCEPT ![t] = "SUCCESS"]
    /\ Goto(t, "free")
    /\ UNCHANGED <<want, got, inUse, inflight, scan>>

\* pthread_cond_timedwait returns with the slot's lock: whatever did not time
\* out is a success.
EndWait(t) ==
    /\ pc[t] \in {"woken", "timedout"}
    /\ slots' = [slots EXCEPT ![want[t].sel].waiting = FALSE]
    /\ status' = [status EXCEPT ![t] =
                     IF pc[t] = "timedout" THEN "TIMEOUT" ELSE "SUCCESS"]
    /\ Goto(t, "free")
    /\ UNCHANGED <<want, got, inUse, inflight, scan>>

\* Mutant: the payload pointer is not reset.
FreeKeepsPointer(t) ==
    /\ pc[t] = "free" /\ CallMutexFree
    /\ slots' = [slots EXCEPT ![want[t].sel].use = FALSE]
    /\ inUse' = (\E s \in Slots : slots'[s].use)
    /\ want' = [want EXCEPT ![t] = NoCall]
    /\ Goto(t, "return")
    /\ UNCHANGED <<got, status, inflight, scan>>

\* loc_free_slot; the call's answer, if still under way, now belongs to nobody.
Free(t) ==
    /\ pc[t] = "free" /\ CallMutexFree
    /\ slots' = [slots EXCEPT ![want[t].sel] = FreeSlot]
    /\ inUse' = (\E s \in Slots : slots'[s].use)
    /\ inflight' = {IF i.by = t THEN [i EXCEPT !.by = Old] ELSE i : i \in inflight}
    /\ want' = [want EXCEPT ![t] = NoCall]
    /\ Goto(t, "return")
    /\ UNCHANGED <<got, status, scan>>

\* The caller has its status and drops the payload.
Return(t) ==
    /\ pc[t] = "return"
    /\ status' = [status EXCEPT ![t] = "SUCCESS"]
    /\ got' = [got EXCEPT ![t] = "nothing"]
    /\ Goto(t, "idle")
    /\ UNCHANGED <<want, slots, inUse, inflight, scan>>
---------------------------------------------------------------------------
(* loc_sync_process_ind, on the receiver thread.                           *)

\* The next indication; it is dropped when no call is active.
ProcessInd ==
    /\ CallMutexFree
    /\ \E i \in inflight :
          /\ inflight' = inflight \ {i}
          /\ scan' = IF inUse THEN [at |-> 1, seen |-> FALSE, ind |-> i] ELSE scan
    /\ UNCHANGED <<pc, want, got, status, slots, inUse>>

Matches(s) == slots[s].use /\ slots[s].id = scan.ind.id /\ ~ slots[s].arrived

\* The call behind slot s.
Owner(s) == CHOOSE t \in Threads : want[t].sel = s

\* Hand the indication to slot s: wake the thread, if it still sleeps, or
\* remember that the indication arrived.
Deliver(s) ==
    LET t == Owner(s) IN
    /\ got' = [got EXCEPT ![t] = IF scan.ind.by = t THEN "own" ELSE "foreign"]
    /\ \/ /\ slots[s].waiting
          /\ pc' = [pc EXCEPT ![t] = IF @ = "blocked" THEN "woken" ELSE @]
          /\ UNCHANGED slots
       \/ /\ ~ slots[s].waiting
          /\ slots' = [slots EXCEPT ![s].arrived = TRUE]
          /\ UNCHANGED pc

\* Mutants: the loop left by moving i to its end, where the for statement
\* increments it once more; "in_use =" for "in_use |=".
ScanSlotTwice ==
    /\ scan.at \in Slots
    /\ scan' = [scan EXCEPT
          !.at = (IF Matches(scan.at) THEN Size + 1 ELSE @) + 1, !.seen = TRUE]
    /\ UNCHANGED <<pc, want, got, status, slots, inUse, inflight>>
ScanSlotLast ==
    /\ scan.at \in Slots
    /\ scan' = [scan EXCEPT !.at = @ + 1, !.seen = slots[scan.at].use]
    /\ UNCHANGED <<pc, want, got, status, slots, inUse, inflight>>

\* One turn of the loop, under the lock of slot scan.at.  The loop ends when a
\* slot with a payload pointer took the indication.
ScanSlot ==
    LET s == scan.at IN
    /\ s \in Slots
    /\ \/ Matches(s) /\ Deliver(s)
       \/ ~ Matches(s) /\ UNCHANGED <<pc, got, slots>>
    /\ scan' = [scan EXCEPT
          !.at = IF Matches(s) /\ slots[s].buf # None THEN Size + 1 ELSE s + 1,
          !.seen = @ \/ slots[s].use]
    /\ UNCHANGED <<want, status, inUse, inflight>>

EndScan ==
    /\ scan.at = Size + 1
    /\ inUse' = (inUse /\ scan.seen)
    /\ scan' = Idle
    /\ UNCHANGED <<pc, want, got, status, slots, inflight>>
---------------------------------------------------------------------------
Local(t) == SelectInd(t) \/ SendReq(t) \/ WaitForInd(t) \/ EndWait(t)
            \/ Return(t)

Next ==
    \/ \E t \in Threads :
          \/ \E id \in Ids, buf \in BOOLEAN : Call(t, id, buf)
          \/ Local(t)
          \/ Timeout(t)
          \/ SpuriousWakeup(t)
          \/ Free(t)
    \/ ProcessInd
    \/ ScanSlot
    \/ EndScan

Spec == Init /\ [][Next]_vars

\* Threads run and time passes; the modem need not answer.  A thread that wants
\* loc_sync_call_mutex gets it although the receiver keeps taking it.
Fairness ==
    /\ \A t \in Threads :
          WF_vars(Local(t)) /\ WF_vars(Timeout(t)) /\ SF_vars(Free(t))
    /\ WF_vars(ScanSlot) /\ WF_vars(EndScan)

FairSpec == Spec /\ Fairness
---------------------------------------------------------------------------
(* Properties                                                              *)

\* loc_sync_process_ind copies into the caller's stack frame through
\* recv_ind_payload_ptr: a slot points into a call only while that call is
\* active and holds the slot, and no two calls hold one slot.
PayloadOwned ==
    /\ \A t \in Threads : want[t].sel # NoSlot <=> pc[t] \notin {"idle", "return"}
    /\ \A t, u \in Threads :
          want[t].sel # NoSlot /\ want[t].sel = want[u].sel => t = u
    /\ \A s \in Slots :
          /\ slots[s].use <=> \E t \in Threads : want[t].sel = s
          /\ \A t \in Threads : slots[s].buf = t => want[t].sel = s

\* The receiver drops an indication when in_use is FALSE: it is FALSE exactly
\* when no slot is taken, although three places maintain it.
InUseExact == inUse <=> \E s \in Slots : slots[s].use

\* No lost wake-up: a call whose indication was handed to it is not asleep.
NoWakeupLost == \A t \in Threads : pc[t] = "blocked" => got[t] = "nothing"

\* A call that returned success has received an indication with the ID it asked
\* for (or was woken by nobody).
SuccessMeansArrived ==
    \A t \in Threads :
        pc[t] = "return" /\ status[t] = "SUCCESS" => got[t] # "nothing"

\* Every call returns, whatever the modem and the other callers do.
CallReturns == \A t \in Threads : pc[t] # "idle" ~> pc[t] = "idle"
===========================================================================
