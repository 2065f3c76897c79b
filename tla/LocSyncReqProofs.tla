-------------------------- MODULE LocSyncReqProofs --------------------------
(***************************************************************************)
(* Proofs about LocSyncReq, for any threads, any number of slots and any   *)
(* indications.  Which call holds which slot (Holding) is an invariant on  *)
(* its own; from it follow the exactness of in_use and, with what a slot   *)
(* says about where its call is (Phase), that no wake-up is lost.          *)
(***************************************************************************)
EXTENDS LocSyncReq, FiniteSetTheorems, TLAPS

\* The slots the receiver has passed were free, or it has seen one in use.
Seen == scan.at # 0 => scan.seen \/ \A s \in Slots : s < scan.at => ~ slots[s].use

\* What its slot says about where a call is.  An indication that comes before
\* the wait is remembered; one that comes later wakes the thread.
Phase ==
    /\ scan.at # 0 => scan.ind \in Inds
    /\ \A t \in Threads : pc[t] = "idle" => got[t] = "nothing"
    /\ \A t \in Threads : pc[t] = "select" => got[t] = "nothing" /\ Slot(t).id = NoId
    /\ \A t \in Threads :
          pc[t] \in {"send", "wait"} /\ got[t] # "nothing" => Slot(t).arrived
    /\ \A t \in Threads :
          pc[t] \in {"select", "send", "wait", "blocked", "woken", "timedout", "free"}
             => (Slot(t).waiting <=> pc[t] \in {"blocked", "woken", "timedout"})
    /\ \A s \in Slots : ~ slots[s].use => slots[s] = FreeSlot

IInv == TypeOK /\ PayloadOwned /\ InUseExact /\ Seen /\ Phase /\ NoWakeupLost

LEMMA SlotFacts == Slots \subseteq Nat /\ NoSlot \notin Slots /\ Size + 1 \notin Slots
  BY SyncAssumption DEF Slots, NoSlot
---------------------------------------------------------------------------
(* Types.                                                                  *)

LEMMA InitType == ASSUME Init PROVE TypeOK
<1>1. FreeSlot \in Entries /\ NoCall \in Wants
  BY DEF FreeSlot, Entries, NoCall, Wants
<1>2. Idle \in [at : 0 .. Size + 1, seen : BOOLEAN, ind : Inds \cup {None}]
  BY SyncAssumption DEF Idle
<1>3. QED
  BY <1>1, <1>2 DEF Init, TypeOK, Pcs, Results

LEMMA HolderType ==
    ASSUME TypeOK, PayloadOwned, NEW t \in Threads, pc[t] \notin {"idle", "return"}
    PROVE  want[t].sel \in Slots /\ Slot(t) \in Entries /\ want[t].id \in Ids
  BY DEF TypeOK, PayloadOwned, Wants, NoCall, Slot

\* Assigning one member of a slot, or of what a call wants, keeps it typed.
LEMMA EntryType ==
    ASSUME NEW e \in Entries, NEW b \in BOOLEAN
    PROVE  /\ [e EXCEPT !.use = b] \in Entries
           /\ [e EXCEPT !.waiting = b] \in Entries
           /\ [e EXCEPT !.arrived = b] \in Entries
  BY DEF Entries

\* A taken slot has one owner.
LEMMA OwnerFact ==
    ASSUME PayloadOwned, NEW s \in Slots, slots[s].use
    PROVE  /\ Owner(s) \in Threads /\ want[Owner(s)].sel = s
           /\ \A t \in Threads : want[t].sel = s => t = Owner(s)
<1>1. \E t \in Threads : want[t].sel = s
  BY DEF PayloadOwned
<1>2. Owner(s) \in Threads /\ want[Owner(s)].sel = s
  BY <1>1 DEF Owner
<1>3. s # NoSlot
  BY SlotFacts
<1>4. QED
  BY <1>2, <1>3 DEF PayloadOwned

LEMMA ScanType ==
    ASSUME NEW S, NEW I, NEW r \in [at : S, seen : BOOLEAN, ind : I],
           NEW a \in S, NEW b \in BOOLEAN
    PROVE  [r EXCEPT !.at = a, !.seen = b] \in [at : S, seen : BOOLEAN, ind : I]
  OBVIOUS

LEMMA StepType == ASSUME TypeOK, PayloadOwned, [Next]_vars PROVE TypeOK'
<1> USE DEF TypeOK, Pcs, Results, Goto
<1>1. ASSUME NEW t \in Threads, NEW id \in Ids, NEW buf \in BOOLEAN, Call(t, id, buf)
      PROVE  TypeOK'
  <2>1. CASE AllocSlot(t, id, buf)
    <3>1. PICK s \in Slots :
             /\ slots' = [slots EXCEPT ![s] = [slots[s] EXCEPT !.use = TRUE]]
             /\ want' = [want EXCEPT ![t] = [id |-> id, buf |-> buf, sel |-> s]]
      BY <2>1 DEF AllocSlot
    <3>2. [id |-> id, buf |-> buf, sel |-> s] \in Wants
      BY DEF Wants
    <3>3. slots' \in [Slots -> Entries] /\ want' \in [Threads -> Wants]
      BY <3>1, <3>2, EntryType
    <3>4. QED
      BY <1>1, <2>1, <3>3 DEF Call, AllocSlot
  <2>2. CASE BufferFull(t)
    BY <1>1, <2>2 DEF Call, BufferFull
  <2>3. QED
    BY <1>1, <2>1, <2>2 DEF Call
<1>2. ASSUME NEW t \in Threads, SelectInd(t) PROVE TypeOK'
  <2>1. [use |-> TRUE, id |-> want[t].id,
         buf |-> IF want[t].buf THEN t ELSE None,
         waiting |-> FALSE, arrived |-> FALSE] \in Entries
    BY <1>2 DEF Entries, Wants, NoCall
  <2>2. QED
    BY <1>2, <2>1 DEF SelectInd
<1>3. ASSUME NEW t \in Threads, SendReq(t) PROVE TypeOK'
  <2>1. pc' \in [Threads -> Pcs] /\ status' \in [Threads -> Results]
    BY <1>3 DEF SendReq
  <2>2. inflight' \in SUBSET Inds
    <3>1. CASE inflight' = inflight \cup {[id |-> want[t].id, by |-> t]}
      <4>1. want[t].id \in Ids
        BY <1>3, HolderType DEF SendReq
      <4>2. QED
        BY <3>1, <4>1 DEF Inds
    <3>2. QED
      BY <1>3, <3>1 DEF SendReq
  <2>3. QED
    BY <1>3, <2>1, <2>2 DEF SendReq
<1>4. ASSUME NEW t \in Threads, WaitForInd(t) PROVE TypeOK'
  <2>1. want[t].sel \in Slots
    BY <1>4, HolderType DEF WaitForInd
  <2>2. [slots[want[t].sel] EXCEPT !.waiting = TRUE] \in Entries
    BY <2>1, EntryType
  <2>3. slots' \in [Slots -> Entries]
    BY <1>4, <2>2 DEF WaitForInd
  <2>4. QED
    BY <1>4, <2>3 DEF WaitForInd
<1>5. ASSUME NEW t \in Threads, EndWait(t) PROVE TypeOK'
  <2>1. want[t].sel \in Slots
    BY <1>5, HolderType DEF EndWait
  <2>2. [slots[want[t].sel] EXCEPT !.waiting = FALSE] \in Entries
    BY <2>1, EntryType
  <2>3. QED
    BY <1>5, <2>2 DEF EndWait
<1>6. ASSUME NEW t \in Threads, Timeout(t) \/ SpuriousWakeup(t) PROVE TypeOK'
  BY <1>6 DEF Timeout, SpuriousWakeup
<1>7. ASSUME NEW t \in Threads, Free(t) PROVE TypeOK'
  <2>1. FreeSlot \in Entries /\ NoCall \in Wants
    BY DEF FreeSlot, Entries, NoCall, Wants
  <2>2. inflight' \subseteq Inds
    BY <1>7 DEF Free, Inds
  <2>3. inUse' \in BOOLEAN
    BY <1>7 DEF Free
  <2>4. QED
    BY <1>7, <2>1, <2>2, <2>3 DEF Free
<1>8. ASSUME NEW t \in Threads, Return(t) PROVE TypeOK'
  BY <1>8 DEF Return
<1>9. ASSUME ProcessInd PROVE TypeOK'
  BY <1>9, SyncAssumption DEF ProcessInd
<1>10. ASSUME ScanSlot PROVE TypeOK'
  <2>1. ASSUME Deliver(scan.at), scan.at \in Slots, Matches(scan.at)
        PROVE  /\ slots' \in [Slots -> Entries]
               /\ pc' \in [Threads -> Pcs]
               /\ got' \in [Threads -> {"nothing", "own", "foreign", "spurious"}]
    <3>1. [slots[scan.at] EXCEPT !.arrived = TRUE] \in Entries
      BY <2>1, EntryType
    <3>2. slots' \in [Slots -> Entries]
      BY <2>1, <3>1 DEF Deliver
    <3>3. Owner(scan.at) \in Threads
      BY <2>1, OwnerFact DEF Matches
    <3>4. QED
      BY <2>1, <3>2, <3>3 DEF Deliver
  <2>2. scan' \in [at : 0 .. Size + 1, seen : BOOLEAN, ind : Inds \cup {None}]
    <3>1. scan.at + 1 \in 0 .. Size + 1 /\ Size + 1 \in 0 .. Size + 1
      BY <1>10, SyncAssumption DEF ScanSlot, Slots
    <3>2. slots[scan.at].use \in BOOLEAN
      BY <1>10 DEF ScanSlot, Entries
    <3>3. QED
      BY <1>10, <3>1, <3>2, ScanType DEF ScanSlot
  <2>3. QED
    BY <1>10, <2>1, <2>2 DEF ScanSlot
<1>11. ASSUME EndScan PROVE TypeOK'
  BY <1>11, SyncAssumption DEF EndScan, Idle
<1>12. CASE UNCHANGED vars
  BY <1>12 DEF vars
<1>13. QED
  BY <1>1, <1>2, <1>3, <1>4, <1>5, <1>6, <1>7, <1>8, <1>9, <1>10, <1>11, <1>12
     DEF Next, Local
---------------------------------------------------------------------------
(* Which call holds which slot.                                            *)

\* Slots and calls that a step leaves where they were.
LEMMA SameHolding ==
    ASSUME PayloadOwned, want' = want,
           \A t \in Threads : (pc'[t] \in {"idle", "return"}) <=> (pc[t] \in {"idle", "return"}),
           \A s \in Slots : slots'[s].use = slots[s].use /\ slots'[s].buf = slots[s].buf
    PROVE  PayloadOwned'
  BY DEF PayloadOwned

LEMMA AllocHolding ==
    ASSUME TypeOK, PayloadOwned, NEW t \in Threads, NEW id, NEW buf,
           pc[t] = "idle", AllocSlot(t, id, buf)
    PROVE  PayloadOwned'
<1>1. PICK s \in Slots :
         /\ ~ slots[s].use
         /\ slots' = [slots EXCEPT ![s] = [slots[s] EXCEPT !.use = TRUE]]
         /\ want' = [want EXCEPT ![t] = [id |-> id, buf |-> buf, sel |-> s]]
  BY DEF AllocSlot
<1>2. /\ \A u \in Threads : want'[u].sel = IF u = t THEN s ELSE want[u].sel
      /\ \A u \in Threads : pc'[u] = IF u = t THEN "select" ELSE pc[u]
  BY <1>1 DEF AllocSlot, Goto, TypeOK
<1>3. \A r \in Slots : /\ slots'[r].use <=> (r = s \/ slots[r].use)
                       /\ slots'[r].buf = slots[r].buf
  BY <1>1 DEF TypeOK, Entries
<1>4. s # NoSlot /\ want[t].sel = NoSlot
  BY SlotFacts DEF PayloadOwned
<1>5. \A u \in Threads : want[u].sel # s
  BY <1>1 DEF PayloadOwned
<1>6. \A r \in Slots : slots[r].buf # t
  <2>1. SUFFICES ASSUME NEW r \in Slots, slots[r].buf = t
                 PROVE  FALSE
    OBVIOUS
  <2>2. want[t].sel = r
    BY <2>1, Zenon DEF PayloadOwned
  <2>3. QED
    BY <1>4, <2>2, SlotFacts
<1>7. \A u \in Threads : want'[u].sel # NoSlot <=> pc'[u] \notin {"idle", "return"}
  BY <1>2, <1>4 DEF PayloadOwned
<1>8. ASSUME NEW u \in Threads, NEW v \in Threads,
             want'[u].sel # NoSlot, want'[u].sel = want'[v].sel
      PROVE  u = v
  BY <1>2, <1>5, <1>8 DEF PayloadOwned
<1>9. ASSUME NEW r \in Slots
      PROVE  slots'[r].use <=> \E u \in Threads : want'[u].sel = r
  <2>1. CASE r = s
    BY <1>2, <1>3, <2>1
  <2>2. CASE r # s
    <3>1. slots'[r].use <=> slots[r].use
      BY <1>3, <2>2
    <3>2. slots[r].use <=> \E u \in Threads : want[u].sel = r
      BY DEF PayloadOwned
    <3>3. \A u \in Threads : want'[u].sel = r <=> want[u].sel = r
      BY <1>2, <1>4, <2>2, SlotFacts
    <3>4. QED
      BY <3>1, <3>2, <3>3, Zenon
  <2>3. QED
    BY <2>1, <2>2
<1>10. \A r \in Slots, u \in Threads : slots'[r].buf = u => want'[u].sel = r
  BY <1>2, <1>3, <1>6 DEF PayloadOwned
<1>11. QED
  BY <1>7, <1>8, <1>9, <1>10 DEF PayloadOwned

LEMMA FreeHolding ==
    ASSUME TypeOK, PayloadOwned, NEW t \in Threads, Free(t)
    PROVE  PayloadOwned'
<1>1. want[t].sel \in Slots
  BY HolderType DEF Free
<1>2. /\ \A u \in Threads : want'[u].sel = IF u = t THEN NoSlot ELSE want[u].sel
      /\ \A u \in Threads : pc'[u] = IF u = t THEN "return" ELSE pc[u]
  BY DEF Free, Goto, TypeOK, NoCall
<1>3. \A r \in Slots :
         /\ slots'[r].use <=> (r # want[t].sel /\ slots[r].use)
         /\ slots'[r].buf = IF r = want[t].sel THEN None ELSE slots[r].buf
  BY DEF Free, FreeSlot, TypeOK, Entries
<1>4. NoSlot # want[t].sel /\ None \notin Threads
  BY <1>1, SlotFacts, SyncAssumption
<1>5. \A u \in Threads : want'[u].sel # NoSlot <=> pc'[u] \notin {"idle", "return"}
  BY <1>2 DEF PayloadOwned
<1>6. \A u, v \in Threads :
          want'[u].sel # NoSlot /\ want'[u].sel = want'[v].sel => u = v
  BY <1>2 DEF PayloadOwned
<1>7. ASSUME NEW r \in Slots
      PROVE  slots'[r].use <=> \E u \in Threads : want'[u].sel = r
  <2>1. CASE r = want[t].sel
    BY <1>1, <1>2, <1>3, <1>4, <2>1 DEF PayloadOwned
  <2>2. CASE r # want[t].sel
    <3>1. slots'[r].use <=> slots[r].use
      BY <1>3, <2>2
    <3>2. slots[r].use <=> \E u \in Threads : want[u].sel = r
      BY DEF PayloadOwned
    <3>3. \A u \in Threads : want'[u].sel = r <=> want[u].sel = r
      BY <1>2, <2>2, SlotFacts
    <3>4. QED
      BY <3>1, <3>2, <3>3, Zenon
  <2>3. QED
    BY <2>1, <2>2
<1>8. \A r \in Slots, u \in Threads : slots'[r].buf = u => want'[u].sel = r
  BY <1>2, <1>3, <1>4 DEF PayloadOwned
<1>9. QED
  BY <1>5, <1>6, <1>7, <1>8 DEF PayloadOwned

LEMMA StepHolding ==
    ASSUME TypeOK, PayloadOwned, [Next]_vars
    PROVE  PayloadOwned'
<1>1. ASSUME NEW t \in Threads, NEW id \in Ids, NEW buf \in BOOLEAN, Call(t, id, buf)
      PROVE  PayloadOwned'
  <2>1. CASE AllocSlot(t, id, buf)
    BY <1>1, <2>1, AllocHolding DEF Call
  <2>2. CASE BufferFull(t)
    BY <1>1, <2>2, SameHolding DEF Call, BufferFull, Goto, TypeOK
  <2>3. QED
    BY <1>1, <2>1, <2>2 DEF Call
<1>2. ASSUME NEW t \in Threads, SelectInd(t) PROVE PayloadOwned'
  <2>1. want[t].sel \in Slots /\ slots[want[t].sel].use
    BY <1>2, HolderType DEF SelectInd, PayloadOwned
  <2>2. \A r \in Slots :
          /\ slots'[r].use = slots[r].use
          /\ slots'[r].buf = IF r # want[t].sel THEN slots[r].buf
                             ELSE IF want[t].buf THEN t ELSE None
    BY <1>2, <2>1 DEF SelectInd, TypeOK, Entries
  <2>3. \A u \in Threads : (pc'[u] \in {"idle", "return"}) <=> (pc[u] \in {"idle", "return"})
    BY <1>2 DEF SelectInd, Goto, TypeOK
  <2>4. want' = want /\ None \notin Threads
    BY <1>2, SyncAssumption DEF SelectInd
  <2>5. QED
    BY <2>1, <2>2, <2>3, <2>4 DEF PayloadOwned
<1>3. ASSUME NEW t \in Threads,
             SendReq(t) \/ Timeout(t) \/ SpuriousWakeup(t) \/ Return(t)
      PROVE  PayloadOwned'
  BY <1>3, SameHolding DEF SendReq, Timeout, SpuriousWakeup, Return, Goto, TypeOK
<1>4. ASSUME NEW t \in Threads, WaitForInd(t) \/ EndWait(t) PROVE PayloadOwned'
  <2>1. \A s \in Slots : slots'[s].use = slots[s].use /\ slots'[s].buf = slots[s].buf
    BY <1>4 DEF WaitForInd, EndWait, TypeOK, Entries
  <2>2. \A u \in Threads : (pc'[u] \in {"idle", "return"}) <=> (pc[u] \in {"idle", "return"})
    BY <1>4 DEF WaitForInd, EndWait, Goto, TypeOK
  <2>3. QED
    BY <1>4, <2>1, <2>2, SameHolding DEF WaitForInd, EndWait
<1>5. ASSUME NEW t \in Threads, Free(t) PROVE PayloadOwned'
  BY <1>5, FreeHolding
<1>6. ASSUME ScanSlot PROVE PayloadOwned'
  <2>1. \A s \in Slots : slots'[s].use = slots[s].use /\ slots'[s].buf = slots[s].buf
    BY <1>6 DEF ScanSlot, Deliver, TypeOK, Entries
  <2>2. \A u \in Threads : (pc'[u] \in {"idle", "return"}) <=> (pc[u] \in {"idle", "return"})
    BY <1>6 DEF ScanSlot, Deliver, TypeOK
  <2>3. QED
    BY <1>6, <2>1, <2>2, SameHolding DEF ScanSlot
<1>7. CASE ProcessInd \/ EndScan \/ UNCHANGED vars
  BY <1>7, SameHolding DEF ProcessInd, EndScan, vars
<1>8. QED
  BY <1>1, <1>2, <1>3, <1>4, <1>5, <1>6, <1>7 DEF Next, Local
---------------------------------------------------------------------------
(* in_use.                                                                 *)

LEMMA StepInUse ==
    ASSUME TypeOK, PayloadOwned, InUseExact, Seen, [Next]_vars
    PROVE  InUseExact' /\ Seen'
<1>1. ASSUME inUse' = inUse, scan' = scan,
             \A s \in Slots : slots'[s].use <=> slots[s].use
      PROVE  InUseExact' /\ Seen'
  BY <1>1 DEF InUseExact, Seen
<1>2. ASSUME NEW t \in Threads, NEW id \in Ids, NEW buf \in BOOLEAN, Call(t, id, buf)
      PROVE  InUseExact' /\ Seen'
  <2>1. CASE AllocSlot(t, id, buf)
    <3>1. PICK s \in Slots : slots' = [slots EXCEPT ![s] = [slots[s] EXCEPT !.use = TRUE]]
      BY <2>1 DEF AllocSlot
    <3>2. slots'[s].use
      BY <3>1 DEF TypeOK, Entries
    <3>3. inUse' = TRUE /\ scan' = scan /\ scan.at = 0
      BY <1>2, <2>1 DEF Call, AllocSlot, CallMutexFree
    <3>4. QED
      BY <3>2, <3>3 DEF InUseExact, Seen
  <2>2. CASE BufferFull(t)
    BY <1>1, <1>2, <2>2 DEF Call, BufferFull
  <2>3. QED
    BY <1>2, <2>1, <2>2 DEF Call
<1>3. ASSUME NEW t \in Threads, SelectInd(t) PROVE InUseExact' /\ Seen'
  <2>1. want[t].sel \in Slots /\ slots[want[t].sel].use
    BY <1>3, HolderType DEF SelectInd, PayloadOwned
  <2>2. \A s \in Slots : slots'[s].use <=> slots[s].use
    BY <1>3, <2>1 DEF SelectInd, TypeOK, Entries
  <2>3. QED
    BY <1>1, <1>3, <2>2 DEF SelectInd
<1>4. ASSUME NEW t \in Threads,
             SendReq(t) \/ Timeout(t) \/ SpuriousWakeup(t) \/ Return(t)
      PROVE  InUseExact' /\ Seen'
  BY <1>1, <1>4 DEF SendReq, Timeout, SpuriousWakeup, Return
<1>5. ASSUME NEW t \in Threads, WaitForInd(t) \/ EndWait(t)
      PROVE  InUseExact' /\ Seen'
  <2>1. \A s \in Slots : slots'[s].use <=> slots[s].use
    BY <1>5 DEF WaitForInd, EndWait, TypeOK, Entries
  <2>2. QED
    BY <1>1, <1>5, <2>1 DEF WaitForInd, EndWait
<1>6. ASSUME NEW t \in Threads, Free(t) PROVE InUseExact' /\ Seen'
  BY <1>6 DEF Free, CallMutexFree, InUseExact, Seen
<1>7. ASSUME ProcessInd PROVE InUseExact' /\ Seen'
  <2>1. scan' = scan \/ scan'.at = 1
    BY <1>7 DEF ProcessInd
  <2>2. CASE scan' = scan
    BY <1>1, <1>7, <2>2 DEF ProcessInd
  <2>3. CASE scan'.at = 1
    BY <1>7, <2>3 DEF ProcessInd, InUseExact, Seen, Slots
  <2>4. QED
    BY <2>1, <2>2, <2>3
<1>8. ASSUME ScanSlot PROVE InUseExact' /\ Seen'
  <2>1. \A s \in Slots : slots'[s].use <=> slots[s].use
    BY <1>8 DEF ScanSlot, Deliver, TypeOK, Entries
  <2>2. InUseExact'
    BY <1>8, <2>1 DEF ScanSlot, InUseExact
  <2>3. scan.at \in Slots /\ scan.at \in Nat /\ scan.at # 0
    BY <1>8, SlotFacts DEF ScanSlot, NoSlot
  <2>4. scan'.seen <=> (scan.seen \/ slots[scan.at].use)
    BY <1>8, <2>3 DEF ScanSlot, TypeOK, Entries
  <2>5. scan'.at = scan.at + 1 \/ slots[scan.at].use
    BY <1>8 DEF ScanSlot, Matches, TypeOK
  <2>6. CASE slots[scan.at].use
    BY <2>2, <2>4, <2>6 DEF Seen
  <2>7. CASE ~ slots[scan.at].use
    BY <2>1, <2>2, <2>3, <2>4, <2>5, <2>7, SlotFacts DEF Seen
  <2>8. QED
    BY <2>2, <2>6, <2>7
<1>9. ASSUME EndScan PROVE InUseExact' /\ Seen'
  <2>1. scan.at # 0 /\ \A s \in Slots : s < scan.at
    BY <1>9, SyncAssumption DEF EndScan, Slots
  <2>2. inUse' <=> inUse /\ scan.seen
    BY <1>9 DEF EndScan, TypeOK
  <2>3. InUseExact'
    BY <1>9, <2>1, <2>2 DEF EndScan, InUseExact, Seen
  <2>4. QED
    BY <1>9, <2>3 DEF EndScan, Idle, Seen
<1>10. CASE UNCHANGED vars
  BY <1>1, <1>10 DEF vars
<1>11. QED
  BY <1>2, <1>3, <1>4, <1>5, <1>6, <1>7, <1>8, <1>9, <1>10 DEF Next, Local
---------------------------------------------------------------------------
(* No lost wake-up.                                                        *)

\* A step of thread t that leaves every other call, and its slot, alone.
LEMMA LocalPhase ==
    ASSUME TypeOK, PayloadOwned, Phase, NoWakeupLost, NEW t \in Threads,
           want' = want, scan'.at # 0 => scan'.ind \in Inds,
           \A u \in Threads : u # t => pc'[u] = pc[u] /\ got'[u] = got[u],
           \A s \in Slots : s # want[t].sel => slots'[s] = slots[s],
           \A s \in Slots : slots'[s].use <=> slots[s].use,
           pc'[t] = "idle" => got'[t] = "nothing",
           pc'[t] # "select" /\ pc[t] # "idle",
           pc'[t] = "blocked" => got'[t] = "nothing",
           pc[t] # "return" =>
              /\ pc'[t] \in {"send", "wait"} /\ got'[t] # "nothing" => Slot(t)'.arrived
              /\ Slot(t)'.waiting <=> pc'[t] \in {"blocked", "woken", "timedout"},
           pc[t] = "return" => pc'[t] = "idle"
    PROVE  Phase' /\ NoWakeupLost'
<1>1. ASSUME NEW u \in Threads, u # t, pc[u] \notin {"idle", "return"}
      PROVE  Slot(u)' = Slot(u)
  <2>1. want[u].sel \in Slots /\ want[u].sel # want[t].sel
    BY <1>1, HolderType, SlotFacts DEF PayloadOwned
  <2>2. QED
    BY <2>1 DEF Slot
<1>2. ASSUME NEW s \in Slots, ~ slots'[s].use PROVE slots'[s] = FreeSlot
  <2>1. ~ slots[s].use /\ slots[s] = FreeSlot
    BY <1>2 DEF Phase
  <2>2. s # want[t].sel
    BY <2>1 DEF PayloadOwned
  <2>3. QED
    BY <2>1, <2>2
<1>3. ASSUME NEW u \in Threads, u # t
      PROVE  /\ pc'[u] = "select" => got'[u] = "nothing" /\ Slot(u)'.id = NoId
             /\ pc'[u] \in {"send", "wait"} /\ got'[u] # "nothing" => Slot(u)'.arrived
             /\ pc'[u] \in {"select", "send", "wait", "blocked", "woken", "timedout", "free"}
                  => (Slot(u)'.waiting <=> pc'[u] \in {"blocked", "woken", "timedout"})
             /\ pc'[u] = "idle" => got'[u] = "nothing"
             /\ pc'[u] = "blocked" => got'[u] = "nothing"
  BY <1>1, <1>3 DEF Phase, NoWakeupLost
<1>4. QED
  BY <1>2, <1>3 DEF Phase, NoWakeupLost

LEMMA SamePhase ==
    ASSUME Phase, NoWakeupLost, UNCHANGED <<pc, want, got, slots>>,
           scan'.at # 0 => scan'.ind \in Inds
    PROVE  Phase' /\ NoWakeupLost'
  BY DEF Phase, NoWakeupLost, Slot

LEMMA CallPhase ==
    ASSUME TypeOK, PayloadOwned, Phase, NoWakeupLost,
           NEW t \in Threads, NEW id \in Ids, NEW buf \in BOOLEAN, Call(t, id, buf)
    PROVE  Phase' /\ NoWakeupLost'
<1>1. got' = got /\ scan' = scan /\ got[t] = "nothing" /\ pc[t] = "idle"
  BY DEF Call, Phase
<1>2. CASE AllocSlot(t, id, buf)
  <2>1. PICK s \in Slots :
           /\ ~ slots[s].use
           /\ slots' = [slots EXCEPT ![s] = [slots[s] EXCEPT !.use = TRUE]]
           /\ want' = [want EXCEPT ![t] = [id |-> id, buf |-> buf, sel |-> s]]
    BY <1>2 DEF AllocSlot
  <2>2. slots[s] = FreeSlot
    BY <2>1 DEF Phase
  <2>3. /\ \A u \in Threads : pc'[u] = IF u = t THEN "select" ELSE pc[u]
        /\ \A u \in Threads : u # t => want'[u] = want[u]
        /\ \A r \in Slots : r # s => slots'[r] = slots[r]
    BY <1>2, <2>1 DEF AllocSlot, Goto, TypeOK
  <2>4. slots'[s].use /\ slots'[s].id = NoId /\ ~ slots'[s].waiting /\ want'[t].sel = s
    BY <2>1, <2>2 DEF FreeSlot, TypeOK
  <2>5. ASSUME NEW u \in Threads, u # t, pc[u] \notin {"idle", "return"}
        PROVE  Slot(u)' = Slot(u)
    <3>1. want[u].sel \in Slots /\ want[u].sel # s
      BY <2>1, <2>5, HolderType DEF PayloadOwned
    <3>2. QED
      BY <2>3, <2>5, <3>1 DEF Slot
  <2>6. \A u \in Threads : pc'[u] = "select" => got'[u] = "nothing" /\ Slot(u)'.id = NoId
    BY <1>1, <2>3, <2>4, <2>5 DEF Phase, Slot
  <2>7. \A u \in Threads :
          pc'[u] \in {"send", "wait"} /\ got'[u] # "nothing" => Slot(u)'.arrived
    BY <1>1, <2>3, <2>5 DEF Phase
  <2>8. \A u \in Threads :
          pc'[u] \in {"select", "send", "wait", "blocked", "woken", "timedout", "free"}
             => (Slot(u)'.waiting <=> pc'[u] \in {"blocked", "woken", "timedout"})
    <3>1. ~ Slot(t)'.waiting /\ pc'[t] = "select"
      BY <2>3, <2>4 DEF Slot
    <3>2. QED
      BY <2>3, <2>5, <3>1 DEF Phase
  <2>9. \A r \in Slots : ~ slots'[r].use => slots'[r] = FreeSlot
    BY <2>3, <2>4 DEF Phase
  <2>10. \A u \in Threads : /\ pc'[u] = "idle" => got'[u] = "nothing"
                            /\ pc'[u] = "blocked" => got'[u] = "nothing"
    BY <1>1, <2>3 DEF Phase, NoWakeupLost
  <2>11. scan'.at # 0 => scan'.ind \in Inds
    BY <1>1 DEF Phase
  <2>12. QED
    BY <2>6, <2>7, <2>8, <2>9, <2>10, <2>11 DEF Phase, NoWakeupLost
<1>3. CASE BufferFull(t)
  <2>1. want' = want /\ slots' = slots /\ \A u \in Threads : pc'[u] = IF u = t THEN "return" ELSE pc[u]
    BY <1>3 DEF BufferFull, Goto, TypeOK
  <2>2. \A u \in Threads : Slot(u)' = Slot(u)
    BY <2>1 DEF Slot
  <2>3. QED
    BY <1>1, <2>1, <2>2 DEF Phase, NoWakeupLost
<1>4. QED
  BY <1>2, <1>3 DEF Call

LEMMA FreePhase ==
    ASSUME TypeOK, PayloadOwned, Phase, NoWakeupLost, NEW t \in Threads, Free(t)
    PROVE  Phase' /\ NoWakeupLost'
<1>1. want[t].sel \in Slots
  BY HolderType DEF Free
<1>2. /\ \A u \in Threads : pc'[u] = IF u = t THEN "return" ELSE pc[u]
      /\ \A u \in Threads : u # t => want'[u] = want[u]
      /\ \A r \in Slots : slots'[r] = IF r = want[t].sel THEN FreeSlot ELSE slots[r]
      /\ got' = got /\ scan' = scan
  BY DEF Free, Goto, TypeOK
<1>3. ASSUME NEW u \in Threads, u # t, pc[u] \notin {"idle", "return"}
      PROVE  Slot(u)' = Slot(u)
  <2>1. want[u].sel \in Slots /\ want[u].sel # want[t].sel
    BY <1>3, HolderType, SlotFacts DEF PayloadOwned
  <2>2. QED
    BY <1>2, <1>3, <2>1 DEF Slot
<1>4. QED
  BY <1>2, <1>3 DEF Phase, NoWakeupLost

LEMMA ScanPhase ==
    ASSUME TypeOK, PayloadOwned, Phase, NoWakeupLost, ScanSlot
    PROVE  Phase' /\ NoWakeupLost'
<1> DEFINE s == scan.at
<1>1. s \in Slots /\ s # 0 /\ want' = want /\ scan.ind \in Inds /\ scan'.ind = scan.ind
  BY SlotFacts DEF ScanSlot, NoSlot, Phase, TypeOK
<1>2. CASE ~ Matches(s)
  BY <1>1, <1>2, SamePhase DEF ScanSlot
<1>3. CASE Matches(s)
  <2>0. PICK t \in Threads : t = Owner(s) /\ want[t].sel = s
    BY <1>1, <1>3, OwnerFact DEF Matches
  <2>1. Deliver(s) /\ t = Owner(s) /\ want[t].sel = s
    BY <1>3, <2>0 DEF ScanSlot
  <2>2. pc[t] \notin {"idle", "return"} /\ Slot(t) = slots[s] /\ pc[t] \in Pcs
    BY <1>1, <2>1, SlotFacts DEF PayloadOwned, Slot, TypeOK
  \* Between alloc and select the slot matches nothing.
  <2>3. pc[t] # "select"
    BY <1>1, <1>3, <2>1, <2>2, SyncAssumption DEF Matches, Phase, Inds
  <2>4. \A u \in Threads : u # t => pc'[u] = pc[u] /\ got'[u] = got[u]
    BY <2>1 DEF Deliver, TypeOK
  <2>5. /\ \A r \in Slots : r # s => slots'[r] = slots[r]
        /\ \A r \in Slots : slots'[r].use <=> slots[r].use
    BY <2>1 DEF Deliver, TypeOK, Entries
  <2>6. CASE slots[s].waiting
    <3>1. slots' = slots /\ pc'[t] = IF pc[t] = "blocked" THEN "woken" ELSE pc[t]
      BY <2>1, <2>6 DEF Deliver, TypeOK
    <3>2. pc[t] \in {"blocked", "woken", "timedout"}
      BY <2>1, <2>2, <2>3, <2>6 DEF Phase, Pcs
    <3>3. Slot(t)'.waiting
      BY <1>1, <2>2, <2>6, <3>1 DEF Slot
    <3>4. QED
      BY <1>1, <2>1, <2>2, <2>4, <2>5, <3>1, <3>2, <3>3, LocalPhase
  <2>7. CASE ~ slots[s].waiting
    <3>1. pc' = pc /\ slots' = [slots EXCEPT ![s] = [slots[s] EXCEPT !.arrived = TRUE]]
      BY <2>1, <2>7 DEF Deliver
    <3>2. pc[t] \in {"send", "wait", "free"}
      BY <2>1, <2>2, <2>3, <2>7 DEF Phase, Pcs
    <3>3. Slot(t)'.arrived /\ ~ Slot(t)'.waiting
      BY <1>1, <2>1, <2>7, <3>1 DEF Slot, TypeOK, Entries
    <3>4. QED
      BY <1>1, <2>1, <2>2, <2>4, <2>5, <3>1, <3>2, <3>3, LocalPhase
  <2>8. QED
    BY <2>6, <2>7
<1>4. QED
  BY <1>2, <1>3

LEMMA StepPhase ==
    ASSUME TypeOK, PayloadOwned, Phase, NoWakeupLost, [Next]_vars
    PROVE  Phase' /\ NoWakeupLost'
<1>1. ASSUME NEW t \in Threads, SelectInd(t) PROVE Phase' /\ NoWakeupLost'
  <2>1. want[t].sel \in Slots /\ slots[want[t].sel].use /\ got[t] = "nothing"
    BY <1>1, HolderType DEF SelectInd, PayloadOwned, Phase
  <2>2. /\ \A s \in Slots : slots'[s].use <=> slots[s].use
        /\ \A s \in Slots : s # want[t].sel => slots'[s] = slots[s]
        /\ ~ Slot(t)'.waiting
    BY <1>1, <2>1 DEF SelectInd, TypeOK, Entries, Slot
  <2>3. /\ pc[t] = "select" /\ pc'[t] = "send" /\ got' = got /\ want' = want
        /\ scan' = scan /\ \A u \in Threads : u # t => pc'[u] = pc[u]
    BY <1>1 DEF SelectInd, Goto, TypeOK
  <2>4. scan'.at # 0 => scan'.ind \in Inds
    BY <2>3 DEF Phase
  <2>5. QED
    BY <2>1, <2>2, <2>3, <2>4, LocalPhase
<1>2. ASSUME NEW t \in Threads,
             SendReq(t) \/ Timeout(t) \/ SpuriousWakeup(t) \/ Return(t)
      PROVE  Phase' /\ NoWakeupLost'
  <2>1. /\ slots' = slots /\ want' = want /\ scan' = scan
        /\ \A u \in Threads : u # t => pc'[u] = pc[u] /\ got'[u] = got[u]
    BY <1>2 DEF SendReq, Timeout, SpuriousWakeup, Return, Goto, TypeOK
  <2>2. scan'.at # 0 => scan'.ind \in Inds
    BY <2>1 DEF Phase
  <2>3. \/ pc[t] = "send" /\ pc'[t] \in {"wait", "free"} /\ got' = got
        \/ pc[t] = "blocked" /\ pc'[t] \in {"timedout", "woken"}
        \/ pc[t] = "return" /\ pc'[t] = "idle" /\ got'[t] = "nothing"
    BY <1>2 DEF SendReq, Timeout, SpuriousWakeup, Return, Goto, TypeOK
  <2>4. Slot(t)' = Slot(t)
    BY <2>1 DEF Slot
  <2>5. QED
    BY <2>1, <2>2, <2>3, <2>4, LocalPhase DEF Phase
<1>3. ASSUME NEW t \in Threads, WaitForInd(t) \/ EndWait(t)
      PROVE  Phase' /\ NoWakeupLost'
  <2>1. want[t].sel \in Slots /\ slots[want[t].sel].use
    BY <1>3, HolderType DEF WaitForInd, EndWait, PayloadOwned
  <2>2. /\ \A s \in Slots : slots'[s].use <=> slots[s].use
        /\ \A s \in Slots : s # want[t].sel => slots'[s] = slots[s]
    BY <1>3, <2>1 DEF WaitForInd, EndWait, TypeOK, Entries
  <2>3. /\ want' = want /\ scan' = scan /\ got' = got
        /\ \A u \in Threads : u # t => pc'[u] = pc[u]
    BY <1>3 DEF WaitForInd, EndWait, Goto, TypeOK
  <2>4. scan'.at # 0 => scan'.ind \in Inds
    BY <2>3 DEF Phase
  <2>5. CASE WaitForInd(t)
    <3>1. ~ Slot(t).waiting /\ pc[t] = "wait"
      BY <2>5 DEF WaitForInd, Phase
    <3>2. \/ pc'[t] = "free" /\ Slot(t)' = Slot(t)
          \/ pc'[t] = "blocked" /\ Slot(t)'.waiting /\ got[t] = "nothing"
      BY <2>1, <2>3, <2>5, <3>1 DEF WaitForInd, Goto, Slot, TypeOK, Entries, Phase
    <3>3. QED
      BY <2>2, <2>3, <2>4, <3>1, <3>2, LocalPhase
  <2>6. CASE EndWait(t)
    <3>1. ~ Slot(t)'.waiting /\ pc'[t] = "free" /\ pc[t] \in {"woken", "timedout"}
      BY <2>1, <2>3, <2>6 DEF EndWait, Goto, Slot, TypeOK, Entries
    <3>2. QED
      BY <2>2, <2>3, <2>4, <3>1, LocalPhase
  <2>7. QED
    BY <1>3, <2>5, <2>6
<1>4. ASSUME ProcessInd PROVE Phase' /\ NoWakeupLost'
  BY <1>4, SamePhase DEF ProcessInd, TypeOK, Phase
<1>5. ASSUME EndScan PROVE Phase' /\ NoWakeupLost'
  BY <1>5, SamePhase DEF EndScan, Idle
<1>6. CASE UNCHANGED vars
  BY <1>6, SamePhase DEF vars, Phase
<1>7. QED
  BY <1>1, <1>2, <1>3, <1>4, <1>5, <1>6, CallPhase, FreePhase, ScanPhase
     DEF Next, Local
---------------------------------------------------------------------------
\* IInv is inductive.
THEOREM Inductive == Spec => []IInv
<1>1. Init => IInv
  <2>1. ASSUME Init PROVE TypeOK
    BY <2>1, InitType
  <2>2. ASSUME Init PROVE PayloadOwned
    BY <2>2, SlotFacts, SyncAssumption DEF Init, PayloadOwned, NoCall, FreeSlot
  <2>3. ASSUME Init PROVE InUseExact /\ Seen /\ Phase /\ NoWakeupLost
    BY <2>3 DEF Init, InUseExact, Seen, Phase, NoWakeupLost, FreeSlot, Idle
  <2>4. QED
    BY <2>1, <2>2, <2>3 DEF IInv
<1>2. IInv /\ [Next]_vars => IInv'
  BY StepType, StepHolding, StepInUse, StepPhase DEF IInv
<1>3. QED
  BY <1>1, <1>2, PTL DEF Spec

\* No indication is ever copied into a frame that is gone: a slot points into a
\* call only while that call holds it, and a slot serves one call.
THEOREM PayloadSafe == Spec => []PayloadOwned
<1>1. IInv => PayloadOwned
  BY DEF IInv
<1>2. QED
  BY <1>1, Inductive, PTL

\* in_use tells the receiver the truth about the slots.
THEOREM InUseCorrect == Spec => []InUseExact
<1>1. IInv => InUseExact
  BY DEF IInv
<1>2. QED
  BY <1>1, Inductive, PTL

\* A call is not asleep once its indication was handed to it, whichever of the
\* wait and the indication came first.
THEOREM WakeupKept == Spec => []NoWakeupLost
<1>1. IInv => NoWakeupLost
  BY DEF IInv
<1>2. QED
  BY <1>1, Inductive, PTL

\* Every variable keeps its type through every section.
THEOREM TypeCorrect == Spec => []TypeOK
<1>1. IInv => TypeOK
  BY DEF IInv
<1>2. QED
  BY <1>1, Inductive, PTL
---------------------------------------------------------------------------
(* With a slot for every caller, success means an indication.              *)

EnoughSlots == IsFiniteSet(Threads) /\ Cardinality(Threads) <= Size

\* What a call has got, by where it is.
Arrival ==
    /\ \A t \in Threads : pc[t] = "woken" => got[t] # "nothing"
    /\ \A t \in Threads :
          pc[t] \in {"free", "return"} /\ status[t] = "SUCCESS" => got[t] # "nothing"
    /\ \A t \in Threads : want[t].sel # NoSlot /\ Slot(t).arrived => got[t] # "nothing"

\* The slots cannot all be taken while a caller holds none of them.
LEMMA SlotLeft ==
    ASSUME EnoughSlots, TypeOK, PayloadOwned, NEW t \in Threads, pc[t] = "idle"
    PROVE  \E s \in Slots : ~ slots[s].use
<1>1. SUFFICES ASSUME \A s \in Slots : slots[s].use PROVE FALSE
  OBVIOUS
<1> DEFINE Others == Threads \ {t}
           f == [s \in Slots |-> Owner(s)]
<1>2. \A s \in Slots : Owner(s) \in Threads /\ want[Owner(s)].sel = s
  BY <1>1, OwnerFact
<1>3. want[t].sel = NoSlot
  BY DEF PayloadOwned
<1>4. f \in Injection(Slots, Others)
  <2>1. \A s \in Slots : Owner(s) # t
    BY <1>2, <1>3, SlotFacts
  <2>2. f \in [Slots -> Others]
    BY <1>2, <2>1
  <2>3. \A r, s \in Slots : f[r] = f[s] => r = s
    BY <1>2
  <2>4. QED
    BY <2>2, <2>3 DEF Injection, IsInjective
<1>5. IsFiniteSet(Others) /\ Cardinality(Others) = Cardinality(Threads) - 1
  BY FS_RemoveElement DEF EnoughSlots
<1>6. Cardinality(Slots) <= Cardinality(Others)
  BY <1>4, <1>5, FS_Injection
<1>7. Cardinality(Slots) = Size
  BY FS_Interval, SyncAssumption DEF Slots
<1>8. Cardinality(Threads) \in Nat /\ Size \in Nat
  BY FS_CardinalityType, SyncAssumption DEF EnoughSlots
<1>9. QED
  BY <1>5, <1>6, <1>7, <1>8 DEF EnoughSlots

\* A step of thread t that leaves every other call, and its slot, alone.
LEMMA LocalArrival ==
    ASSUME TypeOK, PayloadOwned, Arrival, NEW t \in Threads,
           \A u \in Threads : u # t =>
              /\ pc'[u] = pc[u] /\ got'[u] = got[u] /\ status'[u] = status[u]
              /\ want'[u] = want[u],
           want'[t] = want[t] \/ want'[t].sel = NoSlot \/ ~ slots[want'[t].sel].use,
           \A s \in Slots : s # want[t].sel /\ slots[s].use => slots'[s] = slots[s],
           pc'[t] = "woken" => got'[t] # "nothing",
           pc'[t] \in {"free", "return"} /\ status'[t] = "SUCCESS" => got'[t] # "nothing",
           want'[t].sel # NoSlot /\ Slot(t)'.arrived => got'[t] # "nothing"
    PROVE  Arrival'
<1>1. ASSUME NEW u \in Threads, u # t, want[u].sel # NoSlot
      PROVE  Slot(u)' = Slot(u)
  <2>1. want[u].sel \in Slots /\ want[u].sel # want[t].sel /\ slots[want[u].sel].use
    BY <1>1, HolderType DEF PayloadOwned
  <2>2. want'[u] = want[u]
    BY <1>1
  <2>3. QED
    BY <2>1, <2>2 DEF Slot
<1>2. ASSUME NEW u \in Threads, u # t
      PROVE  /\ pc'[u] = "woken" => got'[u] # "nothing"
             /\ pc'[u] \in {"free", "return"} /\ status'[u] = "SUCCESS" => got'[u] # "nothing"
             /\ want'[u].sel # NoSlot /\ Slot(u)'.arrived => got'[u] # "nothing"
  BY <1>1, <1>2 DEF Arrival
<1>3. QED
  BY <1>2 DEF Arrival

LEMMA StepArrival ==
    ASSUME EnoughSlots, IInv, Arrival, [Next]_vars
    PROVE  Arrival'
<1> USE DEF IInv
<1>1. ASSUME NEW t \in Threads, NEW id \in Ids, NEW buf \in BOOLEAN, Call(t, id, buf)
      PROVE  Arrival'
  <2>1. AllocSlot(t, id, buf) /\ got' = got /\ pc[t] = "idle"
    BY <1>1, SlotLeft DEF Call, BufferFull
  <2>2. PICK s \in Slots :
           /\ ~ slots[s].use
           /\ slots' = [slots EXCEPT ![s] = [slots[s] EXCEPT !.use = TRUE]]
           /\ want' = [want EXCEPT ![t] = [id |-> id, buf |-> buf, sel |-> s]]
    BY <2>1 DEF AllocSlot
  <2>3. slots[s] = FreeSlot /\ ~ slots'[s].arrived
    BY <2>2 DEF Phase, FreeSlot, TypeOK
  <2>4. /\ pc'[t] = "select" /\ want'[t].sel = s
        /\ \A u \in Threads : u # t =>
              /\ pc'[u] = pc[u] /\ got'[u] = got[u] /\ status'[u] = status[u]
              /\ want'[u] = want[u]
    BY <2>1, <2>2 DEF AllocSlot, Goto, TypeOK
  <2>5. ~ Slot(t)'.arrived
    BY <2>3, <2>4 DEF Slot
  <2>6. \A r \in Slots : slots[r].use => slots'[r] = slots[r]
    BY <2>2 DEF TypeOK
  <2>7. QED
    BY <2>2, <2>4, <2>5, <2>6, LocalArrival
<1>2. ASSUME NEW t \in Threads, SelectInd(t) PROVE Arrival'
  <2>1. want[t].sel \in Slots
    BY <1>2, HolderType DEF SelectInd
  <2>2. /\ pc'[t] = "send" /\ want' = want
        /\ \A u \in Threads : u # t => pc'[u] = pc[u] /\ got'[u] = got[u] /\ status'[u] = status[u]
        /\ \A s \in Slots : s # want[t].sel => slots'[s] = slots[s]
        /\ ~ Slot(t)'.arrived
    BY <1>2, <2>1 DEF SelectInd, Goto, Slot, TypeOK
  <2>3. QED
    BY <2>2, LocalArrival
<1>3. ASSUME NEW t \in Threads,
             SendReq(t) \/ Timeout(t) \/ SpuriousWakeup(t) \/ Return(t)
      PROVE  Arrival'
  <2>1. /\ slots' = slots /\ want' = want
        /\ \A u \in Threads : u # t => pc'[u] = pc[u] /\ got'[u] = got[u] /\ status'[u] = status[u]
    BY <1>3 DEF SendReq, Timeout, SpuriousWakeup, Return, Goto, TypeOK
  <2>2. \/ /\ got' = got
           /\ \/ pc'[t] \in {"wait", "timedout"}
              \/ pc'[t] = "free" /\ status'[t] = "SEND_FAILED"
        \/ pc'[t] = "woken" /\ got'[t] = "spurious"
        \/ pc'[t] = "idle" /\ want[t].sel = NoSlot
    BY <1>3 DEF SendReq, Timeout, SpuriousWakeup, Return, Goto, TypeOK, PayloadOwned
  <2>3. Slot(t)' = Slot(t)
    BY <2>1 DEF Slot
  <2>4. QED
    BY <2>1, <2>2, <2>3, LocalArrival DEF Arrival
<1>4. ASSUME NEW t \in Threads, WaitForInd(t) \/ EndWait(t) PROVE Arrival'
  <2>1. want[t].sel \in Slots /\ want[t].sel # NoSlot
    BY <1>4, HolderType, SlotFacts DEF WaitForInd, EndWait
  <2>2. /\ want' = want /\ got' = got
        /\ \A u \in Threads : u # t => pc'[u] = pc[u] /\ status'[u] = status[u]
        /\ \A s \in Slots : s # want[t].sel => slots'[s] = slots[s]
    BY <1>4 DEF WaitForInd, EndWait, Goto, TypeOK
  <2>3. /\ pc'[t] \in {"free", "blocked"}
        /\ pc'[t] = "free" /\ status'[t] = "SUCCESS" =>
              Slot(t).arrived \/ pc[t] = "woken"
    BY <1>4 DEF WaitForInd, EndWait, Goto, TypeOK
  <2>4. Slot(t)'.arrived = Slot(t).arrived
    BY <1>4, <2>1, <2>2 DEF WaitForInd, EndWait, Slot, TypeOK, Entries
  <2>5. QED
    BY <2>1, <2>2, <2>3, <2>4, LocalArrival DEF Arrival
<1>5. ASSUME NEW t \in Threads, Free(t) PROVE Arrival'
  <2>1. /\ pc[t] = "free" /\ pc'[t] = "return" /\ want'[t].sel = NoSlot /\ got' = got
        /\ status' = status
        /\ \A u \in Threads : u # t => pc'[u] = pc[u] /\ want'[u] = want[u]
        /\ \A s \in Slots : s # want[t].sel => slots'[s] = slots[s]
    BY <1>5 DEF Free, Goto, TypeOK, NoCall
  <2>2. QED
    BY <2>1, LocalArrival DEF Arrival
<1>6. CASE ScanSlot
  <2> DEFINE s == scan.at
  <2>1. s \in Slots /\ want' = want /\ status' = status
    BY <1>6 DEF ScanSlot
  <2>2. CASE ~ Matches(s)
    BY <1>6, <2>1, <2>2 DEF ScanSlot, Arrival, Slot
  <2>3. CASE Matches(s)
    <3>1. PICK t \in Threads : t = Owner(s) /\ want[t].sel = s
      BY <2>1, <2>3, OwnerFact DEF Matches
    <3>2. Deliver(s)
      BY <1>6, <2>3 DEF ScanSlot
    <3>3. /\ got'[t] # "nothing"
          /\ \A u \in Threads : u # t => pc'[u] = pc[u] /\ got'[u] = got[u]
          /\ \A r \in Slots : r # s => slots'[r] = slots[r]
      BY <3>1, <3>2 DEF Deliver, TypeOK
    <3>4. QED
      BY <2>1, <3>1, <3>3, LocalArrival
  <2>4. QED
    BY <2>2, <2>3
<1>7. CASE ProcessInd \/ EndScan
  BY <1>7 DEF ProcessInd, EndScan, Arrival, Slot
<1>8. CASE UNCHANGED vars
  BY <1>8 DEF vars, Arrival, Slot
<1>9. QED
  BY <1>1, <1>2, <1>3, <1>4, <1>5, <1>6, <1>7, <1>8 DEF Next, Local

\* A call that returned success has been handed an indication, in every system that
\* has a slot for each of its callers: without BufferFull, no success is an accident.
THEOREM SuccessArrives == ASSUME EnoughSlots PROVE Spec => []SuccessMeansArrived
<1>1. Init => Arrival
  BY DEF Init, Arrival, NoCall
<1>2. IInv /\ Arrival /\ [Next]_vars => Arrival'
  BY StepArrival
<1>3. Arrival => SuccessMeansArrived
  BY DEF Arrival, SuccessMeansArrived
<1>4. QED
  BY <1>1, <1>2, <1>3, Inductive, PTL DEF Spec
===========================================================================
