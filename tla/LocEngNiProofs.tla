--------------------------- MODULE LocEngNiProofs ---------------------------
(***************************************************************************)
(* Proofs about LocEngNi, for any number of requests, any answers and any  *)
(* number of engine restarts: a request always has its own thread until it *)
(* is closed, so nothing is sent twice and no answer stays unnoticed.      *)
(***************************************************************************)
EXTENDS LocEngNi, SequenceTheorems, TLAPS

Closing(r) == thread[r].at = "close"

\* The request of a session has its own thread, on that session.
OwnThread ==
    \A s \in Sessions : rawRequest[s] # Null =>
        /\ rawRequest[s] \in Requests /\ rawRequest[s] <= reqIDCounter
        /\ thread[rawRequest[s]].of = s
        /\ thread[rawRequest[s]].at \notin {"none", "tail"}

\* What a closing thread holds was opened on its session, and only one thread of a
\* session is closing.
ClosingOwns ==
    /\ \A r \in Requests : Closing(r) =>
          /\ thread[r].raw \in Requests /\ thread[r].raw <= reqIDCounter
          /\ thread[thread[r].raw].of = thread[r].of
    /\ \A q, r \in Requests :
          Closing(q) /\ Closing(r) /\ thread[q].of = thread[r].of => q = r

\* Threads exist for the requests so far.
Started == \A r \in Requests : thread[r].at # "none" => r <= reqIDCounter

\* Somebody may still consume request r.
Open(r) ==
    \/ \E s \in Sessions : rawRequest[s] = r
    \/ \E q \in Requests : Closing(q) /\ thread[q].raw = r

IsSent(f) == \E i \in DOMAIN f : f[i] # "freed"

Once ==
    \A r \in Requests :
        /\ r > reqIDCounter => fate[r] = <<>>
        /\ IsSent(fate[r]) => ~ Open(r)
        /\ \A i, j \in DOMAIN fate[r] : fate[r][i] # "freed" /\ fate[r][j] # "freed" => i = j

NoDowns ==
    downs = 0 =>
        /\ reset.at = "idle"
        /\ \A r \in Requests : Len(fate[r]) <= 1 /\ (fate[r] # <<>> => ~ Open(r))

IInv == TypeOK /\ OwnThread /\ ClosingOwns /\ Started /\ AnswerNoticed
---------------------------------------------------------------------------
LEMMA Constants ==
    /\ MaxReq \in Nat /\ MaxDown \in Nat /\ Requests = 1 .. MaxReq
    /\ Null = 0 /\ Null \notin Requests /\ Requests \subseteq Ids
    /\ \A x \in Ids : x \in Nat /\ (x # Null => x \in Requests)
    /\ Sessions = {"es", "normal"}
  BY NiAssumption DEF Requests, Null, Ids, Sessions

LEMMA InitInv == Init => IInv /\ Once /\ NoDowns
<1> SUFFICES ASSUME Init PROVE IInv /\ Once /\ NoDowns
  OBVIOUS
<1>1. TypeOK
  BY Constants, NiAssumption
     DEF Init, TypeOK, Silent, Sessions, Replies, Places, Ids, Fates
<1>2. OwnThread /\ ClosingOwns /\ Started /\ AnswerNoticed
  BY DEF Init, OwnThread, ClosingOwns, Closing, Started, AnswerNoticed
<1>3. Once /\ NoDowns
  BY DEF Init, Once, NoDowns, IsSent
<1>4. QED
  BY <1>1, <1>2, <1>3 DEF IInv

\* A thread that moves on keeps its type.
LEMMA ThreadTyped ==
    ASSUME TypeOK, NEW r \in Requests, NEW place \in Places, NEW raw \in Ids,
           \/ thread' = [thread EXCEPT ![r] = [thread[r] EXCEPT !.at = place]]
           \/ thread' = [thread EXCEPT ![r] = [thread[r] EXCEPT !.raw = raw, !.at = place]]
           \/ thread' = [thread EXCEPT ![r] = [thread[r] EXCEPT !.at = place, !.raw = raw]]
    PROVE  thread' \in [Requests -> [at : Places, of : Sessions, raw : Ids]]
<1> DEFINE Thread == [at : Places, of : Sessions, raw : Ids]
<1>1. thread \in [Requests -> Thread] /\ thread[r] \in Thread
  BY DEF TypeOK
<1>2. [thread[r] EXCEPT !.at = place] \in Thread
  BY <1>1
<1>3. [thread[r] EXCEPT !.raw = raw, !.at = place] \in Thread
  BY <1>1
<1>4. [thread[r] EXCEPT !.at = place, !.raw = raw] \in Thread
  BY <1>1
<1> HIDE DEF Thread
<1>5. thread' \in [Requests -> Thread]
  BY <1>1, <1>2, <1>3, <1>4
<1>6. QED
  BY <1>5 DEF Thread

\* Signal changes nothing but that a sleeping thread of the session is awake.
LEMMA SignalThread ==
    ASSUME TypeOK, NEW s \in Sessions, Signal(s)
    PROVE  /\ thread' \in [Requests -> [at : Places, of : Sessions, raw : Ids]]
           /\ \A r \in Requests :
                 /\ thread'[r].of = thread[r].of /\ thread'[r].raw = thread[r].raw
                 /\ \/ thread'[r].at = thread[r].at
                    \/ thread[r].at = "waiting" /\ thread'[r].at = "woken"
           /\ \/ \E r \in Requests : thread'[r].of = s /\ thread'[r].at = "woken"
              \/ UNCHANGED thread
                 /\ \A r \in Requests : ~ (thread[r].at = "waiting" /\ thread[r].of = s)
<1>1. thread \in [Requests -> [at : Places, of : Sessions, raw : Ids]]
  BY DEF TypeOK
<1>2. CASE UNCHANGED thread
           /\ {r \in Requests : thread[r].at = "waiting" /\ thread[r].of = s} = {}
  BY <1>1, <1>2
<1>3. CASE \E r \in Requests : thread[r].at = "waiting" /\ thread[r].of = s /\ Goto(r, "woken")
  <2>1. PICK r \in Requests : thread[r].at = "waiting" /\ thread[r].of = s /\ Goto(r, "woken")
    BY <1>3
  <2>2. thread' = [thread EXCEPT ![r] = [thread[r] EXCEPT !.at = "woken"]]
    BY <2>1 DEF Goto
  <2>3. "woken" \in Places
    BY DEF Places
  <2>4. QED
    BY <1>1, <2>1, <2>2, <2>3
<1>4. QED
  BY <1>2, <1>3 DEF Signal

\* The steps that only wake threads, and those that leave them alone.
LEMMA AwakeStep ==
    ASSUME IInv, TypeOK', UNCHANGED <<rawRequest, reqIDCounter>>,
           \A r \in Requests :
              /\ thread'[r].of = thread[r].of /\ thread'[r].raw = thread[r].raw
              /\ \/ thread'[r].at = thread[r].at
                 \/ thread[r].at = "waiting" /\ thread'[r].at \in {"woken", "timedout"}
    PROVE  OwnThread' /\ ClosingOwns' /\ Started'
<1>1. OwnThread'
  BY DEF IInv, OwnThread
<1>2. ClosingOwns'
  <2>1. \A r \in Requests : Closing(r)' <=> Closing(r)
    BY DEF Closing
  <2>2. QED
    BY <2>1 DEF IInv, ClosingOwns
<1>3. Started'
  BY DEF IInv, Started
<1>4. QED
  BY <1>1, <1>2, <1>3

\* Once a thread is awake, or nobody sleeps, an open request is attended to.
LEMMA GiveStep ==
    ASSUME IInv, TypeOK', NEW s \in Sessions, Give(s), UNCHANGED <<rawRequest, reqIDCounter>>
    PROVE  IInv'
<1>1. /\ \A r \in Requests :
           /\ thread'[r].of = thread[r].of /\ thread'[r].raw = thread[r].raw
           /\ \/ thread'[r].at = thread[r].at
              \/ thread[r].at = "waiting" /\ thread'[r].at = "woken"
      /\ \/ \E r \in Requests : thread'[r].of = s /\ thread'[r].at = "woken"
         \/ UNCHANGED thread
            /\ \A r \in Requests : ~ (thread[r].at = "waiting" /\ thread[r].of = s)
      /\ respRecvd' = [respRecvd EXCEPT ![s] = TRUE]
  BY SignalThread DEF IInv, Give
<1>2. OwnThread' /\ ClosingOwns' /\ Started'
  BY <1>1, AwakeStep
<1>3. AnswerNoticed'
  <2>1. SUFFICES ASSUME NEW t \in Sessions, rawRequest'[t] # Null, respRecvd'[t]
                 PROVE  \E r \in Running(t)' : thread'[r].at # "waiting"
    BY DEF AnswerNoticed
  <2>2. CASE t = s
    <3>1. CASE \E r \in Requests : thread'[r].of = s /\ thread'[r].at = "woken"
      BY <2>2, <3>1 DEF Running
    <3>2. CASE /\ UNCHANGED thread
               /\ \A r \in Requests : ~ (thread[r].at = "waiting" /\ thread[r].of = s)
      <4>1. rawRequest[s] \in Requests /\ thread[rawRequest[s]].of = s
            /\ thread[rawRequest[s]].at \notin {"none", "tail"}
        BY <2>1, <2>2 DEF IInv, OwnThread
      <4>2. QED
        BY <2>2, <3>2, <4>1 DEF Running
    <3>3. QED
      BY <1>1, <3>1, <3>2
  <2>3. CASE t # s
    <3>1. respRecvd[t]
      BY <1>1, <2>1, <2>3 DEF IInv, TypeOK
    <3>2. PICK r \in Running(t) : thread[r].at # "waiting"
      BY <2>1, <3>1 DEF IInv, AnswerNoticed
    <3>3. r \in Running(t)' /\ thread'[r].at # "waiting"
      BY <1>1, <3>2 DEF Running
    <3>4. QED
      BY <3>3
  <2>4. QED
    BY <2>2, <2>3
<1>4. QED
  BY <1>2, <1>3 DEF IInv
---------------------------------------------------------------------------
(* The steps.                                                              *)

LEMMA RequestStep == ASSUME IInv, NEW s \in Sessions, Request(s) PROVE IInv'
<1> DEFINE n == reqIDCounter + 1
<1> USE Constants DEF IInv
<1>1. /\ n \in Requests /\ n \in Ids /\ n # Null /\ reqIDCounter \in Nat
      /\ rawRequest[s] = Null /\ reqIDCounter' = n
      /\ rawRequest' = [rawRequest EXCEPT ![s] = n]
      /\ reqID' = [reqID EXCEPT ![s] = n]
      /\ thread' = [thread EXCEPT ![n] = [at |-> "start", of |-> s, raw |-> Null]]
      /\ UNCHANGED <<resp, respRecvd, reset, user, said, fate, downs>>
  BY DEF Request, Accepts, TypeOK, history
<1>2. TypeOK'
  BY <1>1 DEF TypeOK, Places, Ids
<1>3. /\ thread'[n].at = "start" /\ thread'[n].of = s
      /\ \A r \in Requests : r # n => thread'[r] = thread[r]
      /\ rawRequest'[s] = n /\ \A t \in Sessions : t # s => rawRequest'[t] = rawRequest[t]
  BY <1>1 DEF TypeOK
<1>4. \A r \in Requests : r <= reqIDCounter => r # n /\ r <= n
  BY <1>1
<1>5. OwnThread'
  BY <1>1, <1>3, <1>4 DEF OwnThread
<1>6. \A r \in Requests : Closing(r)' => r # n /\ Closing(r)
  BY <1>3 DEF Closing
<1>7. ClosingOwns'
  BY <1>1, <1>3, <1>4, <1>6 DEF ClosingOwns
<1>8. Started'
  BY <1>1, <1>3, <1>4 DEF Started
<1>9. AnswerNoticed'
  <2>1. SUFFICES ASSUME NEW t \in Sessions, rawRequest'[t] # Null, respRecvd'[t]
                 PROVE  \E r \in Running(t)' : thread'[r].at # "waiting"
    BY DEF AnswerNoticed
  <2>2. CASE t = s
    BY <1>1, <1>3, <2>2 DEF Running
  <2>3. CASE t # s
    <3>1. PICK r \in Running(t) : thread[r].at # "waiting"
      BY <1>1, <1>3, <2>1, <2>3 DEF AnswerNoticed
    <3>2. r \in Requests /\ r <= reqIDCounter
      BY <3>1 DEF Running, Started
    <3>3. r \in Running(t)' /\ thread'[r].at # "waiting"
      BY <1>3, <1>4, <3>1, <3>2 DEF Running
    <3>4. QED
      BY <3>3
  <2>4. QED
    BY <2>2, <2>3
<1>10. QED
  BY <1>2, <1>5, <1>7, <1>8, <1>9

\* A step that leaves the threads, the requests and the flags of the sessions alone.
LEMMA QuietStep ==
    ASSUME IInv, TypeOK', UNCHANGED <<rawRequest, respRecvd, reqIDCounter, thread>>
    PROVE  IInv'
  BY DEF IInv, OwnThread, ClosingOwns, Closing, Started, AnswerNoticed, Running

LEMMA ResetStep == ASSUME IInv, Reset \/ EngineDown PROVE IInv'
<1> USE Constants DEF IInv
<1>1. CASE EngineDown
  <2>1. TypeOK'
    BY <1>1 DEF EngineDown, session, TypeOK, Sessions
  <2>2. QED
    BY <1>1, <2>1, QuietStep DEF EngineDown, session
<1>2. NextSession \in [at : {"idle", "check", "clear", "wake"}, of : Sessions]
  BY DEF NextSession, Sessions
<1>3. CASE ResetFree
  <2>1. fate' \in [Requests -> Seq(Fates)]
    <3>1. "freed" \in Fates /\ reset.of \in Sessions
      BY DEF Fates, TypeOK
    <3>2. CASE UNCHANGED fate
      BY <3>2 DEF TypeOK
    <3>3. CASE fate' = [fate EXCEPT ![rawRequest[reset.of]] = Append(@, "freed")]
      <4>1. \A r \in Requests : Append(fate[r], "freed") \in Seq(Fates)
        BY <3>1, AppendProperties DEF TypeOK
      <4>2. QED
        BY <3>3, <4>1 DEF TypeOK
    <3>4. QED
      BY <1>3, <3>2, <3>3 DEF ResetFree
  <2>2. reset' \in [at : {"idle", "check", "clear", "wake"}, of : Sessions]
    BY <1>2, <1>3 DEF ResetFree, TypeOK
  <2>3. TypeOK'
    BY <1>3, <2>1, <2>2 DEF ResetFree, session, TypeOK
  <2>4. QED
    BY <1>3, <2>3, QuietStep DEF ResetFree, session
<1>4. CASE ResetClear
  <2>1. /\ rawRequest' = [rawRequest EXCEPT ![reset.of] = Null]
        /\ reset.of \in Sessions /\ Null \in Ids
        /\ UNCHANGED <<reqID, resp, respRecvd, reqIDCounter, thread, user, said, fate, downs>>
    BY <1>4 DEF ResetClear, history, TypeOK, Ids
  <2>2. TypeOK'
    <3>1. reset' = [reset EXCEPT !.at = "wake"]
      BY <1>4 DEF ResetClear
    <3>2. reset' \in [at : {"idle", "check", "clear", "wake"}, of : Sessions]
      BY <3>1 DEF TypeOK
    <3>3. rawRequest' \in [Sessions -> Ids]
      BY <2>1 DEF TypeOK
    <3>4. QED
      BY <2>1, <3>2, <3>3 DEF TypeOK
  <2>3. \A s \in Sessions : rawRequest'[s] # Null => rawRequest'[s] = rawRequest[s]
    BY <2>1 DEF TypeOK
  <2>4. QED
    BY <2>1, <2>2, <2>3 DEF OwnThread, ClosingOwns, Closing, Started, AnswerNoticed, Running
<1>5. CASE ResetWake
  <2>1. /\ Give(reset.of) /\ reset' = NextSession /\ reset.of \in Sessions
        /\ UNCHANGED <<rawRequest, reqID, resp, reqIDCounter, user, said, fate, downs>>
    BY <1>5 DEF ResetWake, history, TypeOK
  <2>2. thread' \in [Requests -> [at : Places, of : Sessions, raw : Ids]]
    BY <2>1, SignalThread DEF Give
  <2>3. TypeOK'
    BY <1>2, <2>1, <2>2 DEF Give, TypeOK
  <2>4. QED
    BY <2>1, <2>3, GiveStep
<1>6. QED
  BY <1>1, <1>3, <1>4, <1>5 DEF Reset

LEMMA UserStep ==
    ASSUME IInv,
           (\E id \in Requests, ans \in Answers : Respond(id, ans)) \/ RespondIgnore \/ RespondSet
    PROVE  IInv'
<1> USE Constants DEF IInv
<1>1. ASSUME NEW id \in Requests, NEW ans \in Answers, Respond(id, ans) PROVE IInv'
  <2>1. user' \in [at : {"idle", "ignore", "set"}, of : Sessions, ans : Answers]
    BY <1>1 DEF Respond
  <2>2. TypeOK'
    BY <1>1, <2>1 DEF Respond, session, TypeOK
  <2>3. QED
    BY <1>1, <2>2, QuietStep DEF Respond, session
<1>2. CASE RespondIgnore
  <2>1. /\ Give("normal") /\ resp' = [resp EXCEPT !["normal"] = "IGNORE"]
        /\ user' = [user EXCEPT !.at = "set"] /\ "IGNORE" \in Replies /\ "normal" \in Sessions
        /\ UNCHANGED <<rawRequest, reqID, reqIDCounter, reset, said, fate, downs>>
    BY <1>2 DEF RespondIgnore, history, Replies
  <2>2. thread' \in [Requests -> [at : Places, of : Sessions, raw : Ids]]
    BY <2>1, SignalThread DEF Give
  <2>3. TypeOK'
    BY <2>1, <2>2 DEF Give, TypeOK
  <2>4. QED
    BY <2>1, <2>3, GiveStep
<1>3. CASE RespondSet
  <2>1. /\ Give(user.of) /\ resp' = [resp EXCEPT ![user.of] = user.ans]
        /\ user' = Silent /\ user.of \in Sessions /\ user.ans \in Replies
        /\ Silent \in [at : {"idle", "ignore", "set"}, of : Sessions, ans : Answers]
        /\ UNCHANGED <<rawRequest, reqID, reqIDCounter, reset, said, fate, downs>>
    BY <1>3, NiAssumption DEF RespondSet, history, Replies, TypeOK, Silent
  <2>2. thread' \in [Requests -> [at : Places, of : Sessions, raw : Ids]]
    BY <2>1, SignalThread DEF Give
  <2>3. TypeOK'
    BY <2>1, <2>2 DEF Give, TypeOK
  <2>4. QED
    BY <2>1, <2>3, GiveStep
<1>4. QED
  BY <1>1, <1>2, <1>3

LEMMA SleepStep == ASSUME IInv, NEW r \in Requests, Wait(r) \/ Timeout(r) PROVE IInv'
<1> USE Constants DEF IInv
<1>1. PICK place \in {"waiting", "timedout"} :
        /\ thread' = [thread EXCEPT ![r] = [thread[r] EXCEPT !.at = place]]
        /\ thread[r].at \in {"start", "woken", "waiting"}
        /\ place = "waiting" => ~ respRecvd[thread[r].of]
        /\ UNCHANGED <<rawRequest, reqID, resp, respRecvd, reqIDCounter, reset, user, said, fate, downs>>
  BY DEF Wait, Timeout, Goto, session, history
<1>2. /\ thread'[r].at = place /\ thread'[r].of = thread[r].of /\ thread'[r].raw = thread[r].raw
      /\ \A q \in Requests : q # r => thread'[q] = thread[q]
  BY <1>1 DEF TypeOK
<1>3. TypeOK'
  <2>1. thread' \in [Requests -> [at : Places, of : Sessions, raw : Ids]]
    <3>1. place \in Places
      BY <1>1 DEF Places
    <3>2. QED
      BY <1>1, <3>1, ThreadTyped
  <2>2. QED
    BY <1>1, <2>1 DEF TypeOK
<1>4. \A q \in Requests : /\ Closing(q)' <=> Closing(q)
                          /\ thread'[q].of = thread[q].of /\ thread'[q].raw = thread[q].raw
                          /\ thread'[q].at \in {"none", "tail"} <=> thread[q].at \in {"none", "tail"}
  BY <1>1, <1>2 DEF Closing
<1>5. OwnThread' /\ ClosingOwns' /\ Started'
  BY <1>1, <1>4 DEF OwnThread, ClosingOwns, Started
<1>6. AnswerNoticed'
  <2>1. SUFFICES ASSUME NEW s \in Sessions, rawRequest'[s] # Null, respRecvd'[s]
                 PROVE  \E q \in Running(s)' : thread'[q].at # "waiting"
    BY DEF AnswerNoticed
  <2>2. PICK q \in Running(s) : thread[q].at # "waiting"
    BY <1>1, <2>1 DEF AnswerNoticed
  <2>3. q \in Running(s)' /\ thread'[q].at # "waiting"
    BY <1>1, <1>2, <1>4, <2>1, <2>2 DEF Running
  <2>4. QED
    BY <2>3
<1>7. QED
  BY <1>3, <1>5, <1>6

LEMMA EndWaitStep == ASSUME IInv, NEW r \in Requests, EndWait(r) PROVE IInv'
<1> USE Constants DEF IInv
<1> DEFINE s == thread[r].of
           raw == rawRequest[s]
           place == IF raw = Null THEN "tail" ELSE "close"
<1>1. /\ s \in Sessions /\ raw \in Ids
      /\ \A q \in Requests : ~ (Closing(q) /\ thread[q].of = s)
      /\ thread[r].at \in {"start", "woken", "timedout"}
      /\ respRecvd' = [respRecvd EXCEPT ![s] = FALSE]
      /\ thread' = [thread EXCEPT ![r] = [thread[r] EXCEPT !.raw = raw, !.at = place]]
      /\ UNCHANGED <<rawRequest, reqID, reqIDCounter, reset, user, said, fate, downs>>
  BY DEF EndWait, LockFree, Closing, TypeOK, history
<1>2. resp' \in [Sessions -> Replies]
  BY <1>1 DEF EndWait, Replies, TypeOK
<1>3. /\ thread'[r].at = place /\ thread'[r].of = s /\ thread'[r].raw = raw
      /\ \A q \in Requests : q # r => thread'[q] = thread[q]
  BY <1>1 DEF TypeOK
<1>4. TypeOK'
  <2>1. thread' \in [Requests -> [at : Places, of : Sessions, raw : Ids]]
    <3>1. place \in Places
      BY <1>1 DEF Places
    <3>2. QED
      BY <1>1, <3>1, ThreadTyped
  <2>2. QED
    BY <1>1, <1>2, <2>1 DEF TypeOK
<1>5. OwnThread'
  BY <1>1, <1>3 DEF OwnThread
<1>6. ClosingOwns'
  BY <1>1, <1>3 DEF ClosingOwns, Closing, OwnThread
<1>7. Started'
  BY <1>1, <1>3 DEF Started
<1>8. AnswerNoticed'
  <2>1. SUFFICES ASSUME NEW t \in Sessions, rawRequest'[t] # Null, respRecvd'[t]
                 PROVE  \E q \in Running(t)' : thread'[q].at # "waiting"
    BY DEF AnswerNoticed
  <2>2. t # s /\ respRecvd[t]
    BY <1>1, <2>1 DEF TypeOK
  <2>3. PICK q \in Running(t) : thread[q].at # "waiting"
    BY <1>1, <2>1, <2>2 DEF AnswerNoticed
  <2>4. q \in Running(t)' /\ thread'[q].at # "waiting"
    BY <1>3, <2>2, <2>3 DEF Running
  <2>5. QED
    BY <2>4
<1>9. QED
  BY <1>4, <1>5, <1>6, <1>7, <1>8

LEMMA CloseStep == ASSUME IInv, NEW r \in Requests, Close(r) PROVE IInv'
<1> USE Constants DEF IInv
<1> DEFINE s == thread[r].of
<1>1. /\ s \in Sessions /\ Closing(r) /\ Null \in Ids
      /\ rawRequest' = [rawRequest EXCEPT ![s] = Null]
      /\ thread' = [thread EXCEPT ![r] = [thread[r] EXCEPT !.at = "tail", !.raw = Null]]
      /\ UNCHANGED <<reqID, resp, respRecvd, reqIDCounter, reset, user, said, downs>>
  BY DEF Close, Closing, TypeOK, Ids
<1>2. fate' \in [Requests -> Seq(Fates)]
  <2> DEFINE x == IF resp[s] = "IGNORE" THEN "freed" ELSE resp[s]
  <2>1. x \in Fates
    BY <1>1 DEF TypeOK, Fates, Replies
  <2>2. \A q \in Requests : Append(fate[q], x) \in Seq(Fates)
    BY <2>1, AppendProperties DEF TypeOK
  <2>3. fate' = [fate EXCEPT ![thread[r].raw] = Append(@, x)]
    BY DEF Close
  <2> HIDE DEF x
  <2>4. QED
    BY <2>2, <2>3 DEF TypeOK
<1>3. /\ thread'[r].at = "tail" /\ thread'[r].of = s
      /\ \A q \in Requests : q # r => thread'[q] = thread[q]
      /\ rawRequest'[s] = Null /\ \A t \in Sessions : t # s => rawRequest'[t] = rawRequest[t]
  BY <1>1 DEF TypeOK
<1>4. TypeOK'
  <2>1. thread' \in [Requests -> [at : Places, of : Sessions, raw : Ids]]
    <3>1. "tail" \in Places
      BY <1>1 DEF Places
    <3>2. QED
      BY <1>1, <3>1, ThreadTyped
  <2>2. QED
    BY <1>1, <1>2, <2>1 DEF TypeOK
<1>5. OwnThread'
  BY <1>1, <1>3 DEF OwnThread
<1>6. ClosingOwns'
  <2>1. \A q \in Requests : Closing(q)' => Closing(q) /\ q # r
    BY <1>3 DEF Closing
  <2>2. \A q \in Requests : thread'[q].of = thread[q].of
    BY <1>3
  <2>3. QED
    BY <1>1, <1>3, <2>1, <2>2 DEF ClosingOwns
<1>7. Started'
  BY <1>1, <1>3 DEF Started, Closing
<1>8. AnswerNoticed'
  <2>1. SUFFICES ASSUME NEW t \in Sessions, rawRequest'[t] # Null, respRecvd'[t]
                 PROVE  \E q \in Running(t)' : thread'[q].at # "waiting"
    BY DEF AnswerNoticed
  <2>2. t # s /\ respRecvd[t] /\ rawRequest[t] # Null
    BY <1>1, <1>3, <2>1
  <2>3. PICK q \in Running(t) : thread[q].at # "waiting"
    BY <2>2 DEF AnswerNoticed
  <2>4. q \in Running(t)' /\ thread'[q].at # "waiting"
    BY <1>3, <2>2, <2>3 DEF Running
  <2>5. QED
    BY <2>4
<1>9. QED
  BY <1>4, <1>5, <1>6, <1>7, <1>8

LEMMA ExitStep == ASSUME IInv, NEW r \in Requests, Exit(r) PROVE IInv'
<1> USE Constants DEF IInv
<1>1. /\ thread[r].at = "tail"
      /\ thread' = [thread EXCEPT ![r] = [thread[r] EXCEPT !.at = "none"]]
      /\ reqID' = [reqID EXCEPT ![thread[r].of] = Null] /\ Null \in Ids
      /\ UNCHANGED <<rawRequest, resp, respRecvd, reqIDCounter, reset, user, said, fate, downs>>
  BY DEF Exit, Goto, history, Ids
<1>2. /\ thread'[r].at = "none" /\ thread'[r].of = thread[r].of
      /\ \A q \in Requests : q # r => thread'[q] = thread[q]
  BY <1>1 DEF TypeOK
<1>3. TypeOK'
  <2>1. thread' \in [Requests -> [at : Places, of : Sessions, raw : Ids]]
    <3>1. "none" \in Places
      BY <1>1 DEF Places
    <3>2. QED
      BY <1>1, <3>1, ThreadTyped
  <2>2. QED
    BY <1>1, <2>1 DEF TypeOK
<1>4. \A q \in Requests : /\ Closing(q)' => Closing(q) /\ thread'[q] = thread[q]
                          /\ thread'[q].of = thread[q].of
                          /\ thread[q].at \notin {"none", "tail"} => thread'[q] = thread[q]
  BY <1>1, <1>2 DEF Closing
<1>5. OwnThread'
  BY <1>1, <1>4 DEF OwnThread
<1>6. ClosingOwns'
  BY <1>1, <1>4 DEF ClosingOwns
<1>7. Started'
  BY <1>1, <1>2 DEF Started
<1>8. AnswerNoticed'
  <2>1. SUFFICES ASSUME NEW s \in Sessions, rawRequest'[s] # Null, respRecvd'[s]
                 PROVE  \E q \in Running(s)' : thread'[q].at # "waiting"
    BY DEF AnswerNoticed
  <2>2. PICK q \in Running(s) : thread[q].at # "waiting"
    BY <1>1, <2>1 DEF AnswerNoticed
  <2>3. q \in Running(s)' /\ thread'[q].at # "waiting"
    BY <1>4, <2>2 DEF Running
  <2>4. QED
    BY <2>3
<1>9. QED
  BY <1>3, <1>5, <1>6, <1>7, <1>8

LEMMA Invariance == ASSUME IInv, [Next]_vars PROVE IInv'
<1>1. CASE UNCHANGED vars
  BY <1>1 DEF vars, session, history, IInv, TypeOK, OwnThread, ClosingOwns, Closing, Started,
     AnswerNoticed, Running
<1>2. CASE Next
  BY <1>2, RequestStep, ResetStep, UserStep, SleepStep, EndWaitStep, CloseStep, ExitStep
     DEF Next, Run
<1>3. QED
  BY <1>1, <1>2

LEMMA Always == Spec => []IInv
  BY InitInv, Invariance, PTL DEF Spec

\* Type correctness: a session holds a request that was made, and a thread closes a
\* request only as one of the outcomes that the modem knows.
THEOREM TypeCorrect == Spec => []TypeOK
<1>1. IInv => TypeOK
  BY DEF IInv
<1>2. QED
  BY <1>1, Always, PTL

\* An open request always has a thread that will close it: its own one.
THEOREM RequestIsGuarded == Spec => []RequestGuarded
<1>1. IInv => RequestGuarded
  BY DEF IInv, OwnThread, RequestGuarded, Running
<1>2. QED
  BY <1>1, Always, PTL

\* An answer that is there for an open request meets a thread that is awake.
THEOREM AnswerIsNoticed == Spec => []AnswerNoticed
<1>1. IInv => AnswerNoticed
  BY DEF IInv
<1>2. QED
  BY <1>1, Always, PTL
---------------------------------------------------------------------------
(* What becomes of a raw request: a step consumes at most one, and only one *)
(* that was open before it.                                                 *)

Opens == \A q \in Requests : Open(q)' => Open(q)

Consumes(x) ==
    \E p \in Requests :
        /\ Open(p) /\ p <= reqIDCounter
        /\ fate' = [fate EXCEPT ![p] = Append(@, x)]
        /\ x # "freed" \/ reset.at = "idle" => ~ Open(p)'

Outcome ==
    \/ Opens /\ UNCHANGED <<fate, reqIDCounter>>
    \/ /\ \A q \in Requests : Open(q)' => Open(q) \/ q = reqIDCounter + 1
       /\ reqIDCounter' = reqIDCounter + 1 /\ UNCHANGED fate
    \/ Opens /\ UNCHANGED reqIDCounter /\ \E x \in Fates : Consumes(x)

LEMMA CloseOutcome == ASSUME IInv, NEW r \in Requests, Close(r) PROVE Outcome
<1> USE Constants DEF IInv
<1> DEFINE s == thread[r].of
           x == IF resp[s] = "IGNORE" THEN "freed" ELSE resp[s]
<1>1. /\ s \in Sessions /\ Closing(r) /\ x \in Fates
      /\ rawRequest' = [rawRequest EXCEPT ![s] = Null]
      /\ thread' = [thread EXCEPT ![r] = [thread[r] EXCEPT !.at = "tail", !.raw = Null]]
      /\ fate' = [fate EXCEPT ![thread[r].raw] = Append(@, x)]
      /\ UNCHANGED reqIDCounter
  BY DEF Close, Closing, TypeOK, Fates, Replies
<1>2. /\ thread'[r].at = "tail"
      /\ \A q \in Requests : q # r => thread'[q] = thread[q]
      /\ rawRequest'[s] = Null /\ \A t \in Sessions : t # s => rawRequest'[t] = rawRequest[t]
  BY <1>1 DEF TypeOK
<1>3. PICK p \in Requests : p = thread[r].raw /\ p <= reqIDCounter /\ thread[p].of = s
  BY <1>1 DEF ClosingOwns
<1>4. Opens
  BY <1>2 DEF Opens, Open, Closing
<1>5. Open(p)
  BY <1>1, <1>3 DEF Open
<1>6. ~ Open(p)'
  <2>1. \A t \in Sessions : rawRequest'[t] # p
    BY <1>2, <1>3 DEF OwnThread
  <2>2. \A q \in Requests : ~ (Closing(q)' /\ thread'[q].raw = p)
    <3>1. SUFFICES ASSUME NEW q \in Requests, Closing(q)', thread'[q].raw = p PROVE FALSE
      OBVIOUS
    <3>2. q # r /\ Closing(q) /\ thread[q].raw = p
      BY <1>2, <3>1 DEF Closing
    <3>3. thread[q].of = s
      BY <1>3, <3>2 DEF ClosingOwns
    <3>4. QED
      BY <1>1, <3>2, <3>3 DEF ClosingOwns
  <2>3. QED
    BY <2>1, <2>2 DEF Open
<1> HIDE DEF x
<1>7. Consumes(x)
  BY <1>1, <1>3, <1>5, <1>6 DEF Consumes
<1>8. QED
  BY <1>1, <1>4, <1>7 DEF Outcome

LEMMA StepOutcome == ASSUME IInv, [Next]_vars PROVE Outcome
<1> USE Constants DEF IInv
<1>1. CASE UNCHANGED vars
  BY <1>1 DEF vars, session, history, Outcome, Opens, Open, Closing
<1>2. ASSUME NEW s \in Sessions, Request(s) PROVE Outcome
  <2> DEFINE n == reqIDCounter + 1
  <2>1. /\ n \in Requests /\ reqIDCounter' = n /\ UNCHANGED fate
        /\ rawRequest' = [rawRequest EXCEPT ![s] = n]
        /\ thread' = [thread EXCEPT ![n] = [at |-> "start", of |-> s, raw |-> Null]]
    BY <1>2 DEF Request, TypeOK, history
  <2>2. /\ thread'[n].at = "start"
        /\ \A q \in Requests : q # n => thread'[q] = thread[q]
        /\ \A t \in Sessions : rawRequest'[t] = n \/ rawRequest'[t] = rawRequest[t]
    BY <2>1 DEF TypeOK
  <2>3. \A q \in Requests : Open(q)' => Open(q) \/ q = n
    BY <2>2 DEF Open, Closing
  <2>4. QED
    BY <2>1, <2>3 DEF Outcome
<1>3. CASE EngineDown
  BY <1>3 DEF EngineDown, session, Outcome, Opens, Open, Closing
<1>4. CASE ResetFree
  <2>1. UNCHANGED <<rawRequest, reqIDCounter, thread>> /\ reset.at = "check"
    BY <1>4 DEF ResetFree, session
  <2>2. Opens
    BY <2>1 DEF Opens, Open, Closing
  <2>3. CASE UNCHANGED fate
    BY <2>1, <2>2, <2>3 DEF Outcome
  <2>4. CASE /\ rawRequest[reset.of] # Null
             /\ fate' = [fate EXCEPT ![rawRequest[reset.of]] = Append(@, "freed")]
    <3> DEFINE p == rawRequest[reset.of]
    <3>1. reset.of \in Sessions /\ "freed" \in Fates
      BY DEF TypeOK, Fates
    <3>2. p \in Requests /\ p <= reqIDCounter /\ Open(p)
      BY <2>4, <3>1 DEF OwnThread, Open
    <3>3. Consumes("freed")
      BY <2>1, <2>4, <3>2 DEF Consumes
    <3>4. QED
      BY <2>1, <2>2, <3>1, <3>3 DEF Outcome
  <2>5. QED
    BY <1>4, <2>3, <2>4 DEF ResetFree
<1>5. CASE ResetClear
  <2>1. /\ rawRequest' = [rawRequest EXCEPT ![reset.of] = Null]
        /\ UNCHANGED <<reqIDCounter, thread, fate>>
    BY <1>5 DEF ResetClear, history
  <2>2. \A s \in Sessions : rawRequest'[s] # Null => rawRequest'[s] = rawRequest[s]
    BY <2>1 DEF TypeOK
  <2>3. Opens
    BY <2>1, <2>2 DEF Opens, Open, Closing
  <2>4. QED
    BY <2>1, <2>3 DEF Outcome
<1>6. ASSUME NEW s \in Sessions, Give(s), UNCHANGED <<rawRequest, reqIDCounter, fate>> PROVE Outcome
  <2>1. \A r \in Requests : Closing(r)' => Closing(r) /\ thread'[r].raw = thread[r].raw
    BY <1>6, SignalThread DEF Give, Closing
  <2>2. Opens
    BY <1>6, <2>1 DEF Opens, Open
  <2>3. QED
    BY <1>6, <2>2 DEF Outcome
<1>7. CASE ResetWake
  BY <1>6, <1>7 DEF ResetWake, history, TypeOK
<1>8. CASE RespondIgnore \/ RespondSet
  BY <1>6, <1>8 DEF RespondIgnore, RespondSet, history, TypeOK
<1>9. ASSUME NEW id \in Requests, NEW ans \in Answers, Respond(id, ans) PROVE Outcome
  BY <1>9 DEF Respond, session, Outcome, Opens, Open, Closing
<1>10. ASSUME NEW r \in Requests, Wait(r) \/ Timeout(r) \/ Exit(r) PROVE Outcome
  <2>1. PICK place \in {"waiting", "timedout", "none"} :
           /\ thread' = [thread EXCEPT ![r] = [thread[r] EXCEPT !.at = place]]
           /\ UNCHANGED <<rawRequest, reqIDCounter, fate>>
    BY <1>10 DEF Wait, Timeout, Exit, Goto, session, history
  <2>2. Opens
    BY <2>1 DEF Opens, Open, Closing, TypeOK
  <2>3. QED
    BY <2>1, <2>2 DEF Outcome
<1>11. ASSUME NEW r \in Requests, EndWait(r) PROVE Outcome
  <2> DEFINE raw == rawRequest[thread[r].of]
  <2>1. /\ thread[r].of \in Sessions
        /\ thread' = [thread EXCEPT ![r] = [thread[r] EXCEPT
              !.raw = raw, !.at = IF raw = Null THEN "tail" ELSE "close"]]
        /\ UNCHANGED <<rawRequest, reqIDCounter, fate>>
    BY <1>11 DEF EndWait, history, TypeOK
  <2>2. Opens
    BY <2>1 DEF Opens, Open, Closing, TypeOK
  <2>3. QED
    BY <2>1, <2>2 DEF Outcome
<1>12. QED
  BY <1>1, <1>2, <1>3, <1>4, <1>5, <1>7, <1>8, <1>9, <1>10, <1>11, CloseOutcome
     DEF Next, Run, Reset

LEMMA OnceStep == ASSUME IInv, Once, Outcome PROVE Once'
<1> USE Constants DEF IInv
<1>1. CASE Opens /\ UNCHANGED <<fate, reqIDCounter>>
  BY <1>1 DEF Opens, Once
<1>2. CASE /\ \A q \in Requests : Open(q)' => Open(q) \/ q = reqIDCounter + 1
           /\ reqIDCounter' = reqIDCounter + 1 /\ UNCHANGED fate
  <2>1. \A q \in Requests : q = reqIDCounter + 1 => fate[q] = <<>>
    BY DEF Once, TypeOK
  <2>2. \A q \in Requests : q > reqIDCounter + 1 => q > reqIDCounter
    BY DEF TypeOK
  <2>3. \A q \in Requests : IsSent(fate[q]) => q # reqIDCounter + 1
    BY <2>1 DEF IsSent
  <2>4. QED
    BY <1>2, <2>2, <2>3 DEF Once
<1>3. CASE Opens /\ UNCHANGED reqIDCounter /\ \E x \in Fates : Consumes(x)
  <2>1. PICK x \in Fates, p \in Requests :
           /\ Open(p) /\ p <= reqIDCounter
           /\ fate' = [fate EXCEPT ![p] = Append(@, x)]
           /\ x # "freed" \/ reset.at = "idle" => ~ Open(p)'
    BY <1>3 DEF Consumes
  <2>2. /\ fate[p] \in Seq(Fates) /\ fate'[p] = Append(fate[p], x)
        /\ \A q \in Requests : q # p => fate'[q] = fate[q]
    BY <2>1 DEF TypeOK
  <2>3. /\ DOMAIN fate'[p] = DOMAIN fate[p] \cup {Len(fate[p]) + 1}
        /\ \A i \in DOMAIN fate[p] : fate'[p][i] = fate[p][i]
        /\ fate'[p][Len(fate[p]) + 1] = x
    BY <2>2, AppendProperties
  <2>4. \A i \in DOMAIN fate[p] : fate[p][i] = "freed"
    BY <2>1 DEF Once, IsSent
  <2>5. IsSent(fate'[p]) => x # "freed"
    BY <2>3, <2>4 DEF IsSent
  <2>6. \A i, j \in DOMAIN fate'[p] : fate'[p][i] # "freed" /\ fate'[p][j] # "freed" => i = j
    BY <2>3, <2>4
  <2>7. ~ (p > reqIDCounter)
    BY <2>1 DEF TypeOK
  <2>8. ASSUME NEW q \in Requests
        PROVE  /\ q > reqIDCounter' => fate'[q] = <<>>
               /\ IsSent(fate'[q]) => ~ Open(q)'
               /\ \A i, j \in DOMAIN fate'[q] :
                     fate'[q][i] # "freed" /\ fate'[q][j] # "freed" => i = j
    <3>1. CASE q = p
      BY <1>3, <2>1, <2>5, <2>6, <2>7, <3>1
    <3>2. CASE q # p
      BY <1>3, <2>2, <3>2 DEF Opens, Once
    <3>3. QED
      BY <3>1, <3>2
  <2>9. QED
    BY <2>8 DEF Once, IsSent
<1>4. QED
  BY <1>1, <1>2, <1>3 DEF Outcome

LEMMA NoDownsStep == ASSUME IInv, Once, NoDowns, Outcome, [Next]_vars PROVE NoDowns'
<1> USE Constants DEF IInv
<1>1. SUFFICES ASSUME downs' = 0
               PROVE  /\ reset'.at = "idle"
                      /\ \A q \in Requests :
                            Len(fate'[q]) <= 1 /\ (fate'[q] # <<>> => ~ Open(q)')
  BY DEF NoDowns
<1>2. downs = 0 /\ reset.at = "idle" /\ reset' = reset
  <2>1. UNCHANGED vars \/ Next
    OBVIOUS
  <2>2. downs \in Nat
    BY DEF TypeOK, NiAssumption
  <2>3. CASE UNCHANGED <<reset, downs>>
    BY <1>1, <2>3 DEF NoDowns
  <2>4. CASE EngineDown
    BY <1>1, <2>2, <2>4 DEF EngineDown
  <2>5. CASE Reset
    <3>1. UNCHANGED downs
      BY <2>5 DEF Reset, ResetFree, ResetClear, ResetWake, history
    <3>2. reset.at # "idle"
      BY <2>5 DEF Reset, ResetFree, ResetClear, ResetWake
    <3>3. QED
      BY <1>1, <3>1, <3>2 DEF NoDowns
  <2>6. QED
    BY <2>1, <2>3, <2>4, <2>5
       DEF vars, history, Next, Run, Request, Respond, RespondIgnore, RespondSet, Wait, Timeout,
           EndWait, Close, Exit
<1>3. \A q \in Requests : Len(fate[q]) <= 1 /\ (fate[q] # <<>> => ~ Open(q))
  BY <1>2 DEF NoDowns
<1>4. CASE Opens /\ UNCHANGED <<fate, reqIDCounter>>
  BY <1>2, <1>3, <1>4 DEF Opens
<1>5. CASE /\ \A q \in Requests : Open(q)' => Open(q) \/ q = reqIDCounter + 1
           /\ reqIDCounter' = reqIDCounter + 1 /\ UNCHANGED fate
  <2>1. \A q \in Requests : q = reqIDCounter + 1 => fate[q] = <<>>
    BY DEF Once, TypeOK
  <2>2. QED
    BY <1>2, <1>3, <1>5, <2>1
<1>6. CASE Opens /\ UNCHANGED reqIDCounter /\ \E x \in Fates : Consumes(x)
  <2>1. PICK x \in Fates, p \in Requests :
           /\ Open(p)
           /\ fate' = [fate EXCEPT ![p] = Append(@, x)]
           /\ ~ Open(p)'
    BY <1>2, <1>6 DEF Consumes
  <2>2. /\ fate[p] = <<>> /\ Len(fate'[p]) = 1
        /\ \A q \in Requests : q # p => fate'[q] = fate[q]
    <3>1. fate[p] = <<>>
      BY <1>3, <2>1
    <3>2. fate'[p] = Append(<<>>, x)
      BY <2>1, <3>1 DEF TypeOK
    <3>3. QED
      BY <2>1, <3>1, <3>2 DEF TypeOK
  <2>3. QED
    BY <1>2, <1>3, <1>6, <2>1, <2>2 DEF Opens
<1>7. QED
  BY <1>4, <1>5, <1>6 DEF Outcome

LEMMA AlwaysOnce == Spec => [](Once /\ NoDowns)
<1>1. IInv /\ Once /\ NoDowns /\ [Next]_vars => (Once /\ NoDowns)'
  BY StepOutcome, OnceStep, NoDownsStep
<1>2. QED
  BY <1>1, InitInv, Always, PTL DEF Spec

\* The modem gets at most one answer to a request, however many threads of earlier
\* requests, user answers and engine restarts meet on its session: a request that was
\* sent is held by no session and no closing thread any more.
THEOREM AnswerSentOnce == Spec => []SentOnce
<1>1. Once => SentOnce
  BY DEF Once, SentOnce
<1>2. QED
  BY <1>1, AlwaysOnce, PTL

\* As long as the engine never goes down, the raw request is consumed at most once.
THEOREM RequestConsumedOnce == Spec => []ConsumedOnce
<1>1. NoDowns => ConsumedOnce
  BY DEF NoDowns, ConsumedOnce
<1>2. QED
  BY <1>1, AlwaysOnce, PTL
===========================================================================
