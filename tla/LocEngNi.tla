------------------------------ MODULE LocEngNi ------------------------------
(***************************************************************************)
(* loc_eng_ni.cpp: network-initiated (NI) positioning requests.  The modem *)
(* asks, the MsgTask thread opens a session and spawns a thread that waits *)
(* for the user's answer or a timeout, and sends the outcome back.  There  *)
(* is one session for emergency SUPL and one for everything else.          *)
(*                                                                         *)
(* Three parties meet: the MsgTask thread (requests, and the reset when    *)
(* the engine goes down), the JNI thread that brings the user's answer,    *)
(* and one NI thread per request.  A section under a session's tLock is    *)
(* one action, except where code outside of the lock can interfere: the    *)
(* NI thread keeps tLock from its read of rawRequest ("close") to its      *)
(* write, and the reset frees rawRequest without tLock.                    *)
(***************************************************************************)
EXTENDS Naturals, Sequences, FiniteSets

CONSTANTS
    MaxReq,     \* bound: requests accepted in a behaviour
    Answers,    \* the answers a user can give
    MaxSay,     \* bound: different answers to one request
    MaxDown     \* bound: how often the engine goes down

ASSUME NiAssumption ==
    /\ MaxReq \in Nat
    /\ "ACCEPT" \in Answers
    /\ MaxSay \in Nat
    /\ MaxDown \in Nat

Sessions == {"es", "normal"}
Requests == 1 .. MaxReq    \* reqIDCounter numbers requests and their threads
Null == 0                  \* no raw request, no request ID

VARIABLES
    rawRequest, reqID, resp, respRecvd,     \* the two sessions
    reqIDCounter,
    thread,      \* per request: its NI thread's place, session and rawRequest
    reset,       \* loc_eng_ni_reset_on_engine_restart on the MsgTask thread
    user,        \* loc_eng_ni_respond on the JNI thread
    said,        \* per request: the user's answers that found it (history)
    fate,        \* per request: what was done with rawRequest (history)
    downs        \* how often the engine has gone down (history)

session == <<rawRequest, reqID, resp, respRecvd>>
history == <<said, fate, downs>>
vars == <<session, reqIDCounter, thread, reset, user, history>>

Replies == Answers \cup {"NONE", "NORESP", "IGNORE"}
Fates == (Replies \ {"IGNORE"}) \cup {"freed"}
Places == {"none", "start", "waiting", "woken", "timedout", "close", "tail"}
Ids == Requests \cup {Null}

TypeOK ==
    /\ rawRequest \in [Sessions -> Ids]
    /\ reqID \in [Sessions -> Ids]
    /\ resp \in [Sessions -> Replies]
    /\ respRecvd \in [Sessions -> BOOLEAN]
    /\ reqIDCounter \in Ids
    /\ thread \in [Requests -> [at : Places, of : Sessions, raw : Ids]]
    /\ reset \in [at : {"idle", "check", "clear", "wake"}, of : Sessions]
    /\ user \in [at : {"idle", "ignore", "set"}, of : Sessions, ans : Answers]
    /\ said \in [Requests -> SUBSET Answers]
    /\ fate \in [Requests -> Seq(Fates)]
    /\ downs \in 0 .. MaxDown

Silent == [at |-> "idle", of |-> "es", ans |-> "ACCEPT"]

\* loc_eng_ni_init; resp is left as loc_eng_init's memset made it.
Init ==
    /\ rawRequest = [s \in Sessions |-> Null]
    /\ reqID = [s \in Sessions |-> Null]
    /\ resp = [s \in Sessions |-> "NONE"]
    /\ respRecvd = [s \in Sessions |-> FALSE]
    /\ reqIDCounter = 0
    /\ thread = [r \in Requests |-> [at |-> "none", of |-> "es", raw |-> Null]]
    /\ reset = [at |-> "idle", of |-> "es"]
    /\ user = Silent
    /\ said = [r \in Requests |-> {}]
    /\ fate = [r \in Requests |-> <<>>]
    /\ downs = 0

\* Mutant: ni_thread_proc works without the lock.
LockFreeAlways(s) == s \in Sessions

\* tLock of session s: only a thread in "close" keeps it over two actions.
LockFree(s) ==
    \A r \in Requests : ~ (thread[r].at = "close" /\ thread[r].of = s)

Goto(r, place) == thread' = [thread EXCEPT ![r].at = place]

\* Mutant: pthread_cond_signal is forgotten.
SignalNobody(s) == s \in Sessions /\ UNCHANGED thread

\* pthread_cond_signal: one of the waiting threads, if any, wakes up.
Signal(s) ==
    LET waiting == {r \in Requests : thread[r].at = "waiting" /\ thread[r].of = s}
    IN IF waiting = {} THEN UNCHANGED thread
       ELSE \E r \in waiting : Goto(r, "woken")

\* What respond and reset do under tLock.
Give(s) ==
    /\ LockFree(s)
    /\ respRecvd' = [respRecvd EXCEPT ![s] = TRUE]
    /\ Signal(s)
---------------------------------------------------------------------------
(* The MsgTask thread.                                                     *)

\* loc_eng_ni_request_handler, for a request that is accepted; one that meets a
\* session in progress changes nothing.  pthread_create succeeds.
Accepts(s) ==
    /\ rawRequest[s] = Null
    /\ s = "normal" => rawRequest["es"] = Null

Request(s) ==
    /\ reset.at = "idle"
    /\ reqIDCounter < MaxReq
    /\ Accepts(s)
    /\ LET r == reqIDCounter + 1 IN
          /\ reqIDCounter' = r
          /\ rawRequest' = [rawRequest EXCEPT ![s] = r]
          /\ reqID' = [reqID EXCEPT ![s] = r]
          /\ thread' = [thread EXCEPT ![r] = [at |-> "start", of |-> s, raw |-> Null]]
    /\ UNCHANGED <<resp, respRecvd, reset, user, history>>

\* loc_eng_handle_engine_down calls the reset.
EngineDown ==
    /\ downs < MaxDown
    /\ reset.at = "idle"
    /\ reset' = [at |-> "check", of |-> "es"]
    /\ downs' = downs + 1
    /\ UNCHANGED <<session, reqIDCounter, thread, user, said, fate>>

NextSession == IF reset.of = "es" THEN [at |-> "check", of |-> "normal"]
                                  ELSE [at |-> "idle", of |-> "es"]

\* rawRequest is looked at and freed, without the lock.
ResetFree ==
    LET r == rawRequest[reset.of] IN
    /\ reset.at = "check"
    /\ \/ r = Null /\ reset' = NextSession /\ UNCHANGED fate
       \/ /\ r # Null
          /\ fate' = [fate EXCEPT ![r] = Append(@, "freed")]
          /\ reset' = [reset EXCEPT !.at = "clear"]
    /\ UNCHANGED <<session, reqIDCounter, thread, user, said, downs>>

ResetClear ==
    /\ reset.at = "clear"
    /\ rawRequest' = [rawRequest EXCEPT ![reset.of] = Null]
    /\ reset' = [reset EXCEPT !.at = "wake"]
    /\ UNCHANGED <<reqID, resp, respRecvd, reqIDCounter, thread, user, history>>

ResetWake ==
    /\ reset.at = "wake"
    /\ Give(reset.of)
    /\ reset' = NextSession
    /\ UNCHANGED <<rawRequest, reqID, resp, reqIDCounter, user, history>>
---------------------------------------------------------------------------
(* The JNI thread: loc_eng_ni_respond.                                     *)

Active(s, id) == reqID[s] = id /\ rawRequest[s] # Null

\* Find the session, without a lock; an answer to any other ID is dropped.  An
\* accepted emergency request makes the other session's request be ignored first.
Respond(id, ans) ==
    /\ user.at = "idle"
    /\ id <= reqIDCounter
    /\ \/ /\ Active("es", id)
          /\ user' = [of |-> "es", ans |-> ans,
                      at |-> IF ans = "ACCEPT" /\ rawRequest["normal"] # Null
                             THEN "ignore" ELSE "set"]
       \/ /\ ~ Active("es", id) /\ Active("normal", id)
          /\ user' = [of |-> "normal", ans |-> ans, at |-> "set"]
    /\ said' = [said EXCEPT ![id] = @ \cup {ans}]
    /\ Cardinality(said'[id]) <= MaxSay
    /\ UNCHANGED <<session, reqIDCounter, thread, reset, fate, downs>>

RespondIgnore ==
    /\ user.at = "ignore"
    /\ resp' = [resp EXCEPT !["normal"] = "IGNORE"]
    /\ Give("normal")
    /\ user' = [user EXCEPT !.at = "set"]
    /\ UNCHANGED <<rawRequest, reqID, reqIDCounter, reset, history>>

RespondSet ==
    /\ user.at = "set"
    /\ resp' = [resp EXCEPT ![user.of] = user.ans]
    /\ Give(user.of)
    /\ user' = Silent
    /\ UNCHANGED <<rawRequest, reqID, reqIDCounter, reset, history>>
---------------------------------------------------------------------------
(* ni_thread_proc, the thread of request r.                                *)

\* Before the wait, or after a wake-up: wait (again) while there is no answer.
Wait(r) ==
    /\ thread[r].at \in {"start", "woken"}
    /\ LockFree(thread[r].of)
    /\ ~ respRecvd[thread[r].of]
    /\ Goto(r, "waiting")
    /\ UNCHANGED <<session, reqIDCounter, reset, user, history>>

\* Mutant: the wait has no timeout.
TimeoutNever(r) == thread[r].at = "gone" /\ UNCHANGED vars

Timeout(r) ==
    /\ thread[r].at = "waiting"
    /\ Goto(r, "timedout")
    /\ UNCHANGED <<session, reqIDCounter, reset, user, history>>

\* The wait is over: an answer is taken, a timeout overrides it, and the
\* session's request is read.
EndWait(r) ==
    LET s == thread[r].of IN
    /\ LockFree(s)
    /\ \/ /\ thread[r].at \in {"start", "woken"} /\ respRecvd[s]
          /\ UNCHANGED resp
       \/ /\ thread[r].at = "timedout"
          /\ resp' = [resp EXCEPT ![s] = "NORESP"]
    /\ respRecvd' = [respRecvd EXCEPT ![s] = FALSE]
    /\ thread' = [thread EXCEPT ![r] = [@ EXCEPT
          !.raw = rawRequest[s],
          !.at = IF rawRequest[s] = Null THEN "tail" ELSE "close"]]
    /\ UNCHANGED <<rawRequest, reqID, reqIDCounter, reset, user, history>>

\* Mutant: rawRequest is not reset.
CloseKeeps(r) ==
    /\ thread[r].at = "close"
    /\ fate' = [fate EXCEPT ![thread[r].raw] =
          Append(@, IF resp[thread[r].of] = "IGNORE" THEN "freed"
                    ELSE resp[thread[r].of])]
    /\ thread' = [thread EXCEPT ![r].at = "tail", ![r].raw = Null]
    /\ UNCHANGED <<session, reqIDCounter, reset, user, said, downs>>

\* Mutant: the free is not in the else branch.
CloseFreesAlways(r) ==
    LET s == thread[r].of IN
    /\ thread[r].at = "close"
    /\ fate' = [fate EXCEPT ![thread[r].raw] =
          IF resp[s] = "IGNORE" THEN Append(@, "freed") ELSE @ \o <<resp[s], "freed">>]
    /\ rawRequest' = [rawRequest EXCEPT ![s] = Null]
    /\ thread' = [thread EXCEPT ![r].at = "tail", ![r].raw = Null]
    /\ UNCHANGED <<reqID, resp, respRecvd, reqIDCounter, reset, user, said, downs>>

\* The message to the modem takes the request along, and frees it when it has
\* been sent; a request that is ignored is freed here.  tLock is released.
Close(r) ==
    LET s == thread[r].of IN
    /\ thread[r].at = "close"
    /\ fate' = [fate EXCEPT ![thread[r].raw] =
          Append(@, IF resp[s] = "IGNORE" THEN "freed" ELSE resp[s])]
    /\ rawRequest' = [rawRequest EXCEPT ![s] = Null]
    /\ thread' = [thread EXCEPT ![r].at = "tail", ![r].raw = Null]
    /\ UNCHANGED <<reqID, resp, respRecvd, reqIDCounter, reset, user, said, downs>>

\* Mutant: the thread marks the session with an ID past the last request.
ExitMarks(r) ==
    /\ thread[r].at = "tail"
    /\ reqID' = [reqID EXCEPT ![thread[r].of] = MaxReq + 1]
    /\ Goto(r, "none")
    /\ UNCHANGED <<rawRequest, resp, respRecvd, reqIDCounter, reset, user, history>>

\* After the lock: whatever request the session has now loses its ID.
Exit(r) ==
    /\ thread[r].at = "tail"
    /\ reqID' = [reqID EXCEPT ![thread[r].of] = Null]
    /\ Goto(r, "none")
    /\ UNCHANGED <<rawRequest, resp, respRecvd, reqIDCounter, reset, user, history>>
---------------------------------------------------------------------------
Run(r) == Wait(r) \/ EndWait(r) \/ Close(r) \/ Exit(r)
Reset == ResetFree \/ ResetClear \/ ResetWake

Next ==
    \/ \E s \in Sessions : Request(s)
    \/ EngineDown
    \/ Reset
    \/ \E id \in Requests, ans \in Answers : Respond(id, ans)
    \/ RespondIgnore
    \/ RespondSet
    \/ \E r \in Requests : Run(r) \/ Timeout(r)

Spec == Init /\ [][Next]_vars

\* Threads run and time passes; the user need not answer.
FairSpec ==
    /\ Spec
    /\ WF_vars(Reset)
    /\ \A r \in Requests : WF_vars(Run(r)) /\ WF_vars(Timeout(r))
---------------------------------------------------------------------------
(* Properties                                                              *)

\* The modem gets at most one answer to a request, even when threads of earlier
\* requests still run on the session and engine restarts wake them.
SentOnce ==
    \A r \in Requests :
        \A i, j \in DOMAIN fate[r] :
            fate[r][i] # "freed" /\ fate[r][j] # "freed" => i = j

\* While the engine stays up, the raw request is either sent or freed, and only
\* once.  (The reset frees it outside of tLock, see ResetFree.)
ConsumedOnce == downs = 0 => \A r \in Requests : Len(fate[r]) <= 1

\* An open request always has a thread that will close it.
Running(s) == {r \in Requests : thread[r].of = s
                                /\ thread[r].at \notin {"none", "tail"}}
RequestGuarded == \A s \in Sessions : rawRequest[s] # Null => Running(s) # {}

\* No lost wake-up: when an answer is there for an open request, some thread of
\* the session is not asleep.
AnswerNoticed ==
    \A s \in Sessions :
        rawRequest[s] # Null /\ respRecvd[s] =>
            \E r \in Running(s) : thread[r].at # "waiting"

\* Every request that was accepted leaves its session again, so that a silent
\* user does not block the requests to come.
RequestSettled ==
    \A s \in Sessions : rawRequest[s] # Null ~> rawRequest[s] = Null
===========================================================================
