-------------------------- MODULE ConnectionLease ---------------------------
(***************************************************************************)
(* What an AgpsStateMachine promises to the clients that share its         *)
(* connection.  Users lease it together: nobody is told that the           *)
(* connection is there unless it is leased, all who asked are told at      *)
(* once, it is given up only when nobody needs it any more or when         *)
(* everybody is told, and a user that returns it does not take it away     *)
(* from the others.                                                        *)
(***************************************************************************)
CONSTANT Users

VARIABLES
    lease,    \* not leased, wanted by somebody, or held
    user      \* per user: what it has been told last

leaseVars == <<lease, user>>

Waiting == {u \in Users : user[u] = "asked"}
Needing(told) == {u \in Users : told[u] \in {"asked", "granted"}}

LeaseInit ==
    /\ lease = "free"
    /\ user = [u \in Users |-> "idle"]

\* A user asks: it shares a lease that is held, or makes one wanted.
Ask(u) ==
    /\ user[u] = "idle"
    /\ \/ /\ lease = "held"
          /\ user' = [user EXCEPT ![u] = "granted"]
          /\ UNCHANGED lease
       \/ /\ lease # "held"
          /\ user' = [user EXCEPT ![u] = "asked"]
          /\ lease' = "wanted"

\* The lease may be given up, but not over the head of a user that needs it.
Keep(told) ==
    \/ UNCHANGED lease
    \/ lease' = "free" /\ Needing(told) = {}

\* A user returns it, at once or to be told when the connection is closed.
Return(u) ==
    /\ user[u] \in {"asked", "granted"}
    /\ \E done \in {"idle", "closing"} : user' = [user EXCEPT ![u] = done]
    /\ Keep(user')

\* The connection is up: all who wait for it have it.
Grant ==
    /\ lease = "wanted"
    /\ lease' = "held"
    /\ user' = [u \in Users |-> IF u \in Waiting THEN "granted" ELSE user[u]]

\* The connection failed or was lost: everybody is told.
End ==
    /\ lease \in {"wanted", "held"}
    /\ lease' = "free"
    /\ user' = [u \in Users |-> "idle"]

\* The connection is closed: those who wait for that are told.
Closed ==
    /\ lease # "held"
    /\ user' = [u \in Users |-> IF user[u] = "closing" THEN "idle" ELSE user[u]]
    /\ UNCHANGED lease

\* The users are gone with the modem; the connection may stay.
Restart ==
    /\ user' = [u \in Users |-> "idle"]
    /\ Keep(user')

\* What those who share the connection without being users here do to it.
Others ==
    /\ UNCHANGED user
    /\ \/ Keep(user)
       \/ lease = "free" /\ lease' = "wanted"

LeaseNext ==
    \/ \E u \in Users : Ask(u) \/ Return(u)
    \/ Grant \/ End \/ Closed \/ Restart \/ Others

LeaseSpec == LeaseInit /\ [][LeaseNext]_leaseVars
=============================================================================
