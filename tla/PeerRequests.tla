---------------------------- MODULE PeerRequests ----------------------------
(***************************************************************************)
(* What the network layer promises to the futures that fetch from peers:   *)
(* a request is held by exactly one party, first by the network manager    *)
(* and then by one connection, until it is answered or dropped.  While     *)
(* some connection is available the manager does not keep a request, and   *)
(* a connection answers or closes.                                         *)
(***************************************************************************)
CONSTANTS
    Fetches,        \* the calls that may be waiting at the same time
    Connections     \* the connections to peers that may ever be made

VARIABLES
    holder,         \* holder[f]: who holds the request of f
    available       \* the connections that are open

absVars == <<holder, available>>

Nobody == "nobody"
Manager == "manager"
HeldBy(who) == {f \in Fetches : holder[f] = who}

Release(fs) == holder' = [f \in Fetches |-> IF f \in fs THEN Nobody ELSE holder[f]]

AbsInit ==
    /\ holder = [f \in Fetches |-> Nobody]
    /\ available = {}

Ask(f) ==
    /\ holder[f] = Nobody
    /\ holder' = [holder EXCEPT ![f] = Manager]
    /\ UNCHANGED available

Forward(f, c) ==
    /\ holder[f] = Manager
    /\ c \in available
    /\ holder' = [holder EXCEPT ![f] = c]
    /\ UNCHANGED available

Settle(f) ==
    /\ holder[f] \in Connections
    /\ Release({f})
    /\ UNCHANGED available

Open(c) ==
    /\ c \notin available
    /\ available' = available \cup {c}
    /\ UNCHANGED holder

Lose(c) ==
    /\ c \in available
    /\ available' = available \ {c}
    /\ Release(HeldBy(c))

\* The manager ends and drops what it holds.
Abandon ==
    /\ Release(HeldBy(Manager))
    /\ UNCHANGED available

AbsNext ==
    \/ \E f \in Fetches : Ask(f) \/ Settle(f) \/ \E c \in Connections : Forward(f, c)
    \/ \E c \in Connections : Open(c) \/ Lose(c)
    \/ Abandon

AbsSpec == AbsInit /\ [][AbsNext]_absVars

AbsFairness ==
    \A f \in Fetches :
        /\ WF_absVars(\E c \in Connections : Forward(f, c))
        /\ WF_absVars(Settle(f))

AbsFairSpec == AbsSpec /\ AbsFairness
=============================================================================
