--------------------------- MODULE NetworkManager ---------------------------
(***************************************************************************)
(* The network manager and its handle (crates/network/src/manager.rs and   *)
(* handle.rs): a task that takes requests from a channel, forwards each to *)
(* the next open connection in rotation, and keeps those it cannot forward *)
(* until a connection is established.                                      *)
(*                                                                         *)
(* One iteration of the loop in poll takes a step or two, because senders  *)
(* and connections run concurrently.  A channel wakes the task only if the *)
(* task has polled it since the last wake-up and found it empty: that      *)
(* registers the waker.                                                    *)
(***************************************************************************)
EXTENDS Naturals, Sequences, FiniteSets

CONSTANTS
    Fetches,        \* the concurrent calls of fetch_headers, fetch_block_bodies, fetch_proof
    Connections,    \* the connections to peers that may ever be made
    Exceeded,       \* the event of a peer refused for want of a free connection
    MaxActive,      \* max_active_connections
    MaxRefused      \* bound on the number of refused peers

ASSUME NetworkAssumption ==
    /\ Exceeded \notin Connections
    /\ Connections \cap {"manager", "nobody"} = {}
    /\ MaxActive \in Nat
    /\ MaxRefused \in Nat

VARIABLES
    fetching,           \* the calls that wait for their answer
    peer_requests,      \* channel from the handle: the calls whose request is in it
    protocol_events,    \* channel from the protocol: established connections and refusals
    connections,        \* the connections in rotation
    pending_requests,   \* requests that no connection took
    conn,               \* conn[c]: whether connection c is new, open or closed
    to_connection,      \* to_connection[c]: the requests c has received and not answered
    requests_waker,     \* whether a request would wake the task
    events_waker,       \* whether an event would wake the task
    pc,                 \* where the task is: asleep, or which channel it polls next
    woken,              \* whether the task is to run (again) after it returns
    refused             \* number of refused peers

managerVars == <<connections, pending_requests>>
taskVars == <<requests_waker, events_waker, pc, woken>>
vars == <<fetching, peer_requests, protocol_events, managerVars, conn, to_connection, taskVars, refused>>

Items(s) == {s[i] : i \in DOMAIN s}

Init ==
    /\ fetching = {}
    /\ peer_requests = <<>>
    /\ protocol_events = <<>>
    /\ connections = <<>>
    /\ pending_requests = <<>>
    /\ conn = [c \in Connections |-> "new"]
    /\ to_connection = [c \in Connections |-> {}]
    /\ requests_waker = FALSE
    /\ events_waker = FALSE
    /\ pc = "asleep"
    /\ woken = TRUE
    /\ refused = 0

-----------------------------------------------------------------------------
(* The handle.                                                             *)

Stopped == pc = "stopped"

\* Once the manager is gone the call fails at once (ConnectionClosed).
Fetch(f) ==
    /\ ~Stopped
    /\ f \notin fetching
    /\ fetching' = fetching \cup {f}
    /\ peer_requests' = Append(peer_requests, f)
    /\ woken' = (woken \/ requests_waker)
    /\ requests_waker' = FALSE
    /\ UNCHANGED <<protocol_events, managerVars, conn, to_connection, events_waker, pc, refused>>

-----------------------------------------------------------------------------
(* The protocol and its connections.                                       *)

Active == {c \in Connections : conn[c] = "open"}

\* An event is sent to the manager; nobody listens once it is gone.
Notify(event) ==
    /\ protocol_events' = IF Stopped THEN protocol_events ELSE Append(protocol_events, event)
    /\ woken' = (woken \/ events_waker)
    /\ events_waker' = FALSE
    /\ UNCHANGED <<fetching, peer_requests, managerVars, to_connection, requests_waker, pc>>

Establish(c) ==
    /\ conn[c] = "new"
    /\ Cardinality(Active) < MaxActive
    /\ conn' = [conn EXCEPT ![c] = "open"]
    /\ Notify(c)
    /\ UNCHANGED refused

Refuse ==
    /\ Cardinality(Active) >= MaxActive
    /\ refused < MaxRefused
    /\ refused' = refused + 1
    /\ Notify(Exceeded)
    /\ UNCHANGED conn

Answer(f) ==
    /\ \E c \in Active :
          /\ f \in to_connection[c]
          /\ to_connection' = [to_connection EXCEPT ![c] = @ \ {f}]
    /\ fetching' = fetching \ {f}
    /\ UNCHANGED <<peer_requests, protocol_events, managerVars, conn, taskVars, refused>>

\* The calls whose request the connection still has get RequestDropped.
Close(c) ==
    /\ conn[c] = "open"
    /\ conn' = [conn EXCEPT ![c] = "closed"]
    /\ to_connection' = [to_connection EXCEPT ![c] = {}]
    /\ fetching' = fetching \ to_connection[c]
    /\ UNCHANGED <<peer_requests, protocol_events, managerVars, taskVars, refused>>

-----------------------------------------------------------------------------
(* RessNetworkManager::on_peer_request: drop closed connections from the   *)
(* front, send to the first open one and move it to the back.  Without an  *)
(* open connection the request goes to the end of the pending ones.        *)

\* Faulty variant: the connection is not put back into the rotation.
OnPeerRequestUsedUp(f, pending) ==
    \/ \E i \in DOMAIN connections :
          /\ conn[connections[i]] = "open"
          /\ \A j \in 1..(i - 1) : conn[connections[j]] # "open"
          /\ connections' = SubSeq(connections, i + 1, Len(connections))
          /\ to_connection' = [to_connection EXCEPT ![connections[i]] = @ \cup {f}]
          /\ pending_requests' = pending
    \/ /\ \A i \in DOMAIN connections : conn[connections[i]] # "open"
       /\ connections' = <<>>
       /\ pending_requests' = Append(pending, f)
       /\ UNCHANGED to_connection

\* Faulty variant: a request that a closed connection refuses is forgotten.
OnPeerRequestForgotten(f, pending) ==
    /\ connections # <<>>
    /\ connections' = IF conn[Head(connections)] = "open"
                      THEN Append(Tail(connections), Head(connections)) ELSE Tail(connections)
    /\ to_connection' = IF conn[Head(connections)] = "open"
                        THEN [to_connection EXCEPT ![Head(connections)] = @ \cup {f}]
                        ELSE to_connection
    /\ pending_requests' = pending

OnPeerRequest(f, pending) ==
    \/ \E i \in DOMAIN connections :
          /\ conn[connections[i]] = "open"
          /\ \A j \in 1..(i - 1) : conn[connections[j]] # "open"
          /\ connections' = Append(SubSeq(connections, i + 1, Len(connections)), connections[i])
          /\ to_connection' = [to_connection EXCEPT ![connections[i]] = @ \cup {f}]
          /\ pending_requests' = pending
    \/ /\ \A i \in DOMAIN connections : conn[connections[i]] # "open"
       /\ connections' = <<>>
       /\ pending_requests' = Append(pending, f)
       /\ UNCHANGED to_connection

-----------------------------------------------------------------------------
(* RessNetworkManager::poll.                                               *)

Run ==
    /\ pc = "asleep"
    /\ woken
    /\ pc' = "events"
    /\ woken' = FALSE
    /\ UNCHANGED <<fetching, peer_requests, protocol_events, managerVars, conn, to_connection,
                   requests_waker, events_waker, refused>>

\* Faulty variant: the last pending request is not seen.
HasWorkButOne == connections # <<>> /\ Len(pending_requests) > 1

HasWork == connections # <<>> /\ pending_requests # <<>>

RetryPending ==
    /\ pc = "events"
    /\ HasWork
    /\ OnPeerRequest(Head(pending_requests), Tail(pending_requests))
    /\ UNCHANGED <<fetching, peer_requests, protocol_events, conn, taskVars, refused>>

PollEvents ==
    /\ pc = "events"
    /\ ~HasWork
    /\ UNCHANGED <<fetching, peer_requests, conn, pending_requests, to_connection, requests_waker,
                   woken, refused>>

OnEstablished ==
    /\ PollEvents
    /\ protocol_events # <<>>
    /\ Head(protocol_events) # Exceeded
    /\ connections' = Append(connections, Head(protocol_events))
    /\ protocol_events' = Tail(protocol_events)
    /\ UNCHANGED <<pc, events_waker>>

\* Any other event is taken from the channel, and the task goes on without
\* having registered its waker.
OnOtherEvent ==
    /\ PollEvents
    /\ protocol_events # <<>>
    /\ Head(protocol_events) = Exceeded
    /\ protocol_events' = Tail(protocol_events)
    /\ pc' = "requests"
    /\ UNCHANGED <<connections, events_waker>>

\* Faulty variant: the waker is registered only once the first connection is
\* known.
NoEventUnconnected ==
    /\ PollEvents
    /\ protocol_events = <<>>
    /\ events_waker' = (connections # <<>>)
    /\ pc' = "requests"
    /\ UNCHANGED <<protocol_events, connections>>

NoEvent ==
    /\ PollEvents
    /\ protocol_events = <<>>
    /\ events_waker' = TRUE
    /\ pc' = "requests"
    /\ UNCHANGED <<protocol_events, connections>>

OnRequest ==
    /\ pc = "requests"
    /\ peer_requests # <<>>
    /\ OnPeerRequest(Head(peer_requests), pending_requests)
    /\ peer_requests' = Tail(peer_requests)
    /\ pc' = "events"
    /\ UNCHANGED <<fetching, protocol_events, conn, requests_waker, events_waker, woken, refused>>

\* poll returns Pending.
NoRequest ==
    /\ pc = "requests"
    /\ peer_requests = <<>>
    /\ requests_waker' = TRUE
    /\ pc' = "asleep"
    /\ UNCHANGED <<fetching, peer_requests, protocol_events, managerVars, conn, to_connection,
                   events_waker, woken, refused>>

\* The node shuts down: the task is dropped with everything it holds.
Shutdown ==
    /\ ~Stopped
    /\ pc' = "stopped"
    /\ fetching' = fetching \ (Items(peer_requests) \cup Items(pending_requests))
    /\ peer_requests' = <<>>
    /\ protocol_events' = <<>>
    /\ connections' = <<>>
    /\ pending_requests' = <<>>
    /\ UNCHANGED <<conn, to_connection, requests_waker, events_waker, woken, refused>>

-----------------------------------------------------------------------------
Poll ==
    \/ Run \/ RetryPending \/ OnEstablished \/ OnOtherEvent \/ NoEvent \/ OnRequest \/ NoRequest

Next ==
    \/ Poll
    \/ \E f \in Fetches : Fetch(f) \/ Answer(f)
    \/ \E c \in Connections : Establish(c) \/ Close(c)
    \/ Refuse
    \/ Shutdown

Spec == Init /\ [][Next]_vars

\* The runtime polls a task that is awake, and a connection answers every
\* request or closes.
FairSpec == Spec /\ WF_vars(Poll) /\ \A f \in Fetches : WF_vars(Answer(f))

-----------------------------------------------------------------------------
Distinct(s) == \A i, j \in DOMAIN s : s[i] = s[j] => i = j

\* Every call that waits has its request in exactly one place: the channel,
\* the pending requests or one open connection.  No request is lost while
\* connections close under it, and none is sent twice.
RequestsConserved ==
    /\ Distinct(peer_requests)
    /\ Distinct(pending_requests)
    /\ Items(peer_requests) \cap Items(pending_requests) = {}
    /\ \A c \in Connections :
          /\ to_connection[c] \cap (Items(peer_requests) \cup Items(pending_requests)) = {}
          /\ \A d \in Connections \ {c} : to_connection[c] \cap to_connection[d] = {}
          /\ to_connection[c] # {} => conn[c] = "open"
    /\ fetching = Items(peer_requests) \cup Items(pending_requests)
                  \cup UNION {to_connection[c] : c \in Connections}

\* An open connection is known to the manager exactly once, or its event is
\* on the way: a connection never leaves the rotation before it closes.
OpenConnectionsKept ==
    ~Stopped =>
        /\ Distinct(connections)
        /\ \A c \in Active : c \in Items(connections) \cup Items(protocol_events)
        /\ Items(connections) \cap Items(protocol_events) = {}

\* A task that sleeps has nothing to do, no request that a connection in the
\* rotation could take either, and is woken by whatever comes next; only a
\* refused peer may have left it deaf to events.
NoLostWakeup ==
    pc = "asleep" /\ ~woken =>
        /\ connections = <<>> \/ pending_requests = <<>>
        /\ peer_requests = <<>> /\ requests_waker
        /\ refused = 0 => protocol_events = <<>> /\ events_waker

\* A request does not wait for ever while some connection stays open.
ConnectedRequestsEnd ==
    \A c \in Connections :
        <>[](conn[c] = "open") => \A f \in Fetches : []<>(f \notin fetching)

-----------------------------------------------------------------------------
(* The manager implements PeerRequests.                                    *)

Holder ==
    [f \in Fetches |->
        IF \E c \in Connections : f \in to_connection[c]
        THEN CHOOSE c \in Connections : f \in to_connection[c]
        ELSE IF f \in fetching THEN "manager" ELSE "nobody"]

Abstract == INSTANCE PeerRequests WITH holder <- Holder, available <- Active

\* Every step of the handle, the manager and the connections is a step of
\* PeerRequests: requests only move from the manager to one open connection,
\* and end there.  As long as no peer is refused, the manager also forwards a
\* request while some connection is open: no wake-up is missed that matters.
ImplementsPeerRequests ==
    /\ Abstract!AbsSpec
    /\ [](refused = 0) => Abstract!AbsFairness
=============================================================================
