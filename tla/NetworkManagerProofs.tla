------------------------ MODULE NetworkManagerProofs ------------------------
(***************************************************************************)
(* Proofs about the network manager, for any number of concurrent fetches, *)
(* connections and refused peers: requests are conserved, open connections *)
(* stay in the rotation, no wake-up is missed, and the manager implements  *)
(* the safety part of PeerRequests.                                        *)
(***************************************************************************)
EXTENDS NetworkManager, SequenceTheorems, TLAPS

-----------------------------------------------------------------------------
(* Channels and queues.                                                    *)

\* Sending into a channel, or push_back, adds one item.
LEMMA AppendItems ==
    ASSUME NEW T, NEW s \in Seq(T), NEW x \in T
    PROVE  /\ Append(s, x) \in Seq(T)
           /\ Items(Append(s, x)) = Items(s) \cup {x}
           /\ Distinct(s) /\ x \notin Items(s) => Distinct(Append(s, x))
<1>. DEFINE t == Append(s, x)
<1>1. /\ t \in Seq(T)
      /\ Len(s) \in Nat
      /\ DOMAIN s = 1..Len(s)
      /\ DOMAIN t = 1..(Len(s) + 1)
      /\ \A i \in 1..Len(s) : t[i] = s[i]
      /\ t[Len(s) + 1] = x
  BY AppendProperties, LenProperties
<1>. HIDE DEF t
<1>2. Items(t) = Items(s) \cup {x}
  BY <1>1 DEF Items
<1>3. ASSUME Distinct(s), x \notin Items(s) PROVE Distinct(t)
  BY <1>1, <1>3 DEF Distinct, Items
<1>. QED  BY <1>1, <1>2, <1>3 DEF t

\* Receiving from a channel, or pop_front, takes the first item out.
LEMMA TailItems ==
    ASSUME NEW T, NEW s \in Seq(T), s # <<>>
    PROVE  /\ Head(s) \in T
           /\ Tail(s) \in Seq(T)
           /\ Items(s) = {Head(s)} \cup Items(Tail(s))
           /\ Distinct(s) => Distinct(Tail(s)) /\ Head(s) \notin Items(Tail(s))
<1>. DEFINE t == Tail(s)
<1>1. /\ t \in Seq(T)
      /\ Len(s) \in Nat \ {0}
      /\ DOMAIN s = 1..Len(s)
      /\ DOMAIN t = 1..(Len(s) - 1)
      /\ \A i \in 1..(Len(s) - 1) : t[i] = s[i + 1]
      /\ Head(s) = s[1]
      /\ Head(s) \in T
  BY HeadTailProperties, LenProperties, EmptySeq
<1>. HIDE DEF t
<1>2. Items(s) = {Head(s)} \cup Items(t)
  <2>1. \A i \in DOMAIN s : i = 1 \/ (i - 1 \in DOMAIN t /\ t[i - 1] = s[i])
    BY <1>1
  <2>2. \A i \in DOMAIN t : i + 1 \in DOMAIN s /\ t[i] = s[i + 1]
    BY <1>1
  <2>3. 1 \in DOMAIN s
    BY <1>1
  <2>. QED  BY <1>1, <2>1, <2>2, <2>3 DEF Items
<1>3. ASSUME Distinct(s) PROVE Distinct(t) /\ Head(s) \notin Items(t)
  <2>1. \A i \in DOMAIN t : i \in Int /\ i + 1 \in DOMAIN s /\ i + 1 # 1 /\ t[i] = s[i + 1]
    BY <1>1
  <2>2. 1 \in DOMAIN s
    BY <1>1
  <2>3. Distinct(t)
    BY <1>3, <2>1 DEF Distinct
  <2>4. Head(s) \notin Items(t)
    BY <1>1, <1>3, <2>1, <2>2 DEF Distinct, Items
  <2>. QED  BY <2>3, <2>4
<1>. QED  BY <1>1, <1>2, <1>3 DEF t

\* A new queue is empty.
LEMMA EmptyItems == Items(<<>>) = {} /\ Distinct(<<>>) /\ \A T : <<>> \in Seq(T)
  BY DEF Items, Distinct

\* The rotation after on_peer_request used the i-th connection: those before
\* it are gone and it is the last one.
LEMMA RotateItems ==
    ASSUME NEW T, NEW s \in Seq(T), NEW i \in DOMAIN s
    PROVE  LET r == Append(SubSeq(s, i + 1, Len(s)), s[i])
           IN  /\ r \in Seq(T)
               /\ Items(r) = {s[j] : j \in i..Len(s)}
               /\ Distinct(s) => Distinct(r)
<1>. DEFINE m == SubSeq(s, i + 1, Len(s))
<1>1. Len(s) \in Nat /\ DOMAIN s = 1..Len(s) /\ i \in 1..Len(s) /\ s[i] \in T
      /\ \A j \in (i+1)..Len(s) : s[j] \in T
  BY LenProperties
<1>2. /\ m \in Seq(T)
      /\ Len(m) = Len(s) - i
      /\ \A j \in 1..(Len(s) - i) : m[j] = s[i + j]
  <2>1. i + 1 \in Int /\ Len(s) \in Int
    BY <1>1
  <2>2. /\ m \in Seq(T)
        /\ Len(m) = IF i + 1 <= Len(s) THEN Len(s) - (i + 1) + 1 ELSE 0
        /\ \A j \in 1..(Len(s) - (i + 1) + 1) : m[j] = s[(i + 1) + j - 1]
    BY <1>1, <2>1, SubSeqProperties
  <2>. QED  BY <1>1, <2>2
<1>. HIDE DEF m
<1>3. DOMAIN m = 1..(Len(s) - i)
  BY <1>1, <1>2, LenProperties
<1>4. Items(m) = {s[j] : j \in (i + 1)..Len(s)}
  <2>1. ASSUME NEW j \in (i + 1)..Len(s)
        PROVE  j - i \in DOMAIN m /\ m[j - i] = s[j]
    <3>1. j - i \in 1..(Len(s) - i) /\ i + (j - i) = j
      BY <1>1
    <3>. QED  BY <1>2, <1>3, <3>1
  <2>2. \A j \in DOMAIN m : i + j \in (i + 1)..Len(s) /\ m[j] = s[i + j]
    BY <1>1, <1>2, <1>3
  <2>. QED  BY <2>1, <2>2 DEF Items
<1>5. ASSUME Distinct(s) PROVE Distinct(m) /\ s[i] \notin Items(m)
  <2>1. \A j \in DOMAIN m : j \in Int /\ i + j \in DOMAIN s /\ i + j # i /\ m[j] = s[i + j]
    BY <1>1, <1>2, <1>3
  <2>2. Distinct(m)
    BY <1>1, <1>5, <2>1 DEF Distinct
  <2>3. s[i] \notin Items(m)
    BY <1>1, <1>5, <2>1 DEF Distinct, Items
  <2>. QED  BY <2>2, <2>3
<1>6. Append(m, s[i]) \in Seq(T) /\ Items(Append(m, s[i])) = Items(m) \cup {s[i]}
      /\ (Distinct(m) /\ s[i] \notin Items(m) => Distinct(Append(m, s[i])))
  BY <1>1, <1>2, AppendItems
<1>7. Items(m) \cup {s[i]} = {s[j] : j \in i..Len(s)}
  BY <1>1, <1>4
<1>. QED  BY <1>5, <1>6, <1>7 DEF m

-----------------------------------------------------------------------------
(* Type correctness.                                                       *)

NetworkTypeOK ==
    /\ fetching \subseteq Fetches
    /\ peer_requests \in Seq(Fetches)
    /\ protocol_events \in Seq(Connections \cup {Exceeded})
    /\ connections \in Seq(Connections)
    /\ pending_requests \in Seq(Fetches)
    /\ conn \in [Connections -> {"new", "open", "closed"}]
    /\ to_connection \in [Connections -> SUBSET Fetches]
    /\ requests_waker \in BOOLEAN
    /\ events_waker \in BOOLEAN
    /\ pc \in {"asleep", "events", "requests", "stopped"}
    /\ woken \in BOOLEAN
    /\ refused \in Nat

\* What on_peer_request does with a request: an open connection takes it, or
\* it is queued.  Only closed connections leave the rotation.
LEMMA OnPeerRequestEffect ==
    ASSUME NetworkTypeOK, NEW f \in Fetches, NEW pending \in Seq(Fetches), OnPeerRequest(f, pending)
    PROVE  /\ connections' \in Seq(Connections)
           /\ Items(connections') \subseteq Items(connections)
           /\ Distinct(connections) => Distinct(connections')
           /\ \A c \in Items(connections) : conn[c] = "open" => c \in Items(connections')
           /\ \/ \E c \in Active :
                    /\ to_connection' = [to_connection EXCEPT ![c] = @ \cup {f}]
                    /\ pending_requests' = pending
              \/ /\ UNCHANGED to_connection
                 /\ pending_requests' = Append(pending, f)
                 /\ connections' = <<>>
<1>0. /\ connections \in Seq(Connections)
      /\ Len(connections) \in Nat
      /\ DOMAIN connections = 1..Len(connections)
  BY LenProperties DEF NetworkTypeOK
<1>1. ASSUME NEW i \in DOMAIN connections,
             conn[connections[i]] = "open",
             \A j \in 1..(i - 1) : conn[connections[j]] # "open",
             connections' = Append(SubSeq(connections, i + 1, Len(connections)), connections[i]),
             to_connection' = [to_connection EXCEPT ![connections[i]] = @ \cup {f}],
             pending_requests' = pending
      PROVE  /\ connections' \in Seq(Connections)
             /\ Items(connections') \subseteq Items(connections)
             /\ Distinct(connections) => Distinct(connections')
             /\ \A c \in Items(connections) : conn[c] = "open" => c \in Items(connections')
             /\ connections[i] \in Active
  <2>1. /\ connections' \in Seq(Connections)
        /\ Items(connections') = {connections[j] : j \in i..Len(connections)}
        /\ Distinct(connections) => Distinct(connections')
    BY <1>0, <1>1, RotateItems
  <2>2. connections[i] \in Active
    BY <1>0, <1>1 DEF Active
  <2>3. \A j \in DOMAIN connections : j \in 1..(i - 1) \/ j \in i..Len(connections)
    BY <1>0
  <2>4. Items(connections') \subseteq Items(connections)
    <3>1. \A j \in i..Len(connections) : j \in DOMAIN connections
      BY <1>0
    <3>. QED  BY <2>1, <3>1 DEF Items
  <2>5. ASSUME NEW c \in Items(connections), conn[c] = "open"
        PROVE  c \in Items(connections')
    <3>1. PICK j \in DOMAIN connections : c = connections[j]
      BY DEF Items
    <3>2. j \in i..Len(connections)
      BY <1>1, <2>3, <2>5, <3>1
    <3>. QED  BY <2>1, <3>1, <3>2
  <2>. QED  BY <2>1, <2>2, <2>4, <2>5
<1>2. CASE /\ \A i \in DOMAIN connections : conn[connections[i]] # "open"
           /\ connections' = <<>>
           /\ pending_requests' = Append(pending, f)
           /\ UNCHANGED to_connection
  BY <1>2, EmptyItems DEF Items
<1>. QED  BY <1>1, <1>2 DEF OnPeerRequest

\* Every step of the handle, the protocol and the manager keeps the types.
LEMMA NetworkTypeStep ==
    ASSUME NetworkTypeOK, [Next]_vars
    PROVE  NetworkTypeOK'
<1>1. ASSUME NEW f \in Fetches, Fetch(f) PROVE NetworkTypeOK'
  BY <1>1, AppendItems DEF Fetch, NetworkTypeOK, managerVars
<1>2. ASSUME NEW f \in Fetches, Answer(f) PROVE NetworkTypeOK'
  BY <1>2 DEF Answer, NetworkTypeOK, managerVars, taskVars
<1>3. ASSUME NEW c \in Connections \cup {Exceeded}, Notify(c)
      PROVE  /\ protocol_events' \in Seq(Connections \cup {Exceeded})
             /\ woken' \in BOOLEAN /\ events_waker' \in BOOLEAN
  BY <1>3, AppendItems DEF Notify, NetworkTypeOK
<1>4. ASSUME NEW c \in Connections, Establish(c) PROVE NetworkTypeOK'
  BY <1>3, <1>4 DEF Establish, Notify, NetworkTypeOK, managerVars
<1>5. CASE Refuse
  <2>1. refused' \in Nat /\ Notify(Exceeded) /\ UNCHANGED conn
    BY <1>5 DEF Refuse, NetworkTypeOK
  <2>. QED  BY <1>3, <2>1 DEF Notify, NetworkTypeOK, managerVars
<1>6. ASSUME NEW c \in Connections, Close(c) PROVE NetworkTypeOK'
  BY <1>6 DEF Close, NetworkTypeOK, managerVars, taskVars
<1>7. CASE Run \/ NoRequest
  BY <1>7 DEF Run, NoRequest, NetworkTypeOK, managerVars
<1>8. ASSUME NEW f \in Fetches, NEW pending \in Seq(Fetches), OnPeerRequest(f, pending)
      PROVE  /\ connections' \in Seq(Connections)
             /\ pending_requests' \in Seq(Fetches)
             /\ to_connection' \in [Connections -> SUBSET Fetches]
  <2>1. Append(pending, f) \in Seq(Fetches)
    BY AppendItems
  <2>2. connections' \in Seq(Connections)
    BY <1>8, OnPeerRequestEffect
  <2>3. CASE /\ UNCHANGED to_connection
             /\ pending_requests' = Append(pending, f)
    BY <2>1, <2>2, <2>3 DEF NetworkTypeOK
  <2>4. ASSUME NEW c \in Active,
               to_connection' = [to_connection EXCEPT ![c] = @ \cup {f}],
               pending_requests' = pending
        PROVE  to_connection' \in [Connections -> SUBSET Fetches] /\ pending_requests' \in Seq(Fetches)
    BY <2>4 DEF NetworkTypeOK, Active
  <2>. QED  BY <1>8, <2>2, <2>3, <2>4, OnPeerRequestEffect
<1>9. CASE RetryPending
  <2>1. Head(pending_requests) \in Fetches /\ Tail(pending_requests) \in Seq(Fetches)
    BY <1>9, TailItems DEF RetryPending, HasWork, NetworkTypeOK
  <2>. QED  BY <1>8, <1>9, <2>1 DEF RetryPending, NetworkTypeOK, taskVars
<1>10. CASE OnRequest
  <2>1. Head(peer_requests) \in Fetches /\ Tail(peer_requests) \in Seq(Fetches)
    BY <1>10, TailItems DEF OnRequest, NetworkTypeOK
  <2>. QED  BY <1>8, <1>10, <2>1 DEF OnRequest, NetworkTypeOK
<1>11. CASE OnEstablished
  <2>1. /\ Head(protocol_events) \in Connections
        /\ Tail(protocol_events) \in Seq(Connections \cup {Exceeded})
    BY <1>11, TailItems DEF OnEstablished, NetworkTypeOK
  <2>2. Append(connections, Head(protocol_events)) \in Seq(Connections)
    BY <2>1, AppendItems DEF NetworkTypeOK
  <2>. QED  BY <1>11, <2>1, <2>2 DEF OnEstablished, PollEvents, NetworkTypeOK
<1>12. CASE OnOtherEvent
  <2>1. Tail(protocol_events) \in Seq(Connections \cup {Exceeded})
    BY <1>12, TailItems DEF OnOtherEvent, NetworkTypeOK
  <2>. QED  BY <1>12, <2>1 DEF OnOtherEvent, PollEvents, NetworkTypeOK
<1>13. CASE NoEvent
  BY <1>13 DEF NoEvent, PollEvents, NetworkTypeOK
<1>14. CASE Shutdown
  BY <1>14, EmptyItems DEF Shutdown, NetworkTypeOK
<1>15. CASE UNCHANGED vars
  BY <1>15 DEF vars, managerVars, taskVars, NetworkTypeOK
<1>. QED
  BY <1>1, <1>2, <1>4, <1>5, <1>6, <1>7, <1>9, <1>10, <1>11, <1>12, <1>13, <1>14, <1>15
     DEF Next, Poll

\* Init and the steps together: the types hold in every state.
THEOREM NetworkTypeCorrect == Spec => []NetworkTypeOK
<1>1. Init => NetworkTypeOK
  <2>1. <<>> \in Seq(Fetches) /\ <<>> \in Seq(Connections) /\ <<>> \in Seq(Connections \cup {Exceeded})
    BY EmptyItems
  <2>2. [c \in Connections |-> "new"] \in [Connections -> {"new", "open", "closed"}]
    OBVIOUS
  <2>3. [c \in Connections |-> {}] \in [Connections -> SUBSET Fetches]
    OBVIOUS
  <2>. SUFFICES ASSUME Init PROVE NetworkTypeOK
    OBVIOUS
  <2>4. /\ fetching \subseteq Fetches
        /\ peer_requests \in Seq(Fetches)
        /\ protocol_events \in Seq(Connections \cup {Exceeded})
        /\ connections \in Seq(Connections)
        /\ pending_requests \in Seq(Fetches)
        /\ conn \in [Connections -> {"new", "open", "closed"}]
        /\ to_connection \in [Connections -> SUBSET Fetches]
    BY <2>1, <2>2, <2>3, Zenon DEF Init
  <2>5. requests_waker \in BOOLEAN /\ events_waker \in BOOLEAN /\ woken \in BOOLEAN
    BY DEF Init
  <2>6. pc \in {"asleep", "events", "requests", "stopped"} /\ refused \in Nat
    BY DEF Init
  <2>. QED  BY <2>4, <2>5, <2>6 DEF NetworkTypeOK
<1>2. NetworkTypeOK /\ [Next]_vars => NetworkTypeOK'
  BY NetworkTypeStep
<1>. QED  BY <1>1, <1>2, PTL DEF Spec

-----------------------------------------------------------------------------
(* Requests are conserved.                                                 *)

\* The requests that the connections hold, each at most once.
Held == UNION {to_connection[c] : c \in Connections}

\* A request that no connection holds is handed to an open one.
LEMMA ForwardConserves ==
    ASSUME NetworkTypeOK, RequestsConserved, NEW f \in Fetches, NEW c \in Active,
           f \notin Held, to_connection' = [to_connection EXCEPT ![c] = @ \cup {f}]
    PROVE  /\ Held' = Held \cup {f}
           /\ \A d \in Connections : \A e \in Connections \ {d} : to_connection'[d] \cap to_connection'[e] = {}
           /\ \A d \in Connections : to_connection'[d] # {} => conn[d] = "open"
<1>1. c \in Connections /\ conn[c] = "open" /\ to_connection \in [Connections -> SUBSET Fetches]
  BY DEF Active, NetworkTypeOK
<1>2. \A d \in Connections : to_connection'[d] = IF d = c THEN to_connection[c] \cup {f} ELSE to_connection[d]
  BY <1>1
<1>3. \A d \in Connections : f \notin to_connection[d]
  BY DEF Held
<1>4. Held' = Held \cup {f}
  BY <1>1, <1>2 DEF Held
<1>. QED  BY <1>1, <1>2, <1>3, <1>4 DEF RequestsConserved

\* on_peer_request moves a request that is in no other place, so each stays in
\* exactly one.
LEMMA OnPeerRequestConserves ==
    ASSUME NetworkTypeOK, RequestsConserved, NEW f \in Fetches, NEW pending \in Seq(Fetches),
           NEW rest \in Seq(Fetches),
           OnPeerRequest(f, pending), peer_requests' = rest, UNCHANGED <<fetching, conn>>,
           Distinct(pending), Distinct(rest), Items(rest) \cap Items(pending) = {},
           f \notin Items(pending) \cup Items(rest),
           Items(peer_requests) \cup Items(pending_requests) = Items(pending) \cup Items(rest) \cup {f}
    PROVE  RequestsConserved'
<1>. DEFINE queued == Items(peer_requests) \cup Items(pending_requests)
<1>1. f \notin Held /\ Held \cap queued = {} /\ fetching = queued \cup Held
  BY DEF Held, RequestsConserved
<1>2. \A d \in Connections : to_connection[d] \cap queued = {}
  BY DEF RequestsConserved
<1>3. CASE UNCHANGED to_connection /\ pending_requests' = Append(pending, f)
  <2>1. Items(pending_requests') = Items(pending) \cup {f} /\ Distinct(pending_requests')
    BY <1>3, AppendItems
  <2>. QED  BY <1>1, <1>2, <1>3, <2>1 DEF RequestsConserved, Held
<1>4. ASSUME NEW c \in Active,
             to_connection' = [to_connection EXCEPT ![c] = @ \cup {f}],
             pending_requests' = pending
      PROVE  RequestsConserved'
  <2>1. /\ Held' = Held \cup {f}
        /\ \A d \in Connections : \A e \in Connections \ {d} : to_connection'[d] \cap to_connection'[e] = {}
        /\ \A d \in Connections : to_connection'[d] # {} => conn[d] = "open"
    BY <1>1, <1>4, ForwardConserves
  <2>2. \A d \in Connections : to_connection'[d] \subseteq to_connection[d] \cup {f}
    BY <1>4 DEF NetworkTypeOK, Active
  <2>3. \A d \in Connections :
           to_connection'[d] \cap (Items(peer_requests') \cup Items(pending_requests')) = {}
    BY <1>2, <1>4, <2>2
  <2>4. fetching' = Items(peer_requests') \cup Items(pending_requests') \cup Held'
    BY <1>1, <1>4, <2>1
  <2>. QED  BY <1>4, <2>1, <2>3, <2>4 DEF RequestsConserved, Held
<1>. QED  BY <1>3, <1>4, OnPeerRequestEffect

\* Every step conserves the requests.
LEMMA ConservationStep ==
    ASSUME NetworkTypeOK, RequestsConserved, [Next]_vars
    PROVE  RequestsConserved'
<1>0. /\ peer_requests \in Seq(Fetches)
      /\ pending_requests \in Seq(Fetches)
      /\ to_connection \in [Connections -> SUBSET Fetches]
  BY DEF NetworkTypeOK
<1>1. ASSUME NEW f \in Fetches, Fetch(f) PROVE RequestsConserved'
  <2>1. f \notin Items(peer_requests) \cup Items(pending_requests) \cup Held
    BY <1>1 DEF Fetch, RequestsConserved, Held
  <2>2. Items(peer_requests') = Items(peer_requests) \cup {f} /\ Distinct(peer_requests')
    BY <1>0, <1>1, <2>1, AppendItems DEF Fetch, RequestsConserved
  <2>3. UNCHANGED <<pending_requests, conn, to_connection>> /\ fetching' = fetching \cup {f}
    BY <1>1 DEF Fetch, managerVars
  <2>. QED  BY <2>1, <2>2, <2>3 DEF RequestsConserved, Held
<1>2. ASSUME NEW f \in Fetches, Answer(f) PROVE RequestsConserved'
  <2>1. PICK c \in Active : /\ f \in to_connection[c]
                            /\ to_connection' = [to_connection EXCEPT ![c] = @ \ {f}]
    BY <1>2 DEF Answer
  <2>2. c \in Connections
    BY DEF Active
  <2>3. \A d \in Connections : to_connection'[d] = to_connection[d] \ {f}
    BY <1>0, <2>1, <2>2 DEF RequestsConserved
  <2>4. Held' = Held \ {f}
    BY <2>3 DEF Held
  <2>5. f \notin Items(peer_requests) \cup Items(pending_requests)
    BY <2>1, <2>2 DEF RequestsConserved
  <2>6. UNCHANGED <<peer_requests, pending_requests, conn>> /\ fetching' = fetching \ {f}
    BY <1>2 DEF Answer, managerVars
  <2>7. fetching' = Items(peer_requests') \cup Items(pending_requests') \cup Held'
    BY <2>4, <2>5, <2>6 DEF RequestsConserved, Held
  <2>. QED  BY <2>3, <2>6, <2>7 DEF RequestsConserved, Held
<1>3. ASSUME NEW c \in Connections, Close(c) PROVE RequestsConserved'
  <2>1. \A d \in Connections : /\ to_connection'[d] = to_connection[d] \ to_connection[c]
                               /\ d # c => conn'[d] = conn[d]
    BY <1>0, <1>3 DEF Close, RequestsConserved, NetworkTypeOK
  <2>2. to_connection'[c] = {}
    BY <2>1
  <2>3. Held' = Held \ to_connection[c]
    BY <2>1 DEF Held
  <2>4. to_connection[c] \cap (Items(peer_requests) \cup Items(pending_requests)) = {}
    BY DEF RequestsConserved
  <2>5. UNCHANGED <<peer_requests, pending_requests>> /\ fetching' = fetching \ to_connection[c]
    BY <1>3 DEF Close, managerVars
  <2>6. fetching' = Items(peer_requests') \cup Items(pending_requests') \cup Held'
    BY <2>3, <2>4, <2>5 DEF RequestsConserved, Held
  <2>. QED  BY <2>1, <2>2, <2>5, <2>6 DEF RequestsConserved, Held
<1>4. CASE RetryPending
  <2>1. /\ Head(pending_requests) \in Fetches
        /\ Tail(pending_requests) \in Seq(Fetches)
        /\ Items(pending_requests) = {Head(pending_requests)} \cup Items(Tail(pending_requests))
        /\ Distinct(Tail(pending_requests))
        /\ Head(pending_requests) \notin Items(Tail(pending_requests))
    BY <1>0, <1>4, TailItems DEF RetryPending, HasWork, RequestsConserved
  <2>2. /\ OnPeerRequest(Head(pending_requests), Tail(pending_requests))
        /\ peer_requests' = peer_requests
        /\ UNCHANGED <<fetching, conn>>
    BY <1>4 DEF RetryPending
  <2>3. Distinct(peer_requests) /\ Items(peer_requests) \cap Items(pending_requests) = {}
    BY DEF RequestsConserved
  <2>. QED  BY <1>0, <2>1, <2>2, <2>3, OnPeerRequestConserves
<1>5. CASE OnRequest
  <2>1. /\ Head(peer_requests) \in Fetches
        /\ Tail(peer_requests) \in Seq(Fetches)
        /\ Items(peer_requests) = {Head(peer_requests)} \cup Items(Tail(peer_requests))
        /\ Distinct(Tail(peer_requests))
        /\ Head(peer_requests) \notin Items(Tail(peer_requests))
    BY <1>0, <1>5, TailItems DEF OnRequest, RequestsConserved
  <2>2. /\ OnPeerRequest(Head(peer_requests), pending_requests)
        /\ peer_requests' = Tail(peer_requests)
        /\ UNCHANGED <<fetching, conn>>
    BY <1>5 DEF OnRequest
  <2>3. Distinct(pending_requests) /\ Items(peer_requests) \cap Items(pending_requests) = {}
    BY DEF RequestsConserved
  <2>. QED  BY <1>0, <2>1, <2>2, <2>3, OnPeerRequestConserves
<1>6. CASE Shutdown
  <2>1. /\ Items(peer_requests') = {} /\ Distinct(peer_requests')
        /\ Items(pending_requests') = {} /\ Distinct(pending_requests')
        /\ UNCHANGED <<conn, to_connection>>
        /\ fetching' = fetching \ (Items(peer_requests) \cup Items(pending_requests))
    BY <1>6, EmptyItems DEF Shutdown
  <2>2. Held \cap (Items(peer_requests) \cup Items(pending_requests)) = {}
    BY DEF RequestsConserved, Held
  <2>3. fetching' = Held
    BY <2>1, <2>2 DEF RequestsConserved, Held
  <2>. QED  BY <2>1, <2>3 DEF RequestsConserved, Held
<1>7. ASSUME NEW c \in Connections, Establish(c) PROVE RequestsConserved'
  <2>1. /\ UNCHANGED <<fetching, peer_requests, pending_requests, to_connection>>
        /\ \A d \in Connections : conn[d] = "open" => conn'[d] = "open"
    BY <1>7 DEF Establish, Notify, managerVars, NetworkTypeOK
  <2>. QED  BY <2>1 DEF RequestsConserved
<1>8. CASE UNCHANGED <<fetching, peer_requests, pending_requests, conn, to_connection>>
  BY <1>8 DEF RequestsConserved
<1>9. \/ UNCHANGED <<fetching, peer_requests, pending_requests, conn, to_connection>>
      \/ \E f \in Fetches : Fetch(f) \/ Answer(f)
      \/ \E c \in Connections : Establish(c) \/ Close(c)
      \/ RetryPending \/ OnRequest \/ Shutdown
  BY DEF Next, Poll, vars, managerVars, taskVars, Run, NoRequest, OnEstablished, OnOtherEvent,
         NoEvent, PollEvents, Refuse, Notify
<1>. QED  BY <1>1, <1>2, <1>3, <1>4, <1>5, <1>6, <1>7, <1>8, <1>9

\* Whatever connections open, close and are refused, and however many calls
\* are made at the same time, every call that waits has its request in exactly
\* one place.
THEOREM RequestsStayConserved == Spec => []RequestsConserved
<1>1. Init => RequestsConserved
  BY EmptyItems DEF Init, RequestsConserved
<1>2. NetworkTypeOK /\ RequestsConserved /\ [Next]_vars => RequestsConserved'
  BY ConservationStep
<1>. QED  BY <1>1, <1>2, NetworkTypeCorrect, PTL DEF Spec

-----------------------------------------------------------------------------
(* Open connections stay in the rotation.                                  *)

\* No connection is announced twice.
AnnouncedOnce ==
    \A i, j \in DOMAIN protocol_events :
        protocol_events[i] = protocol_events[j] /\ protocol_events[i] # Exceeded => i = j

\* The inductive invariant: besides the property, a connection is announced
\* once, and not before it is made.
ConnectionsInv ==
    /\ OpenConnectionsKept
    /\ ~Stopped =>
          /\ AnnouncedOnce
          /\ \A c \in Connections :
                conn[c] = "new" => c \notin Items(connections) \cup Items(protocol_events)

\* Sending an event to the manager.
LEMMA NotifyConnections ==
    ASSUME NetworkTypeOK, ConnectionsInv, NEW event \in Connections \cup {Exceeded}, Notify(event),
           ~Stopped, event \in Connections => event \notin Items(connections) \cup Items(protocol_events)
    PROVE  /\ Items(protocol_events') = Items(protocol_events) \cup {event}
           /\ AnnouncedOnce'
           /\ UNCHANGED <<connections, pc>>
<1>. DEFINE s == protocol_events
            t == protocol_events'
<1>1. t = Append(s, event) /\ UNCHANGED <<connections, pc>> /\ s \in Seq(Connections \cup {Exceeded})
  BY DEF Notify, managerVars, NetworkTypeOK
<1>2. /\ Len(s) \in Nat
      /\ DOMAIN s = 1..Len(s)
      /\ DOMAIN t = 1..(Len(s) + 1)
      /\ \A i \in 1..Len(s) : t[i] = s[i]
      /\ t[Len(s) + 1] = event
  BY <1>1, AppendProperties, LenProperties
<1>3. Items(t) = Items(s) \cup {event}
  BY <1>1, AppendItems
<1>4. \A i \in DOMAIN s : s[i] = event => event = Exceeded
  BY DEF Items
<1>5. AnnouncedOnce
  BY DEF ConnectionsInv
<1>6. \A i \in DOMAIN t : i \in DOMAIN s \/ i = Len(s) + 1
  BY <1>2
<1>. HIDE DEF s, t
<1>7. \A i, j \in DOMAIN t : t[i] = t[j] /\ t[i] # Exceeded => i = j
  BY <1>2, <1>4, <1>5, <1>6 DEF AnnouncedOnce, s
<1>. QED  BY <1>1, <1>3, <1>7 DEF AnnouncedOnce, s, t

\* Taking the first event from the channel.
LEMMA ReceiveConnections ==
    ASSUME NetworkTypeOK, AnnouncedOnce, protocol_events # <<>>,
           protocol_events' = Tail(protocol_events)
    PROVE  /\ Items(protocol_events) = {Head(protocol_events)} \cup Items(protocol_events')
           /\ Head(protocol_events) # Exceeded => Head(protocol_events) \notin Items(protocol_events')
           /\ AnnouncedOnce'
<1>. DEFINE s == protocol_events
            t == protocol_events'
<1>0. s \in Seq(Connections \cup {Exceeded})
  BY DEF NetworkTypeOK
<1>1. /\ Len(s) \in Nat \ {0}
      /\ DOMAIN s = 1..Len(s)
      /\ DOMAIN t = 1..(Len(s) - 1)
      /\ \A i \in 1..(Len(s) - 1) : t[i] = s[i + 1]
      /\ Head(s) = s[1]
  BY <1>0, HeadTailProperties, LenProperties, EmptySeq
<1>2. Items(s) = {Head(s)} \cup Items(t)
  BY <1>0, TailItems
<1>3. \A i \in DOMAIN t : i \in Int /\ i + 1 \in DOMAIN s /\ i + 1 # 1 /\ t[i] = s[i + 1]
  BY <1>1
<1>4. 1 \in DOMAIN s
  BY <1>1
<1>5. \A i, j \in DOMAIN s : s[i] = s[j] /\ s[i] # Exceeded => i = j
  BY DEF AnnouncedOnce
<1>. HIDE DEF s, t
<1>6. \A i, j \in DOMAIN t : t[i] = t[j] /\ t[i] # Exceeded => i = j
  BY <1>3, <1>5
<1>7. Head(s) # Exceeded => Head(s) \notin Items(t)
  BY <1>1, <1>3, <1>4, <1>5 DEF Items
<1>. QED  BY <1>2, <1>6, <1>7 DEF AnnouncedOnce, s, t

\* Every step keeps the open connections known.
LEMMA ConnectionsStep ==
    ASSUME NetworkTypeOK, ConnectionsInv, [Next]_vars
    PROVE  ConnectionsInv'
<1>. SUFFICES ASSUME ~Stopped' PROVE ConnectionsInv'
  BY DEF ConnectionsInv, OpenConnectionsKept
<1>0. /\ ~Stopped
      /\ Distinct(connections)
      /\ \A c \in Connections : conn[c] = "open" => c \in Items(connections) \cup Items(protocol_events)
      /\ Items(connections) \cap Items(protocol_events) = {}
      /\ AnnouncedOnce
      /\ \A c \in Connections :
            conn[c] = "new" => c \notin Items(connections) \cup Items(protocol_events)
  <2>1. ~Stopped
    BY DEF Stopped, Next, vars, taskVars, Poll, Fetch, Answer, Establish, Close, Refuse, Notify,
           Run, RetryPending, OnEstablished, OnOtherEvent, NoEvent, OnRequest, NoRequest, PollEvents,
           Shutdown
  <2>. QED  BY <2>1 DEF ConnectionsInv, OpenConnectionsKept, Active
<1>. DEFINE Goal ==
         /\ Distinct(connections')
         /\ \A c \in Connections : conn'[c] = "open" => c \in Items(connections') \cup Items(protocol_events')
         /\ Items(connections') \cap Items(protocol_events') = {}
         /\ AnnouncedOnce'
         /\ \A c \in Connections :
               conn'[c] = "new" => c \notin Items(connections') \cup Items(protocol_events')
<1>. SUFFICES Goal
  BY DEF ConnectionsInv, OpenConnectionsKept, Active
<1>t. /\ protocol_events \in Seq(Connections \cup {Exceeded})
      /\ connections \in Seq(Connections)
      /\ conn \in [Connections -> {"new", "open", "closed"}]
      /\ Exceeded \notin Connections
  BY NetworkAssumption DEF NetworkTypeOK
<1>i. Items(connections) \subseteq Connections
  BY <1>t, LenProperties DEF Items
<1>1. ASSUME NEW c \in Connections, Establish(c) PROVE Goal
  <2>1. conn[c] = "new" /\ Notify(c) /\ conn' = [conn EXCEPT ![c] = "open"]
    BY <1>1 DEF Establish
  <2>2. c \notin Items(connections) \cup Items(protocol_events)
    BY <1>0, <2>1
  <2>3. /\ Items(protocol_events') = Items(protocol_events) \cup {c}
        /\ AnnouncedOnce'
        /\ UNCHANGED connections
    BY <1>0, <2>1, <2>2, NotifyConnections
  <2>. QED  BY <1>0, <1>t, <2>1, <2>2, <2>3
<1>2. CASE Refuse
  <2>1. /\ Items(protocol_events') = Items(protocol_events) \cup {Exceeded}
        /\ AnnouncedOnce'
        /\ UNCHANGED <<connections, conn>>
    BY <1>0, <1>2, <1>t, NotifyConnections DEF Refuse
  <2>. QED  BY <1>0, <1>i, <1>t, <2>1
<1>3. ASSUME NEW c \in Connections, Close(c) PROVE Goal
  <2>1. /\ conn' = [conn EXCEPT ![c] = "closed"]
        /\ UNCHANGED <<connections, protocol_events>>
    BY <1>3 DEF Close, managerVars
  <2>. QED  BY <1>0, <1>t, <2>1 DEF AnnouncedOnce
<1>4. ASSUME NEW f \in Fetches, NEW pending \in Seq(Fetches), OnPeerRequest(f, pending),
             UNCHANGED <<protocol_events, conn>>
      PROVE  Goal
  <2>1. /\ Items(connections') \subseteq Items(connections)
        /\ Distinct(connections')
        /\ \A c \in Items(connections) : conn[c] = "open" => c \in Items(connections')
    BY <1>0, <1>4, OnPeerRequestEffect
  <2>. QED  BY <1>0, <1>4, <2>1 DEF AnnouncedOnce
<1>5. CASE RetryPending
  <2>1. Head(pending_requests) \in Fetches /\ Tail(pending_requests) \in Seq(Fetches)
    BY <1>5, TailItems DEF RetryPending, HasWork, NetworkTypeOK
  <2>. QED  BY <1>4, <1>5, <2>1 DEF RetryPending
<1>6. CASE OnRequest
  <2>1. Head(peer_requests) \in Fetches /\ pending_requests \in Seq(Fetches)
    BY <1>6, TailItems DEF OnRequest, NetworkTypeOK
  <2>. QED  BY <1>4, <1>6, <2>1 DEF OnRequest
<1>7. CASE OnEstablished
  <2>. DEFINE c == Head(protocol_events)
  <2>1. /\ connections' = Append(connections, c)
        /\ c # Exceeded
        /\ protocol_events # <<>>
        /\ protocol_events' = Tail(protocol_events)
        /\ UNCHANGED conn
    BY <1>7 DEF OnEstablished, PollEvents
  <2>2. /\ Items(protocol_events) = {c} \cup Items(protocol_events')
        /\ c \notin Items(protocol_events')
        /\ AnnouncedOnce'
    BY <1>0, <2>1, ReceiveConnections
  <2>3. c \in Connections
    BY <1>t, <2>1, TailItems
  <2>. HIDE DEF c
  <2>4. Items(connections') = Items(connections) \cup {c} /\ Distinct(connections')
    BY <1>0, <1>t, <2>1, <2>2, <2>3, AppendItems
  <2>. QED  BY <1>0, <2>1, <2>2, <2>4
<1>8. CASE OnOtherEvent
  <2>1. /\ Head(protocol_events) = Exceeded
        /\ protocol_events # <<>>
        /\ protocol_events' = Tail(protocol_events)
        /\ UNCHANGED <<conn, connections>>
    BY <1>8 DEF OnOtherEvent, PollEvents
  <2>2. Items(protocol_events) = {Exceeded} \cup Items(protocol_events') /\ AnnouncedOnce'
    BY <1>0, <2>1, ReceiveConnections
  <2>. QED  BY <1>0, <1>i, <1>t, <2>1, <2>2
<1>9. CASE UNCHANGED <<protocol_events, connections, conn>>
  BY <1>0, <1>9 DEF AnnouncedOnce
<1>10. \/ UNCHANGED <<protocol_events, connections, conn>>
       \/ \E c \in Connections : Establish(c) \/ Close(c)
       \/ Refuse \/ RetryPending \/ OnRequest \/ OnEstablished \/ OnOtherEvent
  BY DEF Next, vars, managerVars, Poll, Fetch, Answer, Run, NoEvent, NoRequest, PollEvents,
         Shutdown, Stopped
<1>. QED  BY <1>1, <1>2, <1>3, <1>5, <1>6, <1>7, <1>8, <1>9, <1>10

\* The rotation never forgets an open connection and holds none twice, for
\* any number of connections and any order of their events.
THEOREM OpenConnectionsStayKept == Spec => []OpenConnectionsKept
<1>1. Init => ConnectionsInv
  <2>. SUFFICES ASSUME Init PROVE ConnectionsInv
    OBVIOUS
  <2>1. connections = <<>> /\ protocol_events = <<>> /\ Active = {} /\ DOMAIN protocol_events = {}
    BY DEF Init, Active
  <2>. QED  BY <2>1, EmptyItems DEF ConnectionsInv, OpenConnectionsKept, AnnouncedOnce
<1>2. NetworkTypeOK /\ ConnectionsInv /\ [Next]_vars => ConnectionsInv'
  BY ConnectionsStep
<1>3. ConnectionsInv => OpenConnectionsKept
  BY DEF ConnectionsInv
<1>. QED  BY <1>1, <1>2, <1>3, NetworkTypeCorrect, PTL DEF Spec

-----------------------------------------------------------------------------
(* No wake-up is missed.                                                   *)

\* The inductive invariant: a registered waker means an empty channel, a task
\* that has nothing left to do with its connections has looked at them, and as
\* long as no peer is refused the task has registered for events, or been
\* woken since, before it looks at the requests.
WakeInv ==
    /\ requests_waker => peer_requests = <<>>
    /\ events_waker => protocol_events = <<>>
    /\ pc \in {"requests", "asleep"} => ~HasWork
    /\ pc = "asleep" /\ ~woken => requests_waker
    /\ refused = 0 => /\ Exceeded \notin Items(protocol_events)
                      /\ pc \in {"requests", "asleep"} => woken \/ events_waker

\* Every step keeps the wakers registered.
LEMMA WakeStep ==
    ASSUME NetworkTypeOK, WakeInv, [Next]_vars
    PROVE  WakeInv'
<1>t. /\ requests_waker \in BOOLEAN /\ events_waker \in BOOLEAN /\ woken \in BOOLEAN
      /\ refused \in Nat
      /\ protocol_events \in Seq(Connections \cup {Exceeded})
      /\ Exceeded \notin Connections
  BY NetworkAssumption DEF NetworkTypeOK
<1>1. ASSUME NEW f \in Fetches, Fetch(f) PROVE WakeInv'
  <2>1. /\ woken' = (woken \/ requests_waker)
        /\ requests_waker' = FALSE
        /\ UNCHANGED <<protocol_events, connections, pending_requests, events_waker, pc, refused>>
    BY <1>1 DEF Fetch, managerVars
  <2>. QED  BY <1>t, <2>1 DEF WakeInv, HasWork
<1>2. ASSUME NEW event \in Connections \cup {Exceeded}, Notify(event),
             refused' = 0 => event # Exceeded /\ refused = 0
      PROVE  WakeInv'
  <2>1. /\ protocol_events' = IF Stopped THEN protocol_events ELSE Append(protocol_events, event)
        /\ woken' = (woken \/ events_waker)
        /\ events_waker' = FALSE
        /\ UNCHANGED <<peer_requests, connections, pending_requests, requests_waker, pc>>
    BY <1>2 DEF Notify, managerVars
  <2>2. Items(Append(protocol_events, event)) = Items(protocol_events) \cup {event}
    BY <1>t, AppendItems
  <2>3. refused' = 0 => Exceeded \notin Items(protocol_events')
    BY <1>2, <2>1, <2>2 DEF WakeInv
  <2>. QED  BY <1>2, <1>t, <2>1, <2>3 DEF WakeInv, HasWork
<1>3. ASSUME NEW c \in Connections, Establish(c) PROVE WakeInv'
  BY <1>2, <1>3, <1>t DEF Establish
<1>4. CASE Refuse
  <2>1. Notify(Exceeded) /\ refused' # 0
    BY <1>4, <1>t DEF Refuse
  <2>. QED  BY <1>2, <2>1
<1>5. CASE RetryPending
  <2>1. /\ pc = "events"
        /\ UNCHANGED <<peer_requests, protocol_events, requests_waker, events_waker, pc, woken, refused>>
    BY <1>5 DEF RetryPending, taskVars
  <2>. QED  BY <2>1 DEF WakeInv
<1>6. CASE OnEstablished
  <2>1. /\ pc = "events"
        /\ protocol_events # <<>>
        /\ protocol_events' = Tail(protocol_events)
        /\ UNCHANGED <<peer_requests, requests_waker, events_waker, pc, woken, refused>>
    BY <1>6 DEF OnEstablished, PollEvents
  <2>2. Items(protocol_events') \subseteq Items(protocol_events)
    BY <1>t, <2>1, TailItems
  <2>. QED  BY <2>1, <2>2 DEF WakeInv
<1>7. CASE OnOtherEvent
  <2>1. /\ pc = "events"
        /\ ~HasWork
        /\ protocol_events # <<>>
        /\ Head(protocol_events) = Exceeded
        /\ pc' = "requests"
        /\ UNCHANGED <<peer_requests, connections, pending_requests, requests_waker, events_waker,
                       woken, refused>>
    BY <1>7 DEF OnOtherEvent, PollEvents
  <2>2. Exceeded \in Items(protocol_events)
    BY <1>t, <2>1, TailItems
  <2>3. refused # 0
    BY <2>2 DEF WakeInv
  <2>. QED  BY <2>1, <2>3 DEF WakeInv, HasWork
<1>8. CASE NoEvent
  <2>1. /\ ~HasWork
        /\ protocol_events = <<>>
        /\ events_waker' = TRUE
        /\ pc' = "requests"
        /\ UNCHANGED <<peer_requests, protocol_events, connections, pending_requests, requests_waker,
                       woken, refused>>
    BY <1>8 DEF NoEvent, PollEvents
  <2>. QED  BY <2>1 DEF WakeInv, HasWork
<1>9. CASE OnRequest
  <2>1. /\ pc' = "events"
        /\ peer_requests # <<>>
        /\ UNCHANGED <<protocol_events, requests_waker, events_waker, woken, refused>>
    BY <1>9 DEF OnRequest
  <2>. QED  BY <2>1 DEF WakeInv
<1>10. CASE NoRequest
  <2>1. /\ pc = "requests"
        /\ peer_requests = <<>>
        /\ requests_waker' = TRUE
        /\ pc' = "asleep"
        /\ UNCHANGED <<peer_requests, protocol_events, connections, pending_requests, events_waker,
                       woken, refused>>
    BY <1>10 DEF NoRequest, managerVars
  <2>. QED  BY <2>1 DEF WakeInv, HasWork
<1>11. CASE Run
  BY <1>11 DEF Run, managerVars, WakeInv
<1>12. CASE Shutdown
  BY <1>12, EmptyItems DEF Shutdown, WakeInv
<1>13. CASE UNCHANGED <<peer_requests, protocol_events, managerVars, taskVars, refused>>
  BY <1>13 DEF managerVars, taskVars, WakeInv, HasWork
<1>14. \/ UNCHANGED <<peer_requests, protocol_events, managerVars, taskVars, refused>>
       \/ \E f \in Fetches : Fetch(f)
       \/ \E c \in Connections : Establish(c)
       \/ Refuse \/ Poll \/ Shutdown
  BY DEF Next, vars, Answer, Close
<1>. QED
  BY <1>1, <1>3, <1>4, <1>5, <1>6, <1>7, <1>8, <1>9, <1>10, <1>11, <1>12, <1>13, <1>14 DEF Poll

\* The manager never sleeps while it could forward a request or while a
\* request is in the channel, and as long as no peer has been refused it
\* sleeps through no event of a connection.
THEOREM NoWakeupLost == Spec => []NoLostWakeup
<1>1. Init => WakeInv
  <2>. SUFFICES ASSUME Init PROVE WakeInv
    OBVIOUS
  <2>1. /\ requests_waker = FALSE /\ events_waker = FALSE /\ woken = TRUE
        /\ connections = <<>> /\ Items(protocol_events) = {}
    BY EmptyItems DEF Init
  <2>. QED  BY <2>1 DEF WakeInv, HasWork
<1>2. NetworkTypeOK /\ WakeInv /\ [Next]_vars => WakeInv'
  BY WakeStep
<1>3. NetworkTypeOK /\ WakeInv => NoLostWakeup
  BY DEF WakeInv, NoLostWakeup, HasWork, NetworkTypeOK
<1>. QED  BY <1>1, <1>2, <1>3, NetworkTypeCorrect, PTL DEF Spec

-----------------------------------------------------------------------------
(* The manager implements PeerRequests.                                    *)

\* Who holds the request of f, when to[c] are the requests connection c has
\* and waiting are the calls that wait.
Locate(to, waiting, f) ==
    IF \E c \in Connections : f \in to[c]
    THEN CHOOSE c \in Connections : f \in to[c]
    ELSE IF f \in waiting THEN "manager" ELSE "nobody"

\* No request is at two connections.
Apart(to) == \A c \in Connections : \A d \in Connections \ {c} : to[c] \cap to[d] = {}

\* A request is held by the connection that has it, and else by the manager as
\* long as its caller waits.
LEMMA LocateCases ==
    ASSUME NEW to, Apart(to), NEW waiting, NEW f
    PROVE  /\ \A c \in Connections : f \in to[c] <=> Locate(to, waiting, f) = c
           /\ (\A c \in Connections : f \notin to[c]) =>
                 Locate(to, waiting, f) = IF f \in waiting THEN "manager" ELSE "nobody"
<1>0. "manager" \notin Connections /\ "nobody" \notin Connections
  BY NetworkAssumption
<1>1. ASSUME NEW c \in Connections, f \in to[c]
      PROVE  Locate(to, waiting, f) = c
  <2>1. \A d \in Connections : f \in to[d] => d = c
    BY <1>1 DEF Apart
  <2>. QED  BY <1>1, <2>1 DEF Locate
<1>2. ASSUME \A c \in Connections : f \notin to[c]
      PROVE  Locate(to, waiting, f) = IF f \in waiting THEN "manager" ELSE "nobody"
  BY <1>2 DEF Locate
<1>. QED  BY <1>0, <1>1, <1>2

\* The refinement mapping, before and after a step.
LEMMA HolderIsLocate ==
    /\ Holder = [f \in Fetches |-> Locate(to_connection, fetching, f)]
    /\ Holder' = [f \in Fetches |-> Locate(to_connection', fetching', f)]
  BY DEF Holder, Locate

\* Conserved requests are apart, and the manager holds those in its queues.
LEMMA ConservedHolder ==
    ASSUME NetworkTypeOK, RequestsConserved
    PROVE  /\ Apart(to_connection)
           /\ \A f \in Fetches :
                 /\ \A c \in Connections : f \in to_connection[c] <=> Holder[f] = c
                 /\ f \notin fetching <=> Holder[f] = "nobody"
                 /\ f \in Items(peer_requests) \cup Items(pending_requests) <=> Holder[f] = "manager"
<1>0. "manager" \notin Connections /\ "nobody" \notin Connections
  BY NetworkAssumption
<1>1. Apart(to_connection)
  BY DEF RequestsConserved, Apart
<1>2. ASSUME NEW f \in Fetches
      PROVE  /\ \A c \in Connections : f \in to_connection[c] <=> Holder[f] = c
             /\ f \notin fetching <=> Holder[f] = "nobody"
             /\ f \in Items(peer_requests) \cup Items(pending_requests) <=> Holder[f] = "manager"
  <2>1. Holder[f] = Locate(to_connection, fetching, f)
    BY HolderIsLocate
  <2>2. /\ \A c \in Connections : f \in to_connection[c] <=> Holder[f] = c
        /\ (\A c \in Connections : f \notin to_connection[c]) =>
              Holder[f] = IF f \in fetching THEN "manager" ELSE "nobody"
    BY <1>1, <2>1, LocateCases
  <2>3. CASE \E c \in Connections : f \in to_connection[c]
    <3>1. f \in fetching /\ f \notin Items(peer_requests) \cup Items(pending_requests)
      BY <2>3 DEF RequestsConserved
    <3>2. Holder[f] \in Connections
      BY <2>2, <2>3
    <3>. QED  BY <1>0, <2>2, <3>1, <3>2
  <2>4. CASE \A c \in Connections : f \notin to_connection[c]
    <3>1. f \in fetching <=> f \in Items(peer_requests) \cup Items(pending_requests)
      BY <2>4 DEF RequestsConserved
    <3>. QED  BY <2>2, <2>4, <3>1
  <2>. QED  BY <2>3, <2>4
<1>. QED  BY <1>1, <1>2

\* A step after which a request is at the same connections, and its caller
\* waits if it waited before, leaves its holder as it was.
LEMMA LocateSame ==
    ASSUME NEW to, Apart(to), NEW waiting, NEW to2, Apart(to2), NEW waiting2, NEW f,
           \A c \in Connections : f \in to2[c] <=> f \in to[c],
           f \in waiting2 <=> f \in waiting
    PROVE  Locate(to2, waiting2, f) = Locate(to, waiting, f)
<1>1. CASE \E c \in Connections : f \in to[c]
  BY <1>1, LocateCases
<1>2. CASE \A c \in Connections : f \notin to[c]
  BY <1>2, LocateCases
<1>. QED  BY <1>1, <1>2

\* on_peer_request hands one request over to an open connection, or keeps it.
LEMMA ForwardRefines ==
    ASSUME NetworkTypeOK, RequestsConserved, Apart(to_connection'),
           NEW f \in Fetches, f \in Items(peer_requests) \cup Items(pending_requests),
           NEW pending \in Seq(Fetches), OnPeerRequest(f, pending), UNCHANGED <<fetching, conn>>
    PROVE  Abstract!AbsNext \/ UNCHANGED <<Holder, Active>>
<1>0. Active' = Active
  BY DEF Active
<1>1. CASE UNCHANGED to_connection
  BY <1>0, <1>1, HolderIsLocate
<1>2. ASSUME NEW c \in Active, to_connection' = [to_connection EXCEPT ![c] = @ \cup {f}]
      PROVE  Abstract!AbsNext
  <2>1. c \in Connections /\ Holder[f] = "manager" /\ Apart(to_connection)
    BY ConservedHolder DEF Active
  <2>2. ASSUME NEW g \in Fetches
        PROVE  Locate(to_connection', fetching', g) =
                  IF g = f THEN c ELSE Locate(to_connection, fetching, g)
    <3>1. \A d \in Connections : g \in to_connection'[d] <=> g \in to_connection[d] \/ (g = f /\ d = c)
      BY <1>2, <2>1 DEF NetworkTypeOK
    <3>2. CASE g = f
      BY <2>1, <3>1, <3>2, LocateCases
    <3>3. CASE g # f
      BY <2>1, <3>1, <3>3, LocateSame
    <3>. QED  BY <3>2, <3>3
  <2>3. Holder' = [Holder EXCEPT ![f] = c]
    BY <2>2, HolderIsLocate
  <2>. QED  BY <1>0, <2>1, <2>3 DEF Abstract!AbsNext, Abstract!Forward, Abstract!Manager
<1>. QED  BY <1>1, <1>2, OnPeerRequestEffect

\* Every step of the handle, the manager and the connections is a step of
\* PeerRequests or changes nothing of what PeerRequests speaks of.
LEMMA RefinementStep ==
    ASSUME NetworkTypeOK, RequestsConserved, RequestsConserved', [Next]_vars
    PROVE  Abstract!AbsNext \/ UNCHANGED <<Holder, Active>>
<1>. DEFINE Goal == Abstract!AbsNext \/ UNCHANGED <<Holder, Active>>
<1>0. /\ Apart(to_connection) /\ Apart(to_connection')
      /\ to_connection \in [Connections -> SUBSET Fetches]
      /\ conn \in [Connections -> {"new", "open", "closed"}]
  BY DEF RequestsConserved, Apart, NetworkTypeOK
<1>1. ASSUME NEW f \in Fetches, Fetch(f) PROVE Goal
  <2>1. /\ f \notin fetching /\ fetching' = fetching \cup {f}
        /\ UNCHANGED <<conn, to_connection>>
    BY <1>1 DEF Fetch
  <2>2. Holder[f] = "nobody"
    BY <2>1, ConservedHolder
  <2>3. \A c \in Connections : f \notin to_connection[c]
    BY <2>1 DEF RequestsConserved
  <2>4. Locate(to_connection', fetching', f) = "manager"
    BY <1>0, <2>1, <2>3, LocateCases
  <2>5. \A g \in Fetches \ {f} :
           Locate(to_connection', fetching', g) = Locate(to_connection, fetching, g)
    BY <1>0, <2>1, LocateSame
  <2>6. Holder' = [Holder EXCEPT ![f] = "manager"]
    BY <2>4, <2>5, HolderIsLocate
  <2>. QED  BY <2>1, <2>2, <2>6 DEF Abstract!AbsNext, Abstract!Ask, Abstract!Nobody, Abstract!Manager, Active
<1>2. ASSUME NEW f \in Fetches, Answer(f) PROVE Goal
  <2>1. PICK c \in Active : /\ f \in to_connection[c]
                            /\ to_connection' = [to_connection EXCEPT ![c] = @ \ {f}]
    BY <1>2 DEF Answer
  <2>2. fetching' = fetching \ {f} /\ UNCHANGED conn /\ c \in Connections
    BY <1>2 DEF Answer, Active
  <2>3. \A d \in Connections : to_connection'[d] = to_connection[d] \ {f}
    BY <1>0, <2>1, <2>2 DEF Apart
  <2>4. Holder[f] \in Connections
    BY <2>1, <2>2, ConservedHolder
  <2>5. Locate(to_connection', fetching', f) = "nobody"
    BY <1>0, <2>2, <2>3, LocateCases
  <2>6. \A g \in Fetches \ {f} :
           Locate(to_connection', fetching', g) = Locate(to_connection, fetching, g)
    BY <1>0, <2>2, <2>3, LocateSame
  <2>7. Holder' = [g \in Fetches |-> IF g \in {f} THEN "nobody" ELSE Holder[g]]
    BY <2>5, <2>6, HolderIsLocate
  <2>. QED  BY <2>2, <2>4, <2>7
            DEF Abstract!AbsNext, Abstract!Settle, Abstract!Release, Abstract!Nobody, Active
<1>3. ASSUME NEW c \in Connections, Establish(c) PROVE Goal
  <2>1. /\ conn[c] = "new" /\ conn' = [conn EXCEPT ![c] = "open"]
        /\ UNCHANGED <<fetching, to_connection>>
    BY <1>3 DEF Establish, Notify
  <2>2. c \notin Active /\ Active' = Active \cup {c}
    BY <1>0, <2>1 DEF Active
  <2>3. Holder' = Holder
    BY <2>1, HolderIsLocate
  <2>. QED  BY <2>2, <2>3 DEF Abstract!AbsNext, Abstract!Open
<1>4. ASSUME NEW c \in Connections, Close(c) PROVE Goal
  <2>1. /\ conn[c] = "open" /\ conn' = [conn EXCEPT ![c] = "closed"]
        /\ to_connection' = [to_connection EXCEPT ![c] = {}]
        /\ fetching' = fetching \ to_connection[c]
    BY <1>4 DEF Close
  <2>2. c \in Active /\ Active' = Active \ {c}
    BY <1>0, <2>1 DEF Active
  <2>3. \A d \in Connections : to_connection'[d] = to_connection[d] \ to_connection[c]
    BY <1>0, <2>1 DEF Apart
  <2>4. ASSUME NEW g \in to_connection[c]
        PROVE  Locate(to_connection', fetching', g) = "nobody"
    <3>1. g \notin fetching' /\ \A d \in Connections : g \notin to_connection'[d]
      BY <2>1, <2>3
    <3>. QED  BY <1>0, <3>1, LocateCases
  <2>5. ASSUME NEW g \in Fetches \ to_connection[c]
        PROVE  Locate(to_connection', fetching', g) = Locate(to_connection, fetching, g)
    <3>1. \A d \in Connections : g \in to_connection'[d] <=> g \in to_connection[d]
      BY <2>3
    <3>2. g \in fetching' <=> g \in fetching
      BY <2>1
    <3>. QED  BY <1>0, <3>1, <3>2, LocateSame
  <2>6. \A g \in Fetches : g \in to_connection[c] <=> Holder[g] = c
    BY ConservedHolder
  <2>7. Holder' = [g \in Fetches |-> IF g \in {f \in Fetches : Holder[f] = c} THEN "nobody" ELSE Holder[g]]
    BY <2>4, <2>5, <2>6, HolderIsLocate
  <2>. QED  BY <2>2, <2>7
            DEF Abstract!AbsNext, Abstract!Lose, Abstract!Release, Abstract!HeldBy, Abstract!Nobody
<1>5. CASE RetryPending
  <2>1. /\ Head(pending_requests) \in Fetches
        /\ Head(pending_requests) \in Items(pending_requests)
        /\ Tail(pending_requests) \in Seq(Fetches)
    BY <1>5, TailItems DEF RetryPending, HasWork, NetworkTypeOK
  <2>. QED  BY <1>0, <1>5, <2>1, ForwardRefines DEF RetryPending
<1>6. CASE OnRequest
  <2>1. /\ Head(peer_requests) \in Fetches
        /\ Head(peer_requests) \in Items(peer_requests)
        /\ pending_requests \in Seq(Fetches)
    BY <1>6, TailItems DEF OnRequest, NetworkTypeOK
  <2>. QED  BY <1>0, <1>6, <2>1, ForwardRefines DEF OnRequest
<1>7. CASE Shutdown
  <2>. DEFINE queued == Items(peer_requests) \cup Items(pending_requests)
  <2>1. UNCHANGED <<conn, to_connection>> /\ fetching' = fetching \ queued
    BY <1>7 DEF Shutdown
  <2>2. \A g \in queued : \A c \in Connections : g \notin to_connection[c]
    BY DEF RequestsConserved
  <2>. HIDE DEF queued
  <2>3. \A g \in queued : Locate(to_connection', fetching', g) = "nobody"
    BY <1>0, <2>1, <2>2, LocateCases
  <2>4. \A g \in Fetches \ queued :
           Locate(to_connection', fetching', g) = Locate(to_connection, fetching, g)
    BY <1>0, <2>1, LocateSame
  <2>5. \A g \in Fetches : g \in queued <=> Holder[g] = "manager"
    BY ConservedHolder DEF queued
  <2>6. Holder' = [g \in Fetches |->
                      IF g \in {f \in Fetches : Holder[f] = "manager"} THEN "nobody" ELSE Holder[g]]
    BY <2>3, <2>4, <2>5, HolderIsLocate
  <2>. QED  BY <2>1, <2>6
            DEF Abstract!AbsNext, Abstract!Abandon, Abstract!Release, Abstract!HeldBy, Abstract!Nobody,
                Abstract!Manager, Active
<1>8. CASE UNCHANGED <<fetching, to_connection, conn>>
  BY <1>8, HolderIsLocate DEF Active
<1>9. \/ UNCHANGED <<fetching, to_connection, conn>>
      \/ \E f \in Fetches : Fetch(f) \/ Answer(f)
      \/ \E c \in Connections : Establish(c) \/ Close(c)
      \/ RetryPending \/ OnRequest \/ Shutdown
  BY DEF Next, vars, Poll, Run, NoRequest, OnEstablished, OnOtherEvent, NoEvent, PollEvents,
         Refuse, Notify
<1>. QED  BY <1>1, <1>2, <1>3, <1>4, <1>5, <1>6, <1>7, <1>8, <1>9

\* The handle and the manager implement PeerRequests, for any number of calls
\* and connections: a request only moves from the manager to one open
\* connection, and ends there, with the connection or with the manager.
THEOREM ManagerImplementsPeerRequests == Spec => Abstract!AbsSpec
<1>1. Init => Abstract!AbsInit
  <2>. SUFFICES ASSUME Init PROVE Abstract!AbsInit
    OBVIOUS
  <2>1. Active = {}
    BY DEF Init, Active
  <2>2. Holder = [f \in Fetches |-> "nobody"]
    BY DEF Init, Holder
  <2>. QED  BY <2>1, <2>2 DEF Abstract!AbsInit, Abstract!Nobody
<1>2. NetworkTypeOK /\ RequestsConserved /\ RequestsConserved' /\ [Next]_vars
      => [Abstract!AbsNext]_Abstract!absVars
  BY RefinementStep DEF Abstract!absVars
<1>. QED  BY <1>1, <1>2, NetworkTypeCorrect, RequestsStayConserved, PTL DEF Spec, Abstract!AbsSpec
=============================================================================
