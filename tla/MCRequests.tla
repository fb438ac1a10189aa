----------------------------- MODULE MCRequests ------------------------------
(***************************************************************************)
(* The network manager and its substitute, one in each behaviour.          *)
(*                                                                         *)
(* NetworkManager: two concurrent fetches, and three connections of which  *)
(* two may be active.  RpcAdapter: a chain g - a1 - a2 - a3 and a fork     *)
(* b2 - b3 at a1 that the node may switch to.                              *)
(***************************************************************************)
EXTENDS NetworkManager, RpcAdapter, TLC

CONSTANTS g, a1, a2, a3, b2, b3, zero, none

MCHash == {g, a1, a2, a3, b2, b3}
MCParent == (g :> zero @@ a1 :> g @@ a2 :> a1 @@ a3 :> a2 @@ b2 :> a1 @@ b3 :> b2)
MCNumber == (g :> 0 @@ a1 :> 1 @@ a2 :> 2 @@ a3 :> 3 @@ b2 :> 2 @@ b3 :> 3)

Headers(start, limit) == [kind |-> "headers", start |-> start, limit |-> limit]
Bodies(hashes) == [kind |-> "bodies", hashes |-> hashes]
Proof(hash) == [kind |-> "proof", hash |-> hash]

MCRequests == {Headers(a3, 3), Bodies(<<a2, b2, a1>>), Proof(b2)}

\* The requests to RpcAdapter: two of them at a time.
Pairs == {pair \in SUBSET Requests : Cardinality(pair) = 2}

VARIABLES
    which,      \* the one that runs
    asked       \* the requests that RpcAdapter gets

allVars == <<vars, rpcVars, which, asked>>

RequestsInit ==
    /\ Init /\ RpcInit
    /\ which \in {"manager", "adapter"}
    /\ asked \in Pairs
    /\ which = "manager" => head = a3 /\ Proof(b2) \notin asked

RunManager == which = "manager" /\ Next /\ UNCHANGED <<rpcVars, which, asked>>

RunAdapter ==
    /\ which = "adapter"
    /\ RpcNext
    /\ \A i \in DOMAIN requests' : requests'[i] \in asked
    /\ UNCHANGED <<vars, which, asked>>

RequestsSpec ==
    /\ RequestsInit
    /\ [][RunManager \/ RunAdapter]_allVars
    /\ WF_vars(which = "manager" /\ Poll) /\ \A f \in Fetches : WF_vars(Answer(f))
    /\ RpcFairness
=============================================================================
