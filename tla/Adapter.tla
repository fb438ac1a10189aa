------------------------------ MODULE Adapter -------------------------------
(***************************************************************************)
(* The proxy between a test driver and two nodes, reth and ress            *)
(* (bin/adapter/src/main.rs).  Every request goes to reth; one of the      *)
(* engine API that does not get something goes to ress after that, and the *)
(* driver receives the answer of ress, with the payload id of reth.        *)
(*                                                                         *)
(* Each connection of the driver has its own task and one request at a     *)
(* time.  When a node cannot be reached the task panics, which closes the  *)
(* connection.                                                             *)
(***************************************************************************)
EXTENDS Naturals, SequencesExt

CONSTANTS
    Clients,        \* connections the driver may open
    Calls,          \* the requests it may send
    Method,         \* Method[r]: engine, engine_get or other
    Builds,         \* requests that make reth start a payload: attributes
    Nil,            \* no request, no payload id, no answer yet
    MaxCalls        \* bound on the number of requests sent

ASSUME ProxyAssumption ==
    /\ Method \in [Calls -> {"engine", "engine_get", "other"}]
    /\ Builds \subseteq {r \in Calls : Method[r] = "engine"}
    /\ Nil \notin Nat
    /\ MaxCalls \in Nat

VARIABLES
    proxies,        \* proxies[c]: the task of connection c: [stage, request, payload_id]
    reth,           \* what reth received, as pairs of connection and request
    ress,           \* what ress received
    replies,        \* replies[c]: the last answer on c: [by, payload_id, built], the
                    \* last being the id that reth gave
    sent            \* number of requests sent

proxyVars == <<proxies, reth, ress, replies, sent>>

NoTask == [stage |-> "idle", request |-> Nil, payload_id |-> Nil]
Closed == [stage |-> "closed", request |-> Nil, payload_id |-> Nil]

ProxyInit ==
    /\ proxies = [c \in Clients |-> NoTask]
    /\ reth = <<>>
    /\ ress = <<>>
    /\ replies = [c \in Clients |-> Nil]
    /\ sent = 0

IsEngineMethod(r) == Method[r] = "engine"

-----------------------------------------------------------------------------
SendCall(c, r) ==
    /\ proxies[c].stage = "idle"
    /\ sent < MaxCalls
    /\ sent' = sent + 1
    /\ proxies' = [proxies EXCEPT ![c] = [stage |-> "reth", request |-> r, payload_id |-> Nil]]
    /\ UNCHANGED <<reth, ress, replies>>

Respond(c, by, id) ==
    /\ replies' = [replies EXCEPT ![c] =
          [by |-> by, payload_id |-> id, built |-> proxies[c].payload_id]]
    /\ proxies' = [proxies EXCEPT ![c] = NoTask]

\* reth replies.  It may refuse to start a payload.
FromReth(c) ==
    /\ proxies[c].stage = "reth"
    /\ LET r == proxies[c].request
       IN  /\ reth' = Append(reth, <<c, r>>)
           /\ IF IsEngineMethod(r)
              THEN /\ \E id \in IF r \in Builds THEN {Len(reth'), Nil} ELSE {Nil} :
                         proxies' = [proxies EXCEPT ![c].stage = "ress", ![c].payload_id = id]
                   /\ UNCHANGED replies
              ELSE Respond(c, "reth", Nil)
    /\ UNCHANGED <<ress, sent>>

\* The payload id that the driver gets: ress has none of its own, and only an
\* object can be given one.
PayloadId(id, is_object) == IF is_object THEN id ELSE Nil

\* ress replies with a result that is an object, or with an error.
FromRess(c) ==
    /\ proxies[c].stage = "ress"
    /\ ress' = Append(ress, <<c, proxies[c].request>>)
    /\ \E is_object \in BOOLEAN :
          Respond(c, IF is_object THEN "ress" ELSE "ress_error", PayloadId(proxies[c].payload_id, is_object))
    /\ UNCHANGED <<reth, sent>>

\* Faulty variant: the connection stays open after a failure.
FailOpen(c) ==
    /\ proxies[c].stage \in {"reth", "ress"}
    /\ \E received \in BOOLEAN, node \in {proxies[c].stage} :
          /\ reth' = IF received /\ node = "reth" THEN Append(reth, <<c, proxies[c].request>>) ELSE reth
          /\ ress' = IF received /\ node = "ress" THEN Append(ress, <<c, proxies[c].request>>) ELSE ress
    /\ proxies' = [proxies EXCEPT ![c] = NoTask]
    /\ UNCHANGED <<replies, sent>>

\* The node whose turn it is cannot be reached, or its answer does not arrive
\* although it received the request.
Fail(c) ==
    /\ proxies[c].stage \in {"reth", "ress"}
    /\ \E received \in BOOLEAN, node \in {proxies[c].stage} :
          /\ reth' = IF received /\ node = "reth" THEN Append(reth, <<c, proxies[c].request>>) ELSE reth
          /\ ress' = IF received /\ node = "ress" THEN Append(ress, <<c, proxies[c].request>>) ELSE ress
    /\ proxies' = [proxies EXCEPT ![c] = Closed]
    /\ UNCHANGED <<replies, sent>>

ProxyNext ==
    \E c \in Clients :
        \/ \E r \in Calls : SendCall(c, r)
        \/ FromReth(c) \/ FromRess(c) \/ Fail(c)

ProxySpec == ProxyInit /\ [][ProxyNext]_proxyVars

-----------------------------------------------------------------------------
\* The entries of a log that are in S, in their order.
Entries(log, S) ==
    LET upTo[n \in 0..Len(log)] ==
            IF n = 0 THEN <<>>
            ELSE IF log[n] \in S THEN Append(upTo[n - 1], log[n]) ELSE upTo[n - 1]
    IN  upTo[Len(log)]

EngineCalls == {r \in Calls : IsEngineMethod(r)}

\* On each connection ress receives the engine requests that reth received, in
\* the same order and never before reth, although requests fail on the way.
RessFollowsReth ==
    \A c \in Clients :
        IsPrefix(Entries(ress, {c} \X Calls), Entries(reth, {c} \X EngineCalls))

\* "Only then does it send the reth response back to hive" (README.md:5), so the
\* driver gets the id of a payload that reth builds.  The code sends the response
\* of ress, and gives it the id only if it has a result that is an object.
RethPayloadIdReturned ==
    \A c \in Clients : replies[c] # Nil => replies[c].payload_id = replies[c].built
=============================================================================
