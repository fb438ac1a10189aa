----------------------------- MODULE RpcAdapter -----------------------------
(***************************************************************************)
(* RpcNetworkAdapter (crates/testing/src/rpc_adapter.rs), which takes the  *)
(* place of the network manager and its peers: each request is answered by *)
(* a task of its own, from an RPC node whose canonical chain may change    *)
(* between the lookups of one task.                                        *)
(*                                                                         *)
(* A task makes its lookups at the same time and uses their results in the *)
(* order of the answer, up to the first one that finds nothing.  Headers,  *)
(* bodies and witnesses are named by the hash of their block.              *)
(***************************************************************************)
EXTENDS HeaderRange

CONSTANTS
    Requests,       \* the requests: [kind, start, limit], [kind, hashes] or [kind, hash]
    Heads,          \* the blocks that may be the head of the node
    MaxServe,       \* MAX_HEADERS_SERVE
    MaxItems        \* number of headers or bodies that reach the limit of an answer

\* What the futures ask for: at least one header or body.
RequestForms ==
    [kind : {"headers"}, start : Hash, limit : Nat \ {0}]
    \cup [kind : {"bodies"}, hashes : Seq(Hash) \ {<<>>}]
    \cup [kind : {"proof"}, hash : Hash]

\* The chain of the node is valid.
ASSUME AdapterAssumption ==
    /\ Requests \subseteq RequestForms
    /\ Heads \subseteq Hash /\ Heads # {}
    /\ \A h \in Heads : Ancestry[h] \cap InvalidHeaders = {}
    /\ "waiting" \notin Hash \cup {None}
    /\ MaxServe \in Nat \ {0}
    /\ MaxItems \in Nat \ {0, 1}

VARIABLES
    head,           \* head of the canonical chain of the node
    running,        \* whether run was called
    requests,       \* the channel
    tasks,          \* tasks[r]: the results of the lookups, <<>> when there is no task
    clean,          \* history: r is about the canonical chain, which stayed, and no lookup failed
    answers         \* answers[r]: the last answer, and whether clean held when it was sent

rpcVars == <<head, running, requests, tasks, clean, answers>>

Idle(r) == tasks[r] = <<>>

RpcInit ==
    /\ head \in Heads
    /\ running = FALSE
    /\ requests = <<>>
    /\ tasks = [r \in Requests |-> <<>>]
    /\ clean = [r \in Requests |-> TRUE]
    /\ answers = [r \in Requests |-> [items |-> <<>>, clean |-> FALSE]]

-----------------------------------------------------------------------------
Minimum(m, n) == IF m <= n THEN m ELSE n

\* Faulty variant: the start block is counted twice.
LookupsButOne(r) ==
    IF r.kind = "headers"
    THEN 1 + Minimum(Minimum(r.limit - 1, MaxServe) - 1, Number[r.start])
    ELSE IF r.kind = "bodies" THEN Len(r.hashes) ELSE 2

\* The number of lookups: the start block and the blocks below it, down to
\* genesis at most; every body; a block and the witness for its number.
Lookups(r) ==
    IF r.kind = "headers" THEN 1 + Minimum(Minimum(r.limit - 1, MaxServe), Number[r.start])
    ELSE IF r.kind = "bodies" THEN Len(r.hashes)
    ELSE 2

\* The block with number n on the canonical chain of the node.
Canonical(n) ==
    IF \E h \in Ancestry[head] : Number[h] = n THEN CHOOSE h \in Ancestry[head] : Number[h] = n
    ELSE None

\* What the node has for lookup i: the start block, a body and the block of a
\* witness are looked up by hash, the rest by number.
Found(r, i) ==
    IF r.kind = "bodies" THEN r.hashes[i]
    ELSE IF r.kind = "headers"
    THEN IF i = 1 THEN r.start ELSE Canonical(Number[r.start] - (i - 1))
    ELSE IF i = 1 THEN r.hash ELSE Canonical(Number[r.hash])

-----------------------------------------------------------------------------
(* The node.                                                               *)

Reorg(h) ==
    /\ h \in Heads \ {head}
    /\ head' = h
    /\ clean' = [r \in Requests |-> FALSE]
    /\ UNCHANGED <<running, requests, tasks, answers>>

\* A lookup finds the block or fails.
Lookup(r, i) ==
    /\ i \in DOMAIN tasks[r]
    /\ tasks[r][i] = "waiting"
    /\ r.kind # "bodies" /\ i > 1 => tasks[r][1] \notin {"waiting", None}
    /\ \E result \in {Found(r, i), None} :
          /\ tasks' = [tasks EXCEPT ![r][i] = result]
          /\ clean' = [clean EXCEPT ![r] = @ /\ result # None]
    /\ UNCHANGED <<head, running, requests, answers>>

-----------------------------------------------------------------------------
(* The adapter.                                                            *)

Send(r) ==
    /\ Idle(r)
    /\ \A i \in DOMAIN requests : requests[i] # r
    /\ requests' = Append(requests, r)
    /\ UNCHANGED <<head, running, tasks, clean, answers>>

\* The block whose number is used to look up others is canonical.
OnChain(r) ==
    /\ r.kind = "headers" => r.start \in Ancestry[head]
    /\ r.kind = "proof" => r.hash \in Ancestry[head]

Start ==
    /\ ~running
    /\ running' = TRUE
    /\ UNCHANGED <<head, requests, tasks, clean, answers>>

Spawn ==
    /\ running
    /\ requests # <<>>
    /\ LET r == Head(requests)
       IN  /\ tasks' = [tasks EXCEPT ![r] = [i \in 1..Lookups(r) |-> "waiting"]]
           /\ clean' = [clean EXCEPT ![r] = OnChain(r)]
    /\ requests' = Tail(requests)
    /\ UNCHANGED <<head, running, answers>>

\* The answer is complete after n results.
Complete(r, n) ==
    /\ \A i \in 1..n : tasks[r][i] \notin {"waiting", None}
    /\ n < Len(tasks[r]) /\ n # MaxItems => tasks[r][n + 1] = None

\* A witness is nothing unless the block and the witness were found.
Response(r, n) ==
    IF r.kind # "proof" THEN SubSeq(tasks[r], 1, n)
    ELSE IF n = 2 THEN <<tasks[r][2]>> ELSE <<>>

\* Faulty variant: nothing is sent when the block is not found.
ReplyFound(r) ==
    /\ ~Idle(r)
    /\ \E n \in 1..Len(tasks[r]) :
          /\ Complete(r, n)
          /\ answers' = [answers EXCEPT ![r] = [items |-> Response(r, n), clean |-> clean[r]]]
    /\ tasks' = [tasks EXCEPT ![r] = <<>>]
    /\ UNCHANGED <<head, running, requests, clean>>

Reply(r) ==
    /\ ~Idle(r)
    /\ \E n \in 0..Len(tasks[r]) :
          /\ Complete(r, n)
          /\ \A m \in 0..(n - 1) : ~Complete(r, m)
          /\ answers' = [answers EXCEPT ![r] = [items |-> Response(r, n), clean |-> clean[r]]]
    /\ tasks' = [tasks EXCEPT ![r] = <<>>]
    /\ UNCHANGED <<head, running, requests, clean>>

-----------------------------------------------------------------------------
RpcNext ==
    \/ \E h \in Heads : Reorg(h)
    \/ \E r \in Requests : Send(r) \/ Reply(r) \/ \E i \in DOMAIN tasks[r] : Lookup(r, i)
    \/ Start \/ Spawn

RpcSpec == RpcInit /\ [][RpcNext]_rpcVars

\* The runtime runs the adapter and its tasks, and the node answers lookups
\* or the client gives up on them.
RpcFairness ==
    /\ WF_rpcVars(Spawn)
    /\ \A r \in Requests : WF_rpcVars(Reply(r) \/ \E i \in DOMAIN tasks[r] : Lookup(r, i))

FairRpcSpec == RpcSpec /\ RpcFairness

-----------------------------------------------------------------------------
\* A range of headers below a canonical block, if the node has it and stays on
\* its chain, is answered in the form the downloader accepts: as many headers
\* as asked for, falling from the start block.
ServedRangeAccepted ==
    \A r \in Requests :
        r.kind = "headers" /\ answers[r].clean =>
            \/ r.limit > MaxServe + 1 \/ r.limit > MaxItems \/ r.limit > Number[r.start] + 1
            \/ AcceptHeaders(r.start, r.limit, answers[r].items)

\* The bodies of an answer are those of the first requested blocks, in their
\* order and without a gap, so that they can be told apart by position.
BodiesAligned ==
    \A r \in Requests :
        r.kind = "bodies" =>
            \A i \in DOMAIN answers[r].items : answers[r].items[i] = r.hashes[i]

\* The witness is asked for by number, after the block was found by its hash:
\* it is that of the requested block if that one is canonical and stays so.
WitnessOfCanonicalBlock ==
    \A r \in Requests :
        r.kind = "proof" /\ answers[r].clean => answers[r].items = <<r.hash>>

\* An answer is one that the future which asked for it can use.
AnswersUsable == ServedRangeAccepted /\ BodiesAligned /\ WitnessOfCanonicalBlock

-----------------------------------------------------------------------------
(* The adapter implements PeerRequests, with itself as the only peer.      *)

RpcHolder ==
    [r \in Requests |->
        IF ~Idle(r) THEN "rpc"
        ELSE IF \E i \in DOMAIN requests : requests[i] = r THEN "manager" ELSE "nobody"]

Peers ==
    INSTANCE PeerRequests
        WITH Fetches <- Requests, Connections <- {"rpc"}, holder <- RpcHolder,
             available <- IF running THEN {"rpc"} ELSE {}

\* A request is held by the channel, then by one task, and is answered.
SubstitutesNetworkManager == Peers!AbsFairSpec
=============================================================================
