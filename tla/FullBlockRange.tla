--------------------------- MODULE FullBlockRange ---------------------------
(***************************************************************************)
(* FetchFullBlockRangeFuture (crates/engine/src/download/futs.rs): first a *)
(* range of headers, then the bodies of all of them, as many as a peer     *)
(* sends at a time, in the order of the headers.  A body is named by the   *)
(* hash of the block it belongs to.                                        *)
(*                                                                         *)
(* Each poll handles the answer that woke it, body by body, and leaves a   *)
(* new request waiting, or is done.                                        *)
(***************************************************************************)
EXTENDS HeaderRange

CONSTANTS
    StartHash, Limit,   \* the request: the first header and how many
    HeaderAnswers,      \* the ranges of headers peers may send
    FaultyBodies        \* answers with bodies that were not asked for

ASSUME RangeAssumption ==
    /\ StartHash \in Hash
    /\ Limit \in Nat \ {0}
    /\ HeaderAnswers \subseteq Seq(Hash)
    /\ FaultyBodies \subseteq Seq(Hash)

VARIABLES
    stage,      \* headers, bodies, checking (the loop over an answer with bodies), or done
    headers,    \* the accepted headers
    bodies,     \* the bodies received for them
    answer,     \* the answer to the current request
    answered,   \* whether there is one
    offset,     \* number of bodies there were before the loop
    next,       \* position of the next body of the answer in the loop
    blocks      \* the result, as pairs of header and body

rangeVars == <<stage, headers, bodies, answer, answered, offset, next, blocks>>

RangeInit ==
    /\ stage = "headers"
    /\ headers = <<>>
    /\ bodies = <<>>
    /\ answer = <<>>
    /\ answered = FALSE
    /\ offset = 0
    /\ next = 1
    /\ blocks = <<>>

-----------------------------------------------------------------------------
\* Faulty variant: the next header without a body is left out.
MissingButOne == SubSeq(headers, Len(bodies) + 2, Len(headers))

\* The hashes that are requested next: those of the headers without a body.
Missing == SubSeq(headers, Len(bodies) + 1, Len(headers))

\* A peer that has the blocks sends as many bodies as fit into a message.
HonestBodies == {SubSeq(Missing, 1, n) : n \in 1..Len(Missing)}

\* An answer <<>> also stands for an error.
Receive(response) ==
    /\ ~answered
    /\ answer' = response
    /\ answered' = TRUE
    /\ UNCHANGED <<stage, headers, bodies, offset, next, blocks>>

ReceiveHeaders ==
    /\ stage = "headers"
    /\ \E response \in HeaderAnswers \cup {<<>>} : Receive(response)

ReceiveHonestBodies ==
    /\ stage = "bodies"
    /\ \E response \in HonestBodies : Receive(response)

ReceiveOtherBodies ==
    /\ stage = "bodies"
    /\ \E response \in FaultyBodies \cup {<<>>} : Receive(response)

-----------------------------------------------------------------------------
(* poll.                                                                   *)

\* The request that was answered is replaced by the next one.
RequestAgain == answered' = FALSE /\ answer' = <<>>

PollHeaders ==
    /\ stage = "headers"
    /\ answered
    /\ RequestAgain
    /\ IF AcceptHeaders(StartHash, Limit, answer)
       THEN stage' = "bodies" /\ headers' = answer
       ELSE UNCHANGED <<stage, headers>>
    /\ UNCHANGED <<bodies, offset, next, blocks>>

\* Without any body the same hashes are requested again.
PollBodies ==
    /\ stage = "bodies"
    /\ answered
    /\ IF answer = <<>>
       THEN RequestAgain /\ UNCHANGED <<stage, offset, next>>
       ELSE /\ stage' = "checking"
            /\ offset' = Len(bodies)
            /\ next' = 1
            /\ UNCHANGED <<answer, answered>>
    /\ UNCHANGED <<headers, bodies, blocks>>

\* There is a header without a body, and a body, for another turn of the loop.
MoreBodies == next <= Len(answer) /\ offset + next <= Len(headers)

\* Faulty variant: bodies are compared with the headers from the first one on.
ExpectedFromStart == headers[next]

\* The header that the next body is compared with.
Expected == headers[offset + next]

\* A body that does not match is skipped, together with its header.
CheckNextBody ==
    /\ stage = "checking"
    /\ MoreBodies
    /\ bodies' = IF answer[next] = Expected THEN Append(bodies, answer[next]) ELSE bodies
    /\ next' = next + 1
    /\ UNCHANGED <<stage, headers, answer, answered, offset, blocks>>

\* After the loop the bodies that are still missing are requested, until there
\* are none.
FinishBodies ==
    /\ stage = "checking"
    /\ ~MoreBodies
    /\ RequestAgain
    /\ IF Len(bodies) = Len(headers)
       THEN /\ stage' = "done"
            /\ blocks' = [i \in DOMAIN headers |-> <<headers[i], bodies[i]>>]
       ELSE stage' = "bodies" /\ UNCHANGED blocks
    /\ UNCHANGED <<headers, bodies, offset, next>>

Poll == PollHeaders \/ PollBodies \/ CheckNextBody \/ FinishBodies

RangeNext == ReceiveHeaders \/ ReceiveHonestBodies \/ ReceiveOtherBodies \/ Poll

RangeSpec == RangeInit /\ [][RangeNext]_rangeVars

HonestAnswer ==
    \/ ReceiveHeaders /\ AcceptHeaders(StartHash, Limit, answer')
    \/ ReceiveHonestBodies

\* The task that polls the future runs when it is woken, and a request that is
\* repeated for ever reaches a peer that has the headers, or the bodies.
RangeFairness == WF_rangeVars(Poll) /\ SF_rangeVars(HonestAnswer)

FairRangeSpec == RangeSpec /\ RangeFairness

-----------------------------------------------------------------------------
\* Each block of the result consists of a header and the body of that very
\* header ("A future that downloads full block range.").  The code breaks this
\* when a wrong body comes before a right one in the same answer: its header is
\* skipped, and the bodies after it are paired with the headers before theirs.
RangeConnected ==
    stage = "done" => \A i \in DOMAIN blocks : blocks[i][1] = blocks[i][2]

\* What holds whatever bodies come, at whatever position of whichever answer:
\* the result is a chain from the requested block, at least as long as asked for,
\* and a body that is out of place belongs to a lower block of this chain.  The
\* lowest block has its own body.
RangeInOrder ==
    stage = "done" =>
        /\ Len(blocks) >= Limit
        /\ blocks[1][1] = StartHash
        /\ \A i \in 1..(Len(blocks) - 1) : Parent[blocks[i][1]] = blocks[i + 1][1]
        /\ \A i \in DOMAIN blocks : \E j \in i..Len(blocks) : blocks[i][2] = blocks[j][1]

\* The range is downloaded in the end.
RangeCompletes == <>(stage = "done")
=============================================================================
