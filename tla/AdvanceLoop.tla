---------------------------- MODULE AdvanceLoop -----------------------------
(***************************************************************************)
(* The loop with which EngineDownloader::poll                              *)
(* (crates/engine/src/download/mod.rs) polls all requests of one kind: the *)
(* indices fall, the request at an index is taken out with swap_remove,    *)
(* which puts the last one into its place, and is pushed back to the end   *)
(* unless it is ready.  Downloader takes the loop as one step that polls   *)
(* every request once.                                                     *)
(***************************************************************************)
EXTENDS Naturals, Sequences

CONSTANTS
    Request,    \* the requests that may be in flight
    Vectors     \* the vectors of requests the loop may start with

Distinct(s) == \A i, j \in DOMAIN s : s[i] = s[j] => i = j

\* A request that is in flight is not requested again.
ASSUME VectorsAssumption == \A s \in Vectors : s \in Seq(Request) /\ Distinct(s)

VARIABLES
    original,   \* history: the vector before the loop
    inflight,   \* the vector of inflight requests
    idx,        \* number of indices still to come; idx is the next position
    polls,      \* history: how often each request was polled
    completed   \* outcomes pushed by the loop

loopVars == <<original, inflight, idx, polls, completed>>

Items(s) == {s[i] : i \in DOMAIN s}

LoopInit ==
    /\ original \in Vectors
    /\ inflight = original
    /\ idx = Len(original)
    /\ polls = [r \in Request |-> 0]
    /\ completed = <<>>

\* Faulty variant: the last element is dropped.
SwapRemoveLast(s, i) == [j \in 1..(Len(s) - 1) |-> s[j]]

\* Vec::swap_remove.
SwapRemove(s, i) == [j \in 1..(Len(s) - 1) |-> IF j = i THEN s[Len(s)] ELSE s[j]]

\* Faulty variant: the indices rise.
PollRequestForward(ready) ==
    /\ idx > 0
    /\ LET i == Len(original) - idx + 1
       IN  /\ i \in DOMAIN inflight
           /\ polls' = [polls EXCEPT ![inflight[i]] = @ + 1]
           /\ IF ready
              THEN /\ inflight' = SwapRemove(inflight, i)
                   /\ completed' = Append(completed, inflight[i])
              ELSE /\ inflight' = Append(SwapRemove(inflight, i), inflight[i])
                   /\ UNCHANGED completed
    /\ idx' = idx - 1
    /\ UNCHANGED original

PollRequest(ready) ==
    /\ idx > 0
    /\ polls' = [polls EXCEPT ![inflight[idx]] = @ + 1]
    /\ IF ready
       THEN /\ inflight' = SwapRemove(inflight, idx)
            /\ completed' = Append(completed, inflight[idx])
       ELSE /\ inflight' = Append(SwapRemove(inflight, idx), inflight[idx])
            /\ UNCHANGED completed
    /\ idx' = idx - 1
    /\ UNCHANGED original

LoopNext == \E ready \in BOOLEAN : PollRequest(ready)

LoopSpec == LoopInit /\ [][LoopNext]_loopVars

-----------------------------------------------------------------------------
\* Although the vector changes under the loop, no request is polled twice, and
\* when the loop ends each has been polled.
EachPolledOnce ==
    /\ \A r \in Request : polls[r] <= 1
    /\ idx = 0 => \A r \in Items(original) : polls[r] = 1

\* Every request stays in flight or has become an outcome, not both, and is
\* not in the vector twice.
NoRequestLost ==
    /\ Distinct(inflight)
    /\ Items(inflight) \cup Items(completed) = Items(original)
    /\ Items(inflight) \cap Items(completed) = {}

=============================================================================
