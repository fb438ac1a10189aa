---------------------------- MODULE MCDownloader ----------------------------
(***************************************************************************)
(* A chain g - a1 - a2 - a3 with a fork b2 at a1.  In each behaviour       *)
(* either the downloader runs, with a window of two ancestors, or the      *)
(* future for a range of three full blocks from a3 down.  Ranges of        *)
(* headers are too short, start at the wrong block, are not connected, are *)
(* of the fork, or are longer than asked for.                              *)
(***************************************************************************)
EXTENDS Downloader, FullBlockRange, TLC

CONSTANTS g, a1, a2, a3, b2, zero, none

MCHash == {g, a1, a2, a3, b2}
MCParent == (g :> zero @@ a1 :> g @@ a2 :> a1 @@ a3 :> a2 @@ b2 :> a1)
MCNumber == (g :> 0 @@ a1 :> 1 @@ a2 :> 2 @@ a3 :> 3 @@ b2 :> 2)

MCHeaderRanges ==
    { <<a2>>, <<a2, a1>>, <<a2, a1, g>>, <<a2, g>>, <<b2, a1>> }

MCHeaderAnswers ==
    { <<a3, a2, a1>>, <<a3, a2, a1, g>>, <<a3, a2>>, <<a2, a1, g>>, <<a3, b2, a1>> }

\* Bodies of other blocks at the end of an answer, in the middle and in front,
\* and answers that were meant for an earlier request.
MCFaultyBodies ==
    { <<b2>>, <<a3, b2>>, <<a3, a2, b2>>, <<a3, a2>>, <<a2, b2>>,
      <<b2, a2>>, <<b2, a1>>, <<a3, b2, a1>> }

-----------------------------------------------------------------------------
VARIABLE which      \* the one that runs

allVars == <<vars, rangeVars, which>>

DownloadsInit == Init /\ RangeInit /\ which \in {"downloader", "range"}

RunDownloader == which = "downloader" /\ Next /\ UNCHANGED <<rangeVars, which>>

RunRange == which = "range" /\ RangeNext /\ UNCHANGED <<vars, which>>

\* The engine polls the downloader once when nothing was asked of it.
PollIdleDownloader == which = "range" /\ AdvanceRequests /\ UNCHANGED <<rangeVars, which>>

DownloadsNext == RunDownloader \/ RunRange \/ PollIdleDownloader

DownloadsSpec == DownloadsInit /\ [][DownloadsNext]_allVars

\* RangeFairness, where a task polls the future.
RunRangeFairness ==
    /\ WF_rangeVars(which = "range" /\ Poll)
    /\ SF_rangeVars(which = "range" /\ HonestAnswer)

FairDownloadsSpec == DownloadsSpec /\ Fairness /\ RunRangeFairness

-----------------------------------------------------------------------------
\* FetchFullBlockRangeFuture ends with a body for each header, whatever other
\* answers come between, where it is the one that runs.  Whose bodies these are
\* is the matter of RangeInOrder.
RangeDownloaded == which = "range" => RangeCompletes
=============================================================================
