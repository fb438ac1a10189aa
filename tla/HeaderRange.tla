---------------------------- MODULE HeaderRange -----------------------------
(***************************************************************************)
(* The check of a range of headers (FetchHeadersRangeFuture::on_response   *)
(* in crates/engine/src/download/futs.rs), which finalized blocks and      *)
(* block ranges share.  Ranges are falling: each header is followed by its *)
(* parent.                                                                 *)
(***************************************************************************)
EXTENDS Blocks, Sequences

CONSTANT InvalidHeaders     \* headers that break a rule of consensus

ASSUME HeadersAssumption == InvalidHeaders \subseteq Hash

\* Consensus::validate_header_range.
ValidHeaderRange(headers) ==
    /\ \A i \in 1..(Len(headers) - 1) : Parent[headers[i]] = headers[i + 1]
    /\ \A i \in DOMAIN headers : headers[i] \notin InvalidHeaders

\* Faulty variant: the range may start anywhere.
AcceptHeadersAnywhere(start, limit, headers) ==
    Len(headers) >= limit /\ ValidHeaderRange(headers)

\* A longer range than asked for is accepted as a whole.
AcceptHeaders(start, limit, headers) ==
    /\ Len(headers) >= limit
    /\ headers[1] = start
    /\ ValidHeaderRange(headers)
=============================================================================
