----------------------------- MODULE Downloader -----------------------------
(***************************************************************************)
(* The engine's downloader (crates/engine/src/download/mod.rs) and the     *)
(* futures it polls (download/futs.rs): full blocks, proofs and finalized  *)
(* blocks with their ancestors.  Peers answer with whatever they like; a   *)
(* future checks every answer and asks again until it has the right one.   *)
(*                                                                         *)
(* A block is named by its hash: a header h is the header with hash h, and *)
(* a body h the body that belongs to it.  The network request inside a     *)
(* future is "new" until it is first polled, which starts its timer and    *)
(* registers the waker of the engine task, then "waiting", then the answer *)
(* of the peer, and "none" once the future has no use for another one.     *)
(***************************************************************************)
EXTENDS HeaderRange

CONSTANTS
    FullRequests,       \* hashes the engine may request as full blocks
    ProofRequests,      \* hashes it may request a proof of
    FinalizedRequests,  \* hashes it may request with their ancestors
    AncestorWindow,     \* ancestor_count: 256 in download_finalized_with_ancestors
    Strays,             \* blocks whose header or body peers may send for another one
    HeaderRanges        \* the sequences of headers peers may answer with

ASSUME DownloaderAssumption ==
    /\ FullRequests \subseteq Hash
    /\ ProofRequests \subseteq Hash \ {Genesis}
    /\ FinalizedRequests \subseteq Hash \ {Genesis}
    /\ AncestorWindow \in Nat \ {0}
    /\ Strays \subseteq Hash
    /\ HeaderRanges \subseteq Seq(Hash)

VARIABLES
    full,           \* full[h]: the FetchFullBlockFuture for h, or None
    proof,          \* proof[h]: the network request of the FetchProofFuture for h, or None
    finalized,      \* finalized[h]: the FetchFullBlockWithAncestorsFuture for h, or None
    outcomes,       \* finished downloads that have not been taken
    woken           \* whether the engine task polls the downloader (again)

vars == <<full, proof, finalized, outcomes, woken>>

Nothing == "nothing"    \* an empty answer, or an error
Unanswered == {"none", "new", "waiting"}
Answered(request) == request \notin Unanswered

\* FetchFullBlockFuture: two requests, and what they have brought so far.
FullBlockFuture ==
    [ header_request : Unanswered \cup Hash \cup {Nothing},
      body_request   : Unanswered \cup Hash \cup {Nothing},
      header         : Hash \cup {None},
      body           : Hash \cup {None} ]

NewFullBlock == [header_request |-> "new", body_request |-> "new", header |-> None, body |-> None]

\* FetchFullBlockWithAncestorsFuture: first the block, then the range of
\* headers below it.  There is no request for headers during the first stage;
\* headers is the answer to it, <<>> also standing for an error.
FinalizedFuture ==
    [ block   : FullBlockFuture,
      request : Unanswered \cup {"answered"},
      headers : HeaderRanges \cup {<<>>} ]

NewFinalized == [block |-> NewFullBlock, request |-> "none", headers |-> <<>>]

\* FetchProofFuture: one request.
NewProof == "new"
ProofFuture == {"new", "waiting", "proof", Nothing}

\* None stands for "no future".
ASSUME NoneAssumption == None \notin FullBlockFuture \cup FinalizedFuture \cup ProofFuture

Outcome(kind, h, header, body, ancestors) ==
    [kind |-> kind, hash |-> h, header |-> header, body |-> body, ancestors |-> ancestors]

Init ==
    /\ full = [h \in Hash |-> None]
    /\ proof = [h \in Hash |-> None]
    /\ finalized = [h \in Hash |-> None]
    /\ outcomes = {}
    /\ woken = TRUE

-----------------------------------------------------------------------------
(* Requests of the engine.  A hash that is in flight is not requested      *)
(* again.  The engine polls the downloader after the handler that asks.    *)

DownloadFullBlock(h) ==
    /\ h \in FullRequests
    /\ full[h] = None
    /\ full' = [full EXCEPT ![h] = NewFullBlock]
    /\ woken' = TRUE
    /\ UNCHANGED <<proof, finalized, outcomes>>

DownloadProof(h) ==
    /\ h \in ProofRequests
    /\ proof[h] = None
    /\ proof' = [proof EXCEPT ![h] = NewProof]
    /\ woken' = TRUE
    /\ UNCHANGED <<full, finalized, outcomes>>

DownloadFinalizedWithAncestors(h) ==
    /\ h \in FinalizedRequests
    /\ finalized[h] = None
    /\ finalized' = [finalized EXCEPT ![h] = NewFinalized]
    /\ woken' = TRUE
    /\ UNCHANGED <<full, proof, outcomes>>

-----------------------------------------------------------------------------
(* Answers of peers wake the engine task.                                  *)

Parts == {"header_request", "body_request"}

AnswerFull(h, part, answer) ==
    /\ full[h] # None
    /\ full[h][part] = "waiting"
    /\ full' = [full EXCEPT ![h][part] = answer]
    /\ woken' = TRUE
    /\ UNCHANGED <<proof, finalized, outcomes>>

AnswerFinalized(h, part, answer) ==
    /\ finalized[h] # None
    /\ finalized[h].block[part] = "waiting"
    /\ finalized' = [finalized EXCEPT ![h].block[part] = answer]
    /\ woken' = TRUE
    /\ UNCHANGED <<full, proof, outcomes>>

AnswerAncestors(h, headers) ==
    /\ finalized[h] # None
    /\ finalized[h].request = "waiting"
    /\ finalized' = [finalized EXCEPT ![h].request = "answered", ![h].headers = headers]
    /\ woken' = TRUE
    /\ UNCHANGED <<full, proof, outcomes>>

\* A proof is not compared with the block at this point: any that decodes and
\* is not empty will do.
AnswerProof(h, answer) ==
    /\ proof[h] = "waiting"
    /\ proof' = [proof EXCEPT ![h] = answer]
    /\ woken' = TRUE
    /\ UNCHANGED <<full, finalized, outcomes>>

-----------------------------------------------------------------------------
(* FetchFullBlockFuture::poll.  A request made anew during a poll is       *)
(* polled at once, because the loop goes round again.                      *)

Polled(request) == IF request = "new" THEN "waiting" ELSE request

\* Faulty variant: the request made anew is not polled.
RetryUnpolled == "new"

Retry == "waiting"

PollHeader(h, f) ==
    IF ~Answered(f.header_request)
    THEN [f EXCEPT !.header_request = Polled(@)]
    ELSE IF f.header_request = h
    THEN [f EXCEPT !.header_request = "none", !.header = h]
    ELSE [f EXCEPT !.header_request = Retry]

PollBody(f) ==
    IF ~Answered(f.body_request)
    THEN [f EXCEPT !.body_request = Polled(@)]
    ELSE IF f.body_request # Nothing
    THEN [f EXCEPT !.body_request = "none", !.body = f.body_request]
    ELSE [f EXCEPT !.body_request = Retry]

Finished(f) == f.header # None /\ f.body # None

\* A body is checked when the header is there, whichever came first.
CheckBody(f) ==
    IF Finished(f) /\ f.body # f.header
    THEN [f EXCEPT !.body = None, !.body_request = Retry]
    ELSE f

PollFullBlock(h, f) == CheckBody(PollBody(PollHeader(h, f)))

-----------------------------------------------------------------------------
(* FetchHeadersRangeFuture and FetchFullBlockWithAncestorsFuture.          *)

\* Headers are falling, from the parent of the block down.
PollAncestors(f) ==
    IF f.request = "answered" /\ ~AcceptHeaders(Parent[f.block.header], AncestorWindow, f.headers)
    THEN [f EXCEPT !.request = Retry, !.headers = <<>>]
    ELSE [f EXCEPT !.request = Polled(@)]

\* When the block is there the request for the headers is made and polled.
PollFinalized(h, f) ==
    IF f.request # "none" THEN PollAncestors(f)
    ELSE LET block == PollFullBlock(h, f.block)
         IN  [f EXCEPT !.block = block, !.request = IF Finished(block) THEN Polled("new") ELSE "none"]

-----------------------------------------------------------------------------
(* FetchProofFuture::poll, for a request that has brought no proof.        *)

PollProof(request) == IF request = Nothing THEN Retry ELSE Polled(request)

-----------------------------------------------------------------------------
(* EngineDownloader::poll.                                                 *)

\* Finalized blocks are polled, and so handed out, first, and proofs last.
FirstKind(o) ==
    \A p \in outcomes :
        /\ p.kind = "finalized" => o.kind = "finalized"
        /\ p.kind = "full" => o.kind # "proof"

TakeOutcome(o) ==
    /\ o \in outcomes
    /\ FirstKind(o)
    /\ outcomes' = outcomes \ {o}
    /\ woken' = TRUE
    /\ UNCHANGED <<full, proof, finalized>>

\* No outcome is left: every future is polled once.
AdvanceRequests ==
    /\ woken
    /\ outcomes = {}
    /\ LET fulls == [h \in {x \in Hash : full[x] # None} |-> PollFullBlock(h, full[h])]
           finals == [h \in {x \in Hash : finalized[x] # None} |-> PollFinalized(h, finalized[h])]
           fullDone == {h \in DOMAIN fulls : Finished(fulls[h])}
           finalDone == {h \in DOMAIN finals : finals[h].request = "answered"}
           proofDone == {h \in Hash : proof[h] = "proof"}
       IN  /\ full' = [h \in Hash |-> IF h \in DOMAIN fulls \ fullDone THEN fulls[h] ELSE None]
           /\ finalized' =
                 [h \in Hash |-> IF h \in DOMAIN finals \ finalDone THEN finals[h] ELSE None]
           /\ proof' = [h \in Hash |->
                 IF proof[h] = None \/ h \in proofDone THEN None ELSE PollProof(proof[h])]
           /\ outcomes' =
                 {Outcome("finalized", h, finals[h].block.header, finals[h].block.body,
                          finals[h].headers) : h \in finalDone}
                 \cup {Outcome("full", h, fulls[h].header, fulls[h].body, <<>>) : h \in fullDone}
                 \cup {Outcome("proof", h, None, None, <<>>) : h \in proofDone}
    /\ woken' = (outcomes' # {})

-----------------------------------------------------------------------------
PeerAnswer(h) ==
    \/ \E part \in Parts, answer \in {h, Nothing} \cup Strays :
          AnswerFull(h, part, answer) \/ AnswerFinalized(h, part, answer)
    \/ \E headers \in HeaderRanges \cup {<<>>} : AnswerAncestors(h, headers)
    \/ \E answer \in {"proof", Nothing} : AnswerProof(h, answer)

Next ==
    \/ \E h \in Hash :
          \/ DownloadFullBlock(h) \/ DownloadProof(h) \/ DownloadFinalizedWithAncestors(h)
          \/ PeerAnswer(h)
    \/ \E o \in outcomes : TakeOutcome(o)
    \/ AdvanceRequests

Spec == Init /\ [][Next]_vars

\* The headers an honest peer sends: the window below h, or all it has.
HonestHeaders(h) ==
    CHOOSE headers \in HeaderRanges :
        /\ ValidHeaderRange(headers)
        /\ headers # <<>> /\ headers[1] = Parent[h]
        /\ Len(headers) = IF Number[h] < AncestorWindow THEN Number[h] ELSE AncestorWindow

\* The engine task runs when it is woken, and a request that is repeated for
\* ever reaches an honest peer at some point.
Fairness ==
    /\ WF_vars(AdvanceRequests)
    /\ WF_vars(\E o \in outcomes : TakeOutcome(o))
    /\ \A h \in FullRequests, part \in Parts : SF_vars(AnswerFull(h, part, h))
    /\ \A h \in ProofRequests : SF_vars(AnswerProof(h, "proof"))
    /\ \A h \in FinalizedRequests :
          /\ \A part \in Parts : SF_vars(AnswerFinalized(h, part, h))
          /\ SF_vars(AnswerAncestors(h, HonestHeaders(h)))

FairSpec == Spec /\ Fairness

-----------------------------------------------------------------------------
\* Whatever peers answer, and in whatever order header, body and headers
\* arrive, the engine gets the block it asked for, with its own body, and with
\* the full window of its own ancestors.
OutcomesAuthentic ==
    \A o \in outcomes :
        /\ o.kind # "proof" => o.header = o.hash /\ o.body = o.hash
        /\ o.kind = "finalized" =>
              /\ Len(o.ancestors) >= AncestorWindow
              /\ o.ancestors[1] = Parent[o.hash]
              /\ \A i \in 1..(Len(o.ancestors) - 1) : Parent[o.ancestors[i]] = o.ancestors[i + 1]
              /\ \A i \in DOMAIN o.ancestors : o.ancestors[i] \in Ancestry[o.hash] \ InvalidHeaders

-----------------------------------------------------------------------------
(* The downloader implements DownloadQueue.                                *)

Deliverable ==
    [ finalized |-> {h \in Hash : Number[h] >= AncestorWindow},
      full      |-> Hash,
      proof     |-> Hash \ {Genesis} ]

Inflight ==
    [ finalized |-> {h \in Hash : finalized[h] # None},
      full      |-> {h \in Hash : full[h] # None},
      proof     |-> {h \in Hash : proof[h] # None} ]

Completed(kind) == {o.hash : o \in {p \in outcomes : p.kind = kind}}

Queue ==
    INSTANCE DownloadQueue
        WITH inflight <- Inflight,
             outcomes <- [ finalized |-> Completed("finalized"),
                           full |-> Completed("full"), proof |-> Completed("proof") ]

\* Requests are neither lost nor duplicated, outcomes are handed out by kind,
\* and exactly the deliverable downloads complete, whatever peers answer before
\* they answer properly.
ImplementsFairDownloadQueue == Queue!QueueFairSpec
=============================================================================
