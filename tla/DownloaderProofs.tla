-------------------------- MODULE DownloaderProofs --------------------------
(***************************************************************************)
(* The downloader hands out what was asked for, and implements             *)
(* DownloadQueue, for every tree of blocks, every set of requests and      *)
(* whatever peers answer.                                                  *)
(***************************************************************************)
EXTENDS Downloader, AdvanceLoop, FullBlockRange, BlocksProofs

-----------------------------------------------------------------------------
(* Ranges of headers.                                                      *)

\* A falling range of headers is a part of the walk along parent hashes from
\* its first header, and no longer than that walk.
LEMMA FallingRange ==
    ASSUME NEW c \in Seq(Hash), c # <<>>,
           \A i \in 1..(Len(c) - 1) : Parent[c[i]] = c[i + 1]
    PROVE  /\ \A i \in DOMAIN c : c[i] \in Ancestry[c[1]]
           /\ Len(c) <= Number[c[1]] + 1
<1>. DEFINE N == Number[c[1]]
            S == {x \in Hash : /\ Number[x] <= N
                               /\ \A i \in 1..Len(c) : Number[x] = N - (i - 1) => x = c[i]}
<1>1. /\ Len(c) \in Nat \ {0} /\ DOMAIN c = 1..Len(c)
      /\ \A i \in 1..Len(c) : c[i] \in Hash
  OBVIOUS
<1>2. c[1] \in Hash /\ N \in Nat
  BY <1>1, BlocksAssumption
<1>3. c[1] \in S
  BY <1>1, <1>2
<1>4. ParentClosed(S)
  <2>. SUFFICES ASSUME NEW x \in S, Parent[x] \in Hash
                PROVE  Parent[x] \in S
    BY DEF ParentClosed
  <2>1. x \in Hash /\ x # Genesis
    BY BlocksAssumption
  <2>2. Number[x] \in Nat /\ Number[Parent[x]] \in Nat /\ Number[x] = Number[Parent[x]] + 1
    BY <2>1, BlocksAssumption
  <2>3. Number[Parent[x]] <= N
    BY <1>2, <2>2
  <2>4. ASSUME NEW i \in 1..Len(c), Number[Parent[x]] = N - (i - 1)
        PROVE  Parent[x] = c[i]
    <3>1. i - 1 \in 1..(Len(c) - 1) /\ Number[x] = N - ((i - 1) - 1)
      BY <1>1, <1>2, <2>2, <2>4
    <3>2. x = c[i - 1]
      BY <1>1, <3>1
    <3>3. Parent[c[i - 1]] = c[(i - 1) + 1]
      BY <3>1
    <3>. QED  BY <3>2, <3>3
  <2>. QED  BY <2>3, <2>4
<1>5. Ancestry[c[1]] \subseteq S
  <2>. HIDE DEF S
  <2>1. S \in SUBSET Hash
    BY DEF S
  <2>. QED  BY <1>2, <1>3, <1>4, <2>1, AncestryLeast
<1>6. ASSUME NEW i \in 1..Len(c), i - 1 <= N
      PROVE  c[i] \in Ancestry[c[1]] /\ Number[c[i]] = N - (i - 1)
  <2>1. N - (i - 1) \in Nat /\ N - (i - 1) <= N
    BY <1>1, <1>2, <1>6
  <2>2. PICK x \in Ancestry[c[1]] : Number[x] = N - (i - 1)
    BY <1>2, <2>1, AncestryComplete
  <2>3. x = c[i]
    BY <1>5, <2>2
  <2>. QED  BY <2>2, <2>3
<1>7. Len(c) <= N + 1
  <2>. SUFFICES ASSUME ~(Len(c) <= N + 1) PROVE FALSE
    OBVIOUS
  <2>1. N + 1 \in 1..(Len(c) - 1) /\ N + 1 \in 1..Len(c) /\ (N + 1) + 1 \in 1..Len(c)
    BY <1>1, <1>2
  <2>2. Number[c[N + 1]] = 0
    BY <1>2, <1>6, <2>1
  <2>3. c[N + 1] \in Hash /\ c[(N + 1) + 1] \in Hash
    BY <1>1, <2>1
  <2>4. c[N + 1] = Genesis
    <3>. SUFFICES ASSUME c[N + 1] # Genesis PROVE FALSE
      OBVIOUS
    <3>1. Parent[c[N + 1]] \in Hash /\ Number[c[N + 1]] = Number[Parent[c[N + 1]]] + 1
      BY <2>3, BlocksAssumption
    <3>2. Number[Parent[c[N + 1]]] \in Nat
      BY <3>1, BlocksAssumption
    <3>. QED  BY <2>2, <3>1, <3>2
  <2>5. c[(N + 1) + 1] = Zero
    BY <2>1, <2>4, BlocksAssumption
  <2>. QED  BY <2>3, <2>5, BlocksAssumption
<1>8. ASSUME NEW i \in DOMAIN c
      PROVE  c[i] \in Ancestry[c[1]]
  <2>1. i \in 1..Len(c) /\ i - 1 <= N
    BY <1>1, <1>2, <1>7
  <2>. QED  BY <1>6, <2>1
<1>. QED  BY <1>7, <1>8

\* What FetchHeadersRangeFuture accepts below a finalized block: the window of
\* the block's own ancestors, none of them invalid.  The block has that many.
LEMMA AcceptedHeaders ==
    ASSUME NEW h \in Hash \ {Genesis}, NEW c \in Seq(Hash),
           AcceptHeaders(Parent[h], AncestorWindow, c)
    PROVE  /\ Len(c) >= AncestorWindow
           /\ c[1] = Parent[h]
           /\ \A i \in 1..(Len(c) - 1) : Parent[c[i]] = c[i + 1]
           /\ \A i \in DOMAIN c : c[i] \in Ancestry[h] \ InvalidHeaders
           /\ Number[h] >= AncestorWindow
<1>1. /\ Len(c) >= AncestorWindow /\ c[1] = Parent[h]
      /\ \A i \in 1..(Len(c) - 1) : Parent[c[i]] = c[i + 1]
      /\ \A i \in DOMAIN c : c[i] \notin InvalidHeaders
  BY DEF AcceptHeaders, ValidHeaderRange
<1>2. AncestorWindow \in Nat \ {0} /\ Len(c) \in Nat
  BY DownloaderAssumption
<1>3. c # <<>>
  BY <1>1, <1>2
<1>4. /\ Parent[h] \in Hash /\ Number[h] = Number[Parent[h]] + 1
      /\ Number[h] \in Nat /\ Number[Parent[h]] \in Nat
  BY BlocksAssumption
<1>5. /\ \A i \in DOMAIN c : c[i] \in Ancestry[Parent[h]]
      /\ Len(c) <= Number[Parent[h]] + 1
  BY <1>1, <1>3, FallingRange
<1>6. Ancestry[Parent[h]] \subseteq Ancestry[h]
  BY <1>4, AncestryStep
<1>7. Number[h] >= AncestorWindow
  BY <1>1, <1>2, <1>4, <1>5
<1>. QED  BY <1>1, <1>5, <1>6, <1>7

-----------------------------------------------------------------------------
(* The inductive invariant.                                                *)

\* What a full-block future has brought: the header with the hash asked for,
\* and, once the header is there, no other body than its own.
FullSound(h, f) ==
    /\ f \in FullBlockFuture
    /\ f.header \in {None, h}
    /\ Finished(f) => f.body = f.header

\* A finalized future asks for headers when it has the right block.
FinalizedSound(h, f) ==
    /\ f \in FinalizedFuture
    /\ FullSound(h, f.block)
    /\ f.request # "none" => f.block.header = h /\ f.block.body = h

FuturesSound ==
    /\ full \in [Hash -> FullBlockFuture \cup {None}]
    /\ \A h \in Hash : full[h] # None => FullSound(h, full[h])
    /\ finalized \in [Hash -> FinalizedFuture \cup {None}]
    /\ \A h \in Hash : finalized[h] # None =>
          h \in FinalizedRequests /\ FinalizedSound(h, finalized[h])
    /\ proof \in [Hash -> ProofFuture \cup {None}]
    /\ \A h \in Hash : proof[h] # None => h \in ProofRequests

\* A request has one outcome, which is of its kind.
OutcomesOnce ==
    /\ \A o \in outcomes : o.kind \in {"finalized", "full", "proof"} /\ o.hash \in Hash
    /\ \A o, p \in outcomes : o.kind = p.kind /\ o.hash = p.hash => o = p

DownloaderInv == FuturesSound /\ OutcomesOnce /\ OutcomesAuthentic

-----------------------------------------------------------------------------
(* Polling a future keeps it sound.                                        *)

\* FetchFullBlockFuture::poll: the future stays sound, so that it finishes with
\* the block that was asked for.
LEMMA PollFullBlockSound ==
    ASSUME NEW h \in Hash, NEW f, FullSound(h, f)
    PROVE  /\ FullSound(h, PollFullBlock(h, f))
           /\ Finished(PollFullBlock(h, f)) =>
                 PollFullBlock(h, f).header = h /\ PollFullBlock(h, f).body = h
<1>. DEFINE a == PollHeader(h, f)
            b == PollBody(a)
            c == CheckBody(b)
<1>1. a \in FullBlockFuture /\ a.header \in {None, h}
  BY DEF FullSound, PollHeader, Polled, Retry, Answered, Unanswered, FullBlockFuture
<1>2. b \in FullBlockFuture /\ b.header \in {None, h}
  <2>. HIDE DEF a
  <2>. QED
    BY <1>1 DEF PollBody, Polled, Retry, Answered, Unanswered, FullBlockFuture
<1>3. FullSound(h, c)
  <2>. HIDE DEF b
  <2>1. CASE Finished(b) /\ b.body # b.header
    <3>1. c \in FullBlockFuture /\ c.header = b.header /\ c.body = None
      BY <1>2, <2>1 DEF CheckBody, Retry, Unanswered, FullBlockFuture
    <3>. QED  BY <1>2, <3>1 DEF FullSound, Finished
  <2>2. CASE ~(Finished(b) /\ b.body # b.header)
    <3>1. c = b
      BY <2>2 DEF CheckBody
    <3>. QED  BY <1>2, <2>2, <3>1 DEF FullSound
  <2>. QED  BY <2>1, <2>2
<1>4. PollFullBlock(h, f) = c
  BY DEF PollFullBlock
<1>5. Finished(c) => c.header = h /\ c.body = h
  <2>. HIDE DEF c
  <2>. QED  BY <1>3 DEF FullSound, Finished
<1>. QED
  <2>. HIDE DEF c
  <2>. QED  BY <1>3, <1>4, <1>5

\* FetchFullBlockWithAncestorsFuture::poll: the future stays sound, and has its
\* answer only when that is the window of ancestors of its block.
LEMMA PollFinalizedSound ==
    ASSUME NEW h \in FinalizedRequests, NEW f, FinalizedSound(h, f)
    PROVE  /\ FinalizedSound(h, PollFinalized(h, f))
           /\ PollFinalized(h, f).request = "answered" =>
                 /\ PollFinalized(h, f).block.header = h
                 /\ PollFinalized(h, f).block.body = h
                 /\ PollFinalized(h, f).headers \in Seq(Hash)
                 /\ AcceptHeaders(Parent[h], AncestorWindow, PollFinalized(h, f).headers)
<1>. DEFINE p == PollFinalized(h, f)
<1>0. h \in Hash /\ f \in FinalizedFuture /\ HeaderRanges \cup {<<>>} \subseteq Seq(Hash)
  <2>1. <<>> \in Seq(Hash)
    OBVIOUS
  <2>2. HeaderRanges \subseteq Seq(Hash)
    BY DownloaderAssumption
  <2>. QED  BY <2>1, <2>2, DownloaderAssumption DEF FinalizedSound
<1>1. CASE f.request # "none" /\ f.request = "answered"
           /\ ~AcceptHeaders(Parent[f.block.header], AncestorWindow, f.headers)
  <2>1. p = [f EXCEPT !.request = "waiting", !.headers = <<>>]
    BY <1>1 DEF PollFinalized, PollAncestors, Retry
  <2>2. p \in FinalizedFuture /\ p.request = "waiting" /\ p.block = f.block
    BY <1>0, <2>1 DEF FinalizedFuture, Unanswered
  <2>. QED
    <3>. HIDE DEF p
    <3>1. FinalizedSound(h, p) /\ p.request # "answered"
      BY <1>1, <2>2 DEF FinalizedSound
    <3>. QED  BY <3>1 DEF p
<1>2. CASE f.request # "none"
           /\ ~(f.request = "answered"
                 /\ ~AcceptHeaders(Parent[f.block.header], AncestorWindow, f.headers))
  <2>1. p = [f EXCEPT !.request = Polled(f.request)]
    BY <1>2 DEF PollFinalized, PollAncestors
  <2>2. /\ p \in FinalizedFuture /\ p.block = f.block /\ p.headers = f.headers
        /\ p.request = "answered" => f.request = "answered"
    BY <1>0, <2>1 DEF FinalizedFuture, Unanswered, Polled
  <2>3. f.block.header = h /\ f.block.body = h
    BY <1>2 DEF FinalizedSound
  <2>4. p.headers \in Seq(Hash)
    BY <1>0, <2>2 DEF FinalizedFuture
  <2>. QED
    <3>. HIDE DEF p
    <3>1. FinalizedSound(h, p)
      BY <2>2, <2>3 DEF FinalizedSound
    <3>2. p.request = "answered" => AcceptHeaders(Parent[h], AncestorWindow, p.headers)
      BY <1>2, <2>2, <2>3
    <3>. QED  BY <2>2, <2>3, <2>4, <3>1, <3>2 DEF p
<1>3. CASE f.request = "none"
  <2>. DEFINE block == PollFullBlock(h, f.block)
              request == IF Finished(block) THEN Polled("new") ELSE "none"
  <2>1. p = [f EXCEPT !.block = block, !.request = request]
    BY <1>3 DEF PollFinalized
  <2>2. FullSound(h, block) /\ (Finished(block) => block.header = h /\ block.body = h)
    BY <1>0, PollFullBlockSound DEF FinalizedSound
  <2>3. request \in {"none", "waiting"} /\ (request # "none" => Finished(block))
    <3>. HIDE DEF block
    <3>. QED  BY DEF Polled
  <2>. HIDE DEF block, request
  <2>4. p \in FinalizedFuture /\ p.block = block /\ p.request = request
    BY <1>0, <2>1, <2>2, <2>3 DEF FinalizedFuture, FullSound, Unanswered
  <2>. QED
    <3>. HIDE DEF p
    <3>1. FinalizedSound(h, p) /\ p.request # "answered"
      BY <2>2, <2>3, <2>4 DEF FinalizedSound
    <3>. QED  BY <3>1 DEF p
<1>. QED  BY <1>1, <1>2, <1>3

-----------------------------------------------------------------------------
(* A poll of the downloader.                                               *)

\* The downloads that complete when every future is polled.
FullDone == {h \in Hash : full[h] # None /\ Finished(PollFullBlock(h, full[h]))}
FinalizedDone ==
    {h \in Hash : finalized[h] # None /\ PollFinalized(h, finalized[h]).request = "answered"}
ProofDone == {h \in Hash : proof[h] = "proof"}

\* The outcome of a full block, and of a finalized one.
FullOutcome(h) ==
    Outcome("full", h, PollFullBlock(h, full[h]).header, PollFullBlock(h, full[h]).body, <<>>)
FinalizedOutcome(h) ==
    Outcome("finalized", h, PollFinalized(h, finalized[h]).block.header,
            PollFinalized(h, finalized[h]).block.body, PollFinalized(h, finalized[h]).headers)
ProofOutcome(h) == Outcome("proof", h, None, None, <<>>)

\* EngineDownloader::poll, one hash at a time: a future is polled and stays, or
\* goes and leaves its outcome.
LEMMA AdvancePointwise ==
    ASSUME AdvanceRequests
    PROVE  /\ full' = [h \in Hash |->
                 IF full[h] # None /\ h \notin FullDone THEN PollFullBlock(h, full[h]) ELSE None]
           /\ finalized' = [h \in Hash |->
                 IF finalized[h] # None /\ h \notin FinalizedDone
                 THEN PollFinalized(h, finalized[h]) ELSE None]
           /\ proof' = [h \in Hash |->
                 IF proof[h] # None /\ h \notin ProofDone THEN PollProof(proof[h]) ELSE None]
           /\ outcomes' = {FinalizedOutcome(h) : h \in FinalizedDone}
                          \cup {FullOutcome(h) : h \in FullDone}
                          \cup {ProofOutcome(h) : h \in ProofDone}
<1>. DEFINE fulls == [h \in {x \in Hash : full[x] # None} |-> PollFullBlock(h, full[h])]
            finals == [h \in {x \in Hash : finalized[x] # None} |-> PollFinalized(h, finalized[h])]
            fullDone == {h \in DOMAIN fulls : Finished(fulls[h])}
            finalDone == {h \in DOMAIN finals : finals[h].request = "answered"}
            proofDone == {h \in Hash : proof[h] = "proof"}
<1>1. /\ full' = [h \in Hash |-> IF h \in DOMAIN fulls \ fullDone THEN fulls[h] ELSE None]
      /\ finalized' = [h \in Hash |-> IF h \in DOMAIN finals \ finalDone THEN finals[h] ELSE None]
      /\ proof' = [h \in Hash |->
            IF proof[h] = None \/ h \in proofDone THEN None ELSE PollProof(proof[h])]
      /\ outcomes' =
            {Outcome("finalized", h, finals[h].block.header, finals[h].block.body,
                     finals[h].headers) : h \in finalDone}
            \cup {Outcome("full", h, fulls[h].header, fulls[h].body, <<>>) : h \in fullDone}
            \cup {Outcome("proof", h, None, None, <<>>) : h \in proofDone}
  BY DEF AdvanceRequests
<1>2. /\ DOMAIN fulls = {x \in Hash : full[x] # None}
      /\ \A h \in DOMAIN fulls : fulls[h] = PollFullBlock(h, full[h])
  OBVIOUS
<1>3. /\ DOMAIN finals = {x \in Hash : finalized[x] # None}
      /\ \A h \in DOMAIN finals : finals[h] = PollFinalized(h, finalized[h])
  OBVIOUS
<1>. HIDE DEF fulls, finals
<1>4. fullDone = FullDone
  BY <1>2 DEF FullDone
<1>5. finalDone = FinalizedDone
  BY <1>3 DEF FinalizedDone
<1>6. proofDone = ProofDone
  BY DEF ProofDone
<1>7. {Outcome("full", h, fulls[h].header, fulls[h].body, <<>>) : h \in fullDone}
        = {FullOutcome(h) : h \in FullDone}
  <2>1. \A h \in FullDone :
           Outcome("full", h, fulls[h].header, fulls[h].body, <<>>) = FullOutcome(h)
    BY <1>2 DEF FullOutcome, FullDone
  <2>. QED  BY <1>4, <2>1
<1>8. {Outcome("finalized", h, finals[h].block.header, finals[h].block.body,
               finals[h].headers) : h \in finalDone}
        = {FinalizedOutcome(h) : h \in FinalizedDone}
  <2>1. \A h \in FinalizedDone :
           Outcome("finalized", h, finals[h].block.header, finals[h].block.body,
                   finals[h].headers) = FinalizedOutcome(h)
    BY <1>3 DEF FinalizedOutcome, FinalizedDone
  <2>. QED  BY <1>5, <2>1
<1>9. {Outcome("proof", h, None, None, <<>>) : h \in proofDone} = {ProofOutcome(h) : h \in ProofDone}
  BY <1>6 DEF ProofOutcome
<1>. HIDE DEF fullDone, finalDone, proofDone
<1>10. full' = [h \in Hash |->
          IF full[h] # None /\ h \notin FullDone THEN PollFullBlock(h, full[h]) ELSE None]
  BY <1>1, <1>2, <1>4
<1>11. finalized' = [h \in Hash |->
          IF finalized[h] # None /\ h \notin FinalizedDone
          THEN PollFinalized(h, finalized[h]) ELSE None]
  BY <1>1, <1>3, <1>5
<1>12. proof' = [h \in Hash |->
          IF proof[h] # None /\ h \notin ProofDone THEN PollProof(proof[h]) ELSE None]
  BY <1>1, <1>6
<1>. QED  BY <1>1, <1>7, <1>8, <1>9, <1>10, <1>11, <1>12

\* The outcomes of a poll, with their kinds and hashes.
LEMMA OutcomesOfPoll ==
    ASSUME AdvanceRequests
    PROVE  /\ \A o \in outcomes' :
                 \/ o.kind = "finalized" /\ o.hash \in FinalizedDone /\ o = FinalizedOutcome(o.hash)
                 \/ o.kind = "full" /\ o.hash \in FullDone /\ o = FullOutcome(o.hash)
                 \/ o.kind = "proof" /\ o.hash \in ProofDone /\ o = ProofOutcome(o.hash)
           /\ Completed("finalized")' = FinalizedDone
           /\ Completed("full")' = FullDone
           /\ Completed("proof")' = ProofDone
<1>1. /\ \A h \in FinalizedDone :
            FinalizedOutcome(h).kind = "finalized" /\ FinalizedOutcome(h).hash = h
      /\ \A h \in FullDone : FullOutcome(h).kind = "full" /\ FullOutcome(h).hash = h
      /\ \A h \in ProofDone : ProofOutcome(h).kind = "proof" /\ ProofOutcome(h).hash = h
  BY DEF FinalizedOutcome, FullOutcome, ProofOutcome, Outcome
<1>2. outcomes' = {FinalizedOutcome(h) : h \in FinalizedDone}
                  \cup {FullOutcome(h) : h \in FullDone}
                  \cup {ProofOutcome(h) : h \in ProofDone}
  BY AdvancePointwise
<1>3. \A o \in outcomes' :
         \/ o.kind = "finalized" /\ o.hash \in FinalizedDone /\ o = FinalizedOutcome(o.hash)
         \/ o.kind = "full" /\ o.hash \in FullDone /\ o = FullOutcome(o.hash)
         \/ o.kind = "proof" /\ o.hash \in ProofDone /\ o = ProofOutcome(o.hash)
  BY <1>1, <1>2
<1>4. /\ Completed("finalized")' = FinalizedDone
      /\ Completed("full")' = FullDone
      /\ Completed("proof")' = ProofDone
  BY <1>1, <1>2, <1>3 DEF Completed
<1>. QED  BY <1>3, <1>4

-----------------------------------------------------------------------------
(* Only what was asked for is handed out.                                  *)

\* A poll leaves sound futures, one outcome for each download that completed,
\* and in it the block that was asked for.
LEMMA AdvanceKeepsInv ==
    ASSUME DownloaderInv, AdvanceRequests
    PROVE  DownloaderInv'
<1>0. FinalizedRequests \subseteq Hash \ {Genesis}
  BY DownloaderAssumption
<1>1. ASSUME NEW h \in Hash, full[h] # None
      PROVE  /\ FullSound(h, PollFullBlock(h, full[h]))
             /\ h \in FullDone => /\ PollFullBlock(h, full[h]).header = h
                                  /\ PollFullBlock(h, full[h]).body = h
  BY <1>1, PollFullBlockSound DEF DownloaderInv, FuturesSound, FullDone
<1>2. ASSUME NEW h \in Hash, finalized[h] # None
      PROVE  /\ h \in FinalizedRequests
             /\ FinalizedSound(h, PollFinalized(h, finalized[h]))
             /\ h \in FinalizedDone =>
                   /\ PollFinalized(h, finalized[h]).block.header = h
                   /\ PollFinalized(h, finalized[h]).block.body = h
                   /\ PollFinalized(h, finalized[h]).headers \in Seq(Hash)
                   /\ AcceptHeaders(Parent[h], AncestorWindow,
                                    PollFinalized(h, finalized[h]).headers)
  <2>1. h \in FinalizedRequests /\ FinalizedSound(h, finalized[h])
    BY <1>2 DEF DownloaderInv, FuturesSound
  <2>. QED  BY <2>1, PollFinalizedSound DEF FinalizedDone
<1>3. ASSUME NEW h \in Hash, proof[h] # None
      PROVE  PollProof(proof[h]) \in ProofFuture /\ h \in ProofRequests
  BY <1>3 DEF DownloaderInv, FuturesSound, ProofFuture, PollProof, Polled, Retry, Nothing
<1>4. FuturesSound'
  <2>1. /\ full' \in [Hash -> FullBlockFuture \cup {None}]
        /\ \A h \in Hash : full'[h] # None => FullSound(h, full'[h])
    BY <1>1, AdvancePointwise DEF FullSound
  <2>2. /\ finalized' \in [Hash -> FinalizedFuture \cup {None}]
        /\ \A h \in Hash : finalized'[h] # None =>
              h \in FinalizedRequests /\ FinalizedSound(h, finalized'[h])
    BY <1>2, AdvancePointwise DEF FinalizedSound
  <2>3. /\ proof' \in [Hash -> ProofFuture \cup {None}]
        /\ \A h \in Hash : proof'[h] # None => h \in ProofRequests
    BY <1>3, AdvancePointwise
  <2>. QED  BY <2>1, <2>2, <2>3 DEF FuturesSound
<1>5. OutcomesOnce'
  BY OutcomesOfPoll DEF OutcomesOnce, FinalizedDone, FullDone, ProofDone
<1>6. OutcomesAuthentic'
  <2>. SUFFICES ASSUME NEW o \in outcomes'
                PROVE  /\ o.kind # "proof" => o.header = o.hash /\ o.body = o.hash
                       /\ o.kind = "finalized" =>
                             /\ Len(o.ancestors) >= AncestorWindow
                             /\ o.ancestors[1] = Parent[o.hash]
                             /\ \A i \in 1..(Len(o.ancestors) - 1) :
                                   Parent[o.ancestors[i]] = o.ancestors[i + 1]
                             /\ \A i \in DOMAIN o.ancestors :
                                   o.ancestors[i] \in Ancestry[o.hash] \ InvalidHeaders
    BY DEF OutcomesAuthentic
  <2>1. CASE o.kind = "finalized"
    <3>. DEFINE h == o.hash
                c == o.ancestors
    <3>1. h \in FinalizedDone /\ o = FinalizedOutcome(h)
      BY <2>1, OutcomesOfPoll
    <3>2. h \in Hash /\ finalized[h] # None
      BY <3>1 DEF FinalizedDone
    <3>3. /\ o.header = PollFinalized(h, finalized[h]).block.header
          /\ o.body = PollFinalized(h, finalized[h]).block.body
          /\ c = PollFinalized(h, finalized[h]).headers
      BY <3>1 DEF FinalizedOutcome, Outcome
    <3>4. /\ h \in Hash \ {Genesis} /\ o.header = h /\ o.body = h
          /\ c \in Seq(Hash) /\ AcceptHeaders(Parent[h], AncestorWindow, c)
      BY <1>0, <1>2, <3>1, <3>2, <3>3
    <3>5. /\ Len(c) >= AncestorWindow
          /\ c[1] = Parent[h]
          /\ \A i \in 1..(Len(c) - 1) : Parent[c[i]] = c[i + 1]
          /\ \A i \in DOMAIN c : c[i] \in Ancestry[h] \ InvalidHeaders
      BY <3>4, AcceptedHeaders
    <3>. QED  BY <3>4, <3>5
  <2>2. CASE o.kind = "full"
    <3>1. o.hash \in FullDone /\ o = FullOutcome(o.hash)
      BY <2>2, OutcomesOfPoll
    <3>2. o.hash \in Hash /\ full[o.hash] # None
      BY <3>1 DEF FullDone
    <3>3. /\ o.header = PollFullBlock(o.hash, full[o.hash]).header
          /\ o.body = PollFullBlock(o.hash, full[o.hash]).body
      BY <3>1 DEF FullOutcome, Outcome
    <3>. QED  BY <1>1, <2>2, <3>1, <3>2, <3>3
  <2>3. CASE o.kind = "proof"
    BY <2>3
  <2>. QED  BY <2>1, <2>2, <2>3, OutcomesOfPoll
<1>. QED  BY <1>4, <1>5, <1>6 DEF DownloaderInv

\* An answer of a peer is kept in the request it answers.
LEMMA AnswerKeepsInv ==
    ASSUME DownloaderInv, NEW h \in Hash, PeerAnswer(h)
    PROVE  DownloaderInv' /\ Inflight' = Inflight
<1>0. ({h, Nothing} \cup Strays) \subseteq Unanswered \cup Hash \cup {Nothing}
  BY DownloaderAssumption
<1>1. ASSUME NEW part \in Parts, NEW reply \in {h, Nothing} \cup Strays,
             AnswerFull(h, part, reply)
      PROVE  DownloaderInv' /\ Inflight' = Inflight
  <2>1. full[h] # None /\ FullSound(h, full[h]) /\ full \in [Hash -> FullBlockFuture \cup {None}]
    BY <1>1 DEF AnswerFull, DownloaderInv, FuturesSound
  <2>. DEFINE f == [full[h] EXCEPT ![part] = reply]
  <2>2. f \in FullBlockFuture /\ f.header = full[h].header /\ f.body = full[h].body
    BY <1>0, <2>1 DEF FullSound, FullBlockFuture, Parts
  <2>3. FullSound(h, f)
    <3>. HIDE DEF f
    <3>. QED  BY <2>1, <2>2 DEF FullSound, Finished
  <2>4. full' = [full EXCEPT ![h] = f] /\ UNCHANGED <<proof, finalized, outcomes>>
    BY <1>1 DEF AnswerFull
  <2>. HIDE DEF f
  <2>5. f # None
    BY <2>2, NoneAssumption
  <2>6. FuturesSound'
    BY <2>1, <2>2, <2>3, <2>4 DEF FuturesSound, DownloaderInv
  <2>7. OutcomesOnce' /\ OutcomesAuthentic'
    BY <2>4 DEF DownloaderInv, OutcomesOnce, OutcomesAuthentic
  <2>8. \A x \in Hash : full'[x] # None <=> full[x] # None
    BY <2>1, <2>4, <2>5
  <2>. QED  BY <2>4, <2>6, <2>7, <2>8 DEF DownloaderInv, Inflight
<1>2. ASSUME NEW part \in Parts, NEW reply \in {h, Nothing} \cup Strays,
             AnswerFinalized(h, part, reply)
      PROVE  DownloaderInv' /\ Inflight' = Inflight
  <2>1. /\ finalized[h] # None /\ h \in FinalizedRequests /\ FinalizedSound(h, finalized[h])
        /\ finalized \in [Hash -> FinalizedFuture \cup {None}]
    BY <1>2 DEF AnswerFinalized, DownloaderInv, FuturesSound
  <2>. DEFINE b == [finalized[h].block EXCEPT ![part] = reply]
              f == [finalized[h] EXCEPT !.block = b]
  <2>2. /\ b \in FullBlockFuture
        /\ b.header = finalized[h].block.header /\ b.body = finalized[h].block.body
    BY <1>0, <2>1 DEF FinalizedSound, FullSound, FullBlockFuture, Parts
  <2>3. FullSound(h, b)
    <3>. HIDE DEF b
    <3>. QED  BY <2>1, <2>2 DEF FinalizedSound, FullSound, Finished
  <2>4. finalized' = [finalized EXCEPT ![h] = f] /\ UNCHANGED <<full, proof, outcomes>>
    BY <1>2 DEF AnswerFinalized
  <2>. HIDE DEF b
  <2>5. /\ f \in FinalizedFuture /\ f.block = b
        /\ f.request = finalized[h].request
    BY <2>1, <2>2 DEF FinalizedSound, FinalizedFuture
  <2>. HIDE DEF f
  <2>6. FinalizedSound(h, f) /\ f # None
    BY <2>1, <2>2, <2>3, <2>5, NoneAssumption DEF FinalizedSound
  <2>7. FuturesSound'
    BY <2>1, <2>4, <2>5, <2>6 DEF FuturesSound, DownloaderInv
  <2>8. OutcomesOnce' /\ OutcomesAuthentic'
    BY <2>4 DEF DownloaderInv, OutcomesOnce, OutcomesAuthentic
  <2>9. \A x \in Hash : finalized'[x] # None <=> finalized[x] # None
    BY <2>1, <2>4, <2>6
  <2>. QED  BY <2>4, <2>7, <2>8, <2>9 DEF DownloaderInv, Inflight
<1>3. ASSUME NEW range \in HeaderRanges \cup {<<>>}, AnswerAncestors(h, range)
      PROVE  DownloaderInv' /\ Inflight' = Inflight
  <2>1. /\ finalized[h] # None /\ h \in FinalizedRequests /\ FinalizedSound(h, finalized[h])
        /\ finalized[h].request = "waiting"
        /\ finalized \in [Hash -> FinalizedFuture \cup {None}]
    BY <1>3 DEF AnswerAncestors, DownloaderInv, FuturesSound
  <2>. DEFINE f == [finalized[h] EXCEPT !.request = "answered", !.headers = range]
  <2>2. finalized' = [finalized EXCEPT ![h] = f] /\ UNCHANGED <<full, proof, outcomes>>
    BY <1>3 DEF AnswerAncestors
  <2>3. f \in FinalizedFuture /\ f.block = finalized[h].block
    BY <2>1 DEF FinalizedSound, FinalizedFuture
  <2>. HIDE DEF f
  <2>4. FinalizedSound(h, f) /\ f # None
    BY <2>1, <2>3, NoneAssumption DEF FinalizedSound
  <2>5. FuturesSound'
    BY <2>1, <2>2, <2>3, <2>4 DEF FuturesSound, DownloaderInv
  <2>6. OutcomesOnce' /\ OutcomesAuthentic'
    BY <2>2 DEF DownloaderInv, OutcomesOnce, OutcomesAuthentic
  <2>7. \A x \in Hash : finalized'[x] # None <=> finalized[x] # None
    BY <2>1, <2>2, <2>4
  <2>. QED  BY <2>2, <2>5, <2>6, <2>7 DEF DownloaderInv, Inflight
<1>4. ASSUME NEW reply \in {"proof", Nothing}, AnswerProof(h, reply)
      PROVE  DownloaderInv' /\ Inflight' = Inflight
  <2>1. /\ proof \in [Hash -> ProofFuture \cup {None}] /\ proof[h] = "waiting"
        /\ proof' = [proof EXCEPT ![h] = reply] /\ UNCHANGED <<full, finalized, outcomes>>
    BY <1>4 DEF AnswerProof, DownloaderInv, FuturesSound
  <2>2. reply \in ProofFuture /\ reply # None /\ proof[h] # None
    BY <2>1, NoneAssumption DEF ProofFuture
  <2>3. \A x \in Hash : proof'[x] # None <=> proof[x] # None
    BY <2>1, <2>2
  <2>4. FuturesSound'
    BY <2>1, <2>2, <2>3 DEF FuturesSound, DownloaderInv
  <2>5. OutcomesOnce' /\ OutcomesAuthentic'
    BY <2>1 DEF DownloaderInv, OutcomesOnce, OutcomesAuthentic
  <2>. QED  BY <2>1, <2>3, <2>4, <2>5 DEF DownloaderInv, Inflight
<1>. QED  BY <1>1, <1>2, <1>3, <1>4 DEF PeerAnswer

\* A new request adds a future that has brought nothing yet.
LEMMA RequestKeepsInv ==
    ASSUME DownloaderInv, NEW h \in Hash,
           DownloadFullBlock(h) \/ DownloadProof(h) \/ DownloadFinalizedWithAncestors(h)
    PROVE  DownloaderInv'
<1>1. FullSound(h, NewFullBlock)
  BY DEF FullSound, NewFullBlock, FullBlockFuture, Unanswered, Finished
<1>2. FinalizedSound(h, NewFinalized)
  BY <1>1 DEF FinalizedSound, FullSound, NewFinalized, FinalizedFuture, Unanswered
<1>3. OutcomesOnce' /\ OutcomesAuthentic'
  BY DEF DownloaderInv, OutcomesOnce, OutcomesAuthentic,
         DownloadFullBlock, DownloadProof, DownloadFinalizedWithAncestors
<1>4. CASE DownloadFullBlock(h)
  BY <1>1, <1>3, <1>4 DEF DownloadFullBlock, DownloaderInv, FuturesSound, FullSound
<1>5. CASE DownloadProof(h)
  BY <1>3, <1>5 DEF DownloadProof, DownloaderInv, FuturesSound, NewProof, ProofFuture
<1>6. CASE DownloadFinalizedWithAncestors(h)
  BY <1>2, <1>3, <1>6
     DEF DownloadFinalizedWithAncestors, DownloaderInv, FuturesSound, FinalizedSound
<1>. QED  BY <1>4, <1>5, <1>6

\* The inductive invariant holds.
LEMMA DownloaderInvHolds == Spec => []DownloaderInv
<1>1. Init => DownloaderInv
  BY DEF Init, DownloaderInv, FuturesSound, OutcomesOnce, OutcomesAuthentic
<1>2. DownloaderInv /\ [Next]_vars => DownloaderInv'
  <2>. SUFFICES ASSUME DownloaderInv, [Next]_vars PROVE DownloaderInv'
    OBVIOUS
  <2>1. ASSUME NEW h \in Hash,
               DownloadFullBlock(h) \/ DownloadProof(h) \/ DownloadFinalizedWithAncestors(h)
        PROVE  DownloaderInv'
    BY <2>1, RequestKeepsInv
  <2>2. ASSUME NEW h \in Hash, PeerAnswer(h)
        PROVE  DownloaderInv'
    BY <2>2, AnswerKeepsInv
  <2>3. ASSUME NEW o \in outcomes, TakeOutcome(o)
        PROVE  DownloaderInv'
    BY <2>3 DEF TakeOutcome, DownloaderInv, FuturesSound, OutcomesOnce, OutcomesAuthentic
  <2>4. CASE AdvanceRequests
    BY <2>4, AdvanceKeepsInv
  <2>5. CASE UNCHANGED vars
    BY <2>5 DEF vars, DownloaderInv, FuturesSound, OutcomesOnce, OutcomesAuthentic
  <2>. QED  BY <2>1, <2>2, <2>3, <2>4, <2>5 DEF Next
<1>. QED  BY <1>1, <1>2, PTL DEF Spec

\* Whatever peers answer, and in whatever order header, body and headers come,
\* EngineDownloader hands out the block that was asked for with its own body,
\* and with a finalized block the full window of its own valid ancestors.
THEOREM OutcomesStayAuthentic == Spec => []OutcomesAuthentic
<1>1. DownloaderInv => OutcomesAuthentic
  BY DEF DownloaderInv
<1>. QED  BY <1>1, DownloaderInvHolds, PTL

-----------------------------------------------------------------------------
(* The downloader implements DownloadQueue.                                *)

\* The outcomes as the engine sees them, by kind.
Delivered ==
    [finalized |-> Completed("finalized"), full |-> Completed("full"), proof |-> Completed("proof")]

\* A poll completes downloads that peers can deliver, and no others.
LEMMA AdvanceCompletes ==
    ASSUME DownloaderInv, AdvanceRequests
    PROVE  [Queue!QueueNext]_(Queue!queueVars)
<1>0. /\ FinalizedRequests \subseteq Hash \ {Genesis}
      /\ ProofRequests \subseteq Hash \ {Genesis}
  BY DownloaderAssumption
<1>1. /\ Completed("finalized")' = FinalizedDone
      /\ Completed("full")' = FullDone
      /\ Completed("proof")' = ProofDone
  BY OutcomesOfPoll
<1>2. /\ Completed("finalized") = {}
      /\ Completed("full") = {}
      /\ Completed("proof") = {}
  BY DEF AdvanceRequests, Completed
<1>3. {h \in Hash : full'[h] # None} = {h \in Hash : full[h] # None} \ FullDone
  <2>1. \A h \in Hash : full[h] # None => PollFullBlock(h, full[h]) # None
    <3>. SUFFICES ASSUME NEW h \in Hash, full[h] # None
                  PROVE  PollFullBlock(h, full[h]) # None
      OBVIOUS
    <3>1. FullSound(h, PollFullBlock(h, full[h]))
      BY PollFullBlockSound DEF DownloaderInv, FuturesSound
    <3>. QED  BY <3>1, NoneAssumption DEF FullSound
  <2>. QED  BY <2>1, AdvancePointwise
<1>4. ASSUME NEW h \in Hash, finalized[h] # None
      PROVE  /\ PollFinalized(h, finalized[h]) # None
             /\ h \in FinalizedDone => Number[h] >= AncestorWindow
  <2>1. h \in FinalizedRequests /\ FinalizedSound(h, finalized[h])
    BY <1>4 DEF DownloaderInv, FuturesSound
  <2>2. /\ FinalizedSound(h, PollFinalized(h, finalized[h]))
        /\ h \in FinalizedDone =>
              /\ PollFinalized(h, finalized[h]).headers \in Seq(Hash)
              /\ AcceptHeaders(Parent[h], AncestorWindow, PollFinalized(h, finalized[h]).headers)
    BY <2>1, PollFinalizedSound DEF FinalizedDone
  <2>3. PollFinalized(h, finalized[h]) # None
    BY <2>2, NoneAssumption DEF FinalizedSound
  <2>4. h \in FinalizedDone => Number[h] >= AncestorWindow
    BY <1>0, <2>1, <2>2, AcceptedHeaders
  <2>. QED  BY <2>3, <2>4
<1>5. {h \in Hash : finalized'[h] # None} = {h \in Hash : finalized[h] # None} \ FinalizedDone
  BY <1>4, AdvancePointwise
<1>6. {h \in Hash : proof'[h] # None} = {h \in Hash : proof[h] # None} \ ProofDone
  <2>1. \A h \in Hash : proof[h] # None => PollProof(proof[h]) # None
    BY NoneAssumption
       DEF DownloaderInv, FuturesSound, ProofFuture, PollProof, Polled, Retry, Nothing
  <2>. QED  BY <2>1, AdvancePointwise
<1>7. /\ FinalizedDone \subseteq Inflight.finalized \cap Deliverable.finalized
      /\ FullDone \subseteq Inflight.full \cap Deliverable.full
      /\ ProofDone \subseteq Inflight.proof \cap Deliverable.proof
  <2>1. ProofDone \subseteq {h \in Hash : proof[h] # None} \ {Genesis}
    BY <1>0, NoneAssumption DEF ProofDone, DownloaderInv, FuturesSound, ProofFuture
  <2>. QED  BY <1>4, <2>1 DEF Inflight, Deliverable, FinalizedDone, FullDone
<1>8. Delivered' = [finalized |-> FinalizedDone, full |-> FullDone, proof |-> ProofDone]
  BY <1>1 DEF Delivered
<1>9. Delivered = [k \in {"finalized", "full", "proof"} |-> {}]
  BY <1>2 DEF Delivered
<1>10. Inflight' = [finalized |-> Inflight.finalized \ FinalizedDone,
                    full |-> Inflight.full \ FullDone, proof |-> Inflight.proof \ ProofDone]
  BY <1>3, <1>5, <1>6 DEF Inflight
<1>11. CASE FinalizedDone = {} /\ FullDone = {} /\ ProofDone = {}
  <2>1. Inflight' = Inflight /\ Delivered' = Delivered
    BY <1>8, <1>9, <1>10, <1>11 DEF Inflight
  <2>. QED  BY <2>1 DEF Queue!queueVars, Delivered
<1>12. ASSUME NEW k \in {"finalized", "full", "proof"}, NEW h \in Delivered'[k]
       PROVE  Queue!Complete(k, h)
  <2>1. h \in Inflight[k] \cap Deliverable[k]
    BY <1>7, <1>8, <1>12
  <2>2. Delivered' \in [finalized : SUBSET (Inflight["finalized"] \cap Deliverable["finalized"]),
                        full : SUBSET (Inflight["full"] \cap Deliverable["full"]),
                        proof : SUBSET (Inflight["proof"] \cap Deliverable["proof"])]
    BY <1>7, <1>8
  <2>3. Inflight' = [j \in {"finalized", "full", "proof"} |-> Inflight[j] \ Delivered'[j]]
    BY <1>8, <1>10
  <2>. QED
    BY <1>9, <1>12, <2>1, <2>2, <2>3
       DEF Queue!Complete, Queue!Completable, Queue!Empty, Queue!Kind, Delivered
<1>13. CASE ~(FinalizedDone = {} /\ FullDone = {} /\ ProofDone = {})
  <2>1. PICK k \in {"finalized", "full", "proof"} : Delivered'[k] # {}
    BY <1>8, <1>13
  <2>2. PICK h \in Delivered'[k] : TRUE
    BY <2>1
  <2>3. Queue!Complete(k, h)
    BY <1>12, <2>2
  <2>4. h \in Hash
    BY <1>8, <2>2 DEF FinalizedDone, FullDone, ProofDone
  <2>. QED  BY <2>3, <2>4 DEF Queue!QueueNext, Queue!Kind
<1>. QED  BY <1>11, <1>13

\* Taking an outcome takes it from its kind, when no kind before it is left.
LEMMA TakesNext ==
    ASSUME DownloaderInv, NEW o \in outcomes, TakeOutcome(o)
    PROVE  Queue!QueueNext
<1>. DEFINE k == o.kind
            h == o.hash
<1>1. k \in {"finalized", "full", "proof"} /\ h \in Hash
  BY DEF DownloaderInv, OutcomesOnce
<1>2. outcomes' = outcomes \ {o} /\ FirstKind(o) /\ UNCHANGED <<full, proof, finalized>>
  BY DEF TakeOutcome
<1>3. h \in Completed(k)
  BY DEF Completed
<1>4. ASSUME NEW j \in {"finalized", "full", "proof"}
      PROVE  Completed(j)' = IF j = k THEN Completed(j) \ {h} ELSE Completed(j)
  BY <1>2 DEF Completed, DownloaderInv, OutcomesOnce
<1>5. /\ k # "finalized" => Completed("finalized") = {}
      /\ k = "proof" => Completed("full") = {}
  <2>1. ASSUME k # "finalized" PROVE Completed("finalized") = {}
    BY <1>2, <2>1 DEF FirstKind, Completed
  <2>2. ASSUME k = "proof" PROVE Completed("full") = {}
    BY <1>2, <2>2 DEF FirstKind, Completed
  <2>. QED  BY <2>1, <2>2
<1>6. Delivered' = [Delivered EXCEPT ![k] = @ \ {h}]
  BY <1>1, <1>4 DEF Delivered
<1>7. Inflight' = Inflight
  BY <1>2 DEF Inflight
<1>8. Queue!AddsRequests
  BY <1>7 DEF Queue!AddsRequests, Queue!MoreRequests, Inflight
<1>9. h \in Delivered[k]
  BY <1>1, <1>3 DEF Delivered
<1>10. Queue!Take(k, h)
  BY <1>5, <1>6, <1>8, <1>9 DEF Queue!Take, Delivered
<1>. QED  BY <1>1, <1>10 DEF Queue!QueueNext, Queue!Kind

\* A request of the engine puts its hash in flight.
LEMMA RequestsOne ==
    ASSUME DownloaderInv, NEW h \in Hash,
           DownloadFullBlock(h) \/ DownloadProof(h) \/ DownloadFinalizedWithAncestors(h)
    PROVE  Queue!QueueNext
<1>1. UNCHANGED outcomes
  BY DEF DownloadFullBlock, DownloadProof, DownloadFinalizedWithAncestors
<1>2. /\ {x \in Hash : full[x] # None} \subseteq {x \in Hash : full'[x] # None}
      /\ {x \in Hash : finalized[x] # None} \subseteq {x \in Hash : finalized'[x] # None}
      /\ {x \in Hash : proof[x] # None} \subseteq {x \in Hash : proof'[x] # None}
  BY DEF DownloadFullBlock, DownloadProof, DownloadFinalizedWithAncestors,
         DownloaderInv, FuturesSound
<1>3. Queue!AddsRequests
  BY <1>2 DEF Queue!AddsRequests, Queue!MoreRequests, Inflight
<1>4. Delivered' = Delivered
  BY <1>1 DEF Delivered, Completed
<1>5. Queue!Request
  BY <1>3, <1>4 DEF Queue!Request, Delivered
<1>. QED  BY <1>5 DEF Queue!QueueNext

\* EngineDownloader implements DownloadQueue: a request stays in flight until
\* it completes, only downloads that peers can deliver complete (a finalized
\* block with fewer ancestors than the window never does), all outcomes of a
\* poll are handed out before the next one, by kind, each once.  This is the
\* part of ImplementsFairDownloadQueue without fairness.
THEOREM DownloaderImplementsQueue == Spec => Queue!QueueSpec
<1>1. Init => Queue!QueueInit
  <2>. SUFFICES ASSUME Init PROVE Queue!QueueInit
    OBVIOUS
  <2>1. Inflight = [k \in {"finalized", "full", "proof"} |-> {}]
    BY DEF Init, Inflight
  <2>2. Delivered = [k \in {"finalized", "full", "proof"} |-> {}]
    BY DEF Init, Delivered, Completed
  <2>. QED  BY <2>1, <2>2 DEF Queue!QueueInit, Queue!Empty, Queue!Kind, Delivered
<1>2. DownloaderInv /\ [Next]_vars => [Queue!QueueNext]_(Queue!queueVars)
  <2>. SUFFICES ASSUME DownloaderInv, [Next]_vars
                PROVE  [Queue!QueueNext]_(Queue!queueVars)
    OBVIOUS
  <2>1. ASSUME NEW h \in Hash,
               DownloadFullBlock(h) \/ DownloadProof(h) \/ DownloadFinalizedWithAncestors(h)
        PROVE  Queue!QueueNext
    BY <2>1, RequestsOne
  <2>2. ASSUME NEW h \in Hash, PeerAnswer(h)
        PROVE  UNCHANGED Queue!queueVars
    <3>1. Inflight' = Inflight
      BY <2>2, AnswerKeepsInv
    <3>2. outcomes' = outcomes
      BY <2>2 DEF PeerAnswer, AnswerFull, AnswerFinalized, AnswerAncestors, AnswerProof
    <3>. QED  BY <3>1, <3>2 DEF Queue!queueVars, Completed
  <2>3. ASSUME NEW o \in outcomes, TakeOutcome(o)
        PROVE  Queue!QueueNext
    BY <2>3, TakesNext
  <2>4. CASE AdvanceRequests
    BY <2>4, AdvanceCompletes
  <2>5. CASE UNCHANGED vars
    BY <2>5 DEF vars, Queue!queueVars, Inflight, Completed
  <2>. QED  BY <2>1, <2>2, <2>3, <2>4, <2>5 DEF Next
<1>. QED  BY <1>1, <1>2, DownloaderInvHolds, PTL DEF Spec, Queue!QueueSpec

-----------------------------------------------------------------------------
(* The loop of EngineDownloader::poll.                                     *)

\* What makes the loop right: positions up to idx are as they were and have
\* not been polled; those above have.
LoopInv ==
    /\ original \in Seq(Request) /\ inflight \in Seq(Request) /\ completed \in Seq(Request)
    /\ Distinct(original)
    /\ idx \in 0..Len(inflight) /\ idx <= Len(original)
    /\ polls \in [Request -> {0, 1}]
    /\ \A i \in 1..idx : inflight[i] = original[i] /\ polls[inflight[i]] = 0
    /\ \A i \in DOMAIN inflight : i > idx => polls[inflight[i]] = 1
    /\ \A i \in DOMAIN completed : polls[completed[i]] = 1
    /\ NoRequestLost

-----------------------------------------------------------------------------
\* swap_remove keeps everything but the element at i.
LEMMA SwapRemoveProperties ==
    ASSUME NEW S, NEW s \in Seq(S), NEW i \in DOMAIN s
    PROVE  /\ SwapRemove(s, i) \in Seq(S)
           /\ Len(SwapRemove(s, i)) = Len(s) - 1
           /\ \A j \in 1..(Len(s) - 1) :
                 SwapRemove(s, i)[j] = IF j = i THEN s[Len(s)] ELSE s[j]
BY DEF SwapRemove

\* The vector after a request was taken out and, if it was not ready, pushed
\* back: positions below idx are untouched.
LEMMA StepKeepsInv == LoopInv /\ [LoopNext]_loopVars => LoopInv'
<1> SUFFICES ASSUME LoopInv, [LoopNext]_loopVars PROVE LoopInv'
    OBVIOUS
<1>1. CASE UNCHANGED loopVars
  <2>1. original' = original /\ inflight' = inflight /\ idx' = idx /\ polls' = polls
        /\ completed' = completed
    BY <1>1 DEF loopVars
  <2>2. NoRequestLost'
    BY <2>1 DEF LoopInv, NoRequestLost
  <2> QED
    BY <2>1, <2>2 DEF LoopInv
<1>2. ASSUME NEW ready \in BOOLEAN, PollRequest(ready)
      PROVE  LoopInv'
  <2> DEFINE req == inflight[idx]
             rest == SwapRemove(inflight, idx)
             n == Len(inflight)
  <2>1. /\ idx \in 1..n /\ idx \in DOMAIN inflight
        /\ req \in Request /\ polls[req] = 0
        /\ idx' = idx - 1 /\ original' = original
        /\ polls' = [polls EXCEPT ![req] = 1]
    <3>1. idx > 0 /\ idx' = idx - 1 /\ original' = original
          /\ polls' = [polls EXCEPT ![req] = polls[req] + 1]
        BY <1>2 DEF PollRequest
    <3>2. inflight \in Seq(Request) /\ idx \in 0..n /\ \A i \in 1..idx : polls[inflight[i]] = 0
        BY DEF LoopInv
    <3>3. idx \in 1..n /\ idx \in DOMAIN inflight /\ req \in Request
        BY <3>1, <3>2
    <3>4. polls[req] = 0
        BY <3>2, <3>3
    <3> QED
        BY <3>1, <3>3, <3>4
  <2>2. /\ rest \in Seq(Request) /\ Len(rest) = n - 1 /\ DOMAIN rest = 1..(n - 1)
        /\ \A j \in 1..(n - 1) : rest[j] = IF j = idx THEN inflight[n] ELSE inflight[j]
    <3>1. inflight \in Seq(Request) /\ idx \in DOMAIN inflight
        BY <2>1 DEF LoopInv
    <3> QED
        BY <3>1, SwapRemoveProperties
  <2> HIDE DEF rest
  <2>3. Distinct(rest) /\ \A j \in DOMAIN rest : rest[j] # req
    <3>1. n \in Nat /\ DOMAIN inflight = 1..n
        BY DEF LoopInv
    <3>2. \A i, j \in 1..n : inflight[i] = inflight[j] => i = j
        BY <3>1 DEF LoopInv, NoRequestLost, Distinct
    <3>3. \A j \in 1..(n - 1) : rest[j] # req
        BY <2>1, <2>2, <3>1, <3>2
    <3>4. \A i, j \in 1..(n - 1) : rest[i] = rest[j] => i = j
        BY <2>1, <2>2, <3>1, <3>2
    <3> QED
        BY <2>2, <3>3, <3>4 DEF Distinct
  <2>4. \A i \in DOMAIN inflight : i # idx => \E j \in DOMAIN rest : rest[j] = inflight[i]
    <3> SUFFICES ASSUME NEW i \in DOMAIN inflight, i # idx
                 PROVE  \E j \in DOMAIN rest : rest[j] = inflight[i]
        OBVIOUS
    <3>1. CASE i = n
        <4>1. idx \in 1..(n - 1) /\ rest[idx] = inflight[i]
            BY <3>1, <2>1, <2>2 DEF LoopInv
        <4> QED
            BY <4>1, <2>2
    <3>2. CASE i # n
        <4>1. i \in 1..(n - 1) /\ rest[i] = inflight[i]
            BY <3>2, <2>1, <2>2 DEF LoopInv
        <4> QED
            BY <4>1, <2>2
    <3> QED
        BY <3>1, <3>2
  <2>5. Items(rest) = Items(inflight) \ {req}
    <3>1. \A j \in DOMAIN rest : rest[j] \in Items(inflight)
        <4>1. n \in Nat /\ DOMAIN inflight = 1..n
            BY DEF LoopInv
        <4>2. \A j \in 1..(n - 1) : \E k \in 1..n : rest[j] = inflight[k]
            BY <2>1, <2>2, <4>1
        <4> QED
            BY <4>1, <4>2, <2>2 DEF Items
    <3> QED
        BY <2>1, <2>3, <2>4, <3>1 DEF Items
  <2>6. /\ \A j \in 1..(idx - 1) : rest[j] = original[j] /\ polls'[rest[j]] = 0
        /\ \A j \in DOMAIN rest : j > idx - 1 => polls'[rest[j]] = 1
    <3>1. \A j \in 1..(idx - 1) : j \in DOMAIN rest /\ rest[j] = inflight[j]
        BY <2>1, <2>2 DEF LoopInv
    <3>2. \A j \in 1..(idx - 1) : rest[j] = original[j] /\ polls'[rest[j]] = 0
        <4> SUFFICES ASSUME NEW j \in 1..(idx - 1)
                     PROVE  rest[j] = original[j] /\ polls'[rest[j]] = 0
            OBVIOUS
        <4>1. j \in 1..idx
            BY <2>1 DEF LoopInv
        <4>2. rest[j] = original[j] /\ polls[rest[j]] = 0
            BY <4>1, <3>1 DEF LoopInv
        <4>3. rest[j] \in Request /\ rest[j] # req
            BY <2>2, <2>3, <3>1
        <4> QED
            BY <4>2, <4>3, <2>1 DEF LoopInv
    <3>3. ASSUME NEW j \in DOMAIN rest, j > idx - 1
          PROVE  polls'[rest[j]] = 1
        <4>1. \E k \in DOMAIN inflight : k > idx /\ rest[j] = inflight[k]
            <5>1. CASE j = idx
                BY <5>1, <2>1, <2>2, SMTT(30) DEF LoopInv
            <5>2. CASE j # idx
                BY <5>2, <3>3, <2>1, <2>2 DEF LoopInv
            <5> QED
                BY <5>1, <5>2
        <4> QED
            BY <4>1, <2>1, <2>2 DEF LoopInv
    <3> QED
        BY <3>2, <3>3
  <2>7. polls' \in [Request -> {0, 1}]
    BY <2>1 DEF LoopInv
  <2>8. \A i \in DOMAIN completed : polls'[completed[i]] = 1
    BY <2>1 DEF LoopInv
  <2>9. CASE ready
    <3>1. inflight' = rest /\ completed' = Append(completed, req)
        BY <1>2, <2>9 DEF PollRequest, rest
    <3>2. Items(completed') = Items(completed) \cup {req}
        <4>1. completed \in Seq(Request)
            BY DEF LoopInv
        <4>2. /\ DOMAIN completed' = 1..(Len(completed) + 1)
              /\ completed'[Len(completed) + 1] = req
              /\ \A i \in 1..Len(completed) : completed'[i] = completed[i]
            BY <4>1, <3>1, <2>1
        <4> QED
            BY <4>1, <4>2 DEF Items
    <3>3. completed' \in Seq(Request) /\ \A i \in DOMAIN completed' : polls'[completed'[i]] = 1
        BY <3>1, <2>1, <2>8 DEF LoopInv
    <3>4. NoRequestLost'
        <4>1. req \in Items(inflight)
            BY <2>1 DEF Items
        <4>2. Distinct(inflight')
            BY <3>1, <2>3
        <4>3. /\ Items(inflight) \cup Items(completed) = Items(original)
              /\ Items(inflight) \cap Items(completed) = {}
            BY DEF LoopInv, NoRequestLost
        <4>4. /\ Items(inflight') = Items(inflight) \ {req}
              /\ Items(original') = Items(original)
            BY <3>1, <2>5, <2>1
        <4> QED
            BY <4>1, <4>2, <4>3, <4>4, <3>2 DEF NoRequestLost
    <3>5. /\ inflight' \in Seq(Request) /\ DOMAIN inflight' = 1..(n - 1) /\ Len(inflight') = n - 1
          /\ idx' \in 0..Len(inflight') /\ idx' <= Len(original')
        BY <3>1, <2>1, <2>2 DEF LoopInv
    <3>6. /\ \A i \in 1..idx' : inflight'[i] = original'[i] /\ polls'[inflight'[i]] = 0
          /\ \A i \in DOMAIN inflight' : i > idx' => polls'[inflight'[i]] = 1
        BY <3>1, <2>1, <2>6
    <3> QED
        BY <2>1, <2>7, <3>3, <3>4, <3>5, <3>6 DEF LoopInv
  <2>10. CASE ~ready
    <3>1. inflight' = Append(rest, req) /\ completed' = completed
        BY <1>2, <2>10 DEF PollRequest, rest
    <3>2. /\ inflight' \in Seq(Request) /\ DOMAIN inflight' = 1..n /\ Len(inflight') = n
          /\ inflight'[n] = req
          /\ \A i \in 1..(n - 1) : inflight'[i] = rest[i]
        BY <3>1, <2>1, <2>2 DEF LoopInv
    <3>3. Items(inflight') = Items(rest) \cup {req}
        <4>1. n \in Nat \ {0}
            BY <2>1 DEF LoopInv
        <4>2. \A x : (\E i \in 1..n : inflight'[i] = x) <=> ((\E i \in 1..(n - 1) : rest[i] = x) \/ x = req)
            BY <4>1, <3>2
        <4> QED
            BY <4>2, <3>2, <2>2 DEF Items
    <3>4. Distinct(inflight')
        BY <3>2, <2>1, <2>2, <2>3, SMTT(30) DEF Distinct
    <3>5. NoRequestLost'
        <4>1. req \in Items(inflight)
            BY <2>1 DEF Items
        <4>2. /\ Items(inflight) \cup Items(completed) = Items(original)
              /\ Items(inflight) \cap Items(completed) = {}
            BY DEF LoopInv, NoRequestLost
        <4>3. Items(inflight') = Items(inflight)
            BY <4>1, <3>3, <2>5
        <4> QED
            BY <4>2, <4>3, <3>1, <3>4, <2>1 DEF NoRequestLost
    <3>6. idx' \in 0..Len(inflight') /\ idx' <= Len(original')
        BY <3>2, <2>1 DEF LoopInv
    <3>7. \A i \in 1..idx' : inflight'[i] = original'[i] /\ polls'[inflight'[i]] = 0
        BY <3>2, <2>1, <2>2, <2>6
    <3>8. ASSUME NEW i \in DOMAIN inflight', i > idx'
          PROVE  polls'[inflight'[i]] = 1
        <4>1. CASE i = n
            <5>1. inflight'[i] = req
                BY <4>1, <3>2
            <5> QED
                BY <5>1, <2>1 DEF LoopInv
        <4>2. CASE i # n
            <5>1. i \in DOMAIN rest /\ inflight'[i] = rest[i] /\ i > idx - 1
                BY <4>2, <3>2, <3>8, <2>1, <2>2
            <5> QED
                BY <5>1, <2>6
        <4> QED
            BY <4>1, <4>2
    <3>9. completed' \in Seq(Request) /\ \A i \in DOMAIN completed' : polls'[completed'[i]] = 1
        BY <3>1, <2>8 DEF LoopInv
    <3> QED
        BY <2>1, <2>7, <3>2, <3>5, <3>6, <3>7, <3>8, <3>9 DEF LoopInv
  <2> QED
    BY <2>9, <2>10
<1> QED
    BY <1>1, <1>2 DEF LoopNext

LEMMA InitEstablishesInv == LoopInit => LoopInv
<1> SUFFICES ASSUME LoopInit PROVE LoopInv
    OBVIOUS
<1>1. original \in Seq(Request) /\ Distinct(original)
    BY VectorsAssumption DEF LoopInit
<1>2. Items(completed) = {} /\ completed \in Seq(Request)
    BY DEF LoopInit, Items
<1>3. NoRequestLost
    BY <1>1, <1>2 DEF LoopInit, NoRequestLost
<1>4. \A i \in DOMAIN original : original[i] \in Request
    BY <1>1
<1> QED
    BY <1>1, <1>2, <1>3, <1>4 DEF LoopInit, LoopInv

LEMMA InvImpliesOnce == LoopInv => EachPolledOnce
<1> SUFFICES ASSUME LoopInv PROVE EachPolledOnce
    OBVIOUS
<1>1. \A r \in Request : polls[r] <= 1
    BY DEF LoopInv
<1>2. ASSUME idx = 0, NEW r \in Items(original)
      PROVE  polls[r] = 1
  <2>1. r \in Items(inflight) \/ r \in Items(completed)
    BY <1>2 DEF LoopInv, NoRequestLost
  <2>2. CASE r \in Items(inflight)
    <3>1. PICK i \in DOMAIN inflight : r = inflight[i]
        BY <2>2 DEF Items
    <3>2. i > idx
        BY <1>2 DEF LoopInv
    <3> QED
        BY <3>1, <3>2 DEF LoopInv
  <2>3. CASE r \in Items(completed)
    BY <2>3 DEF Items, LoopInv
  <2> QED
    BY <2>1, <2>2, <2>3
<1> QED
    BY <1>1, <1>2 DEF EachPolledOnce

\* For vectors of any length, the loop of EngineDownloader::poll polls every
\* request exactly once.
THEOREM EachPolledOnceHolds == LoopSpec => []EachPolledOnce
<1>1. LoopInv => EachPolledOnce
    BY InvImpliesOnce
<1> QED
    BY <1>1, InitEstablishesInv, StepKeepsInv, PTL DEF LoopSpec

\* ... and neither loses nor duplicates one, whichever are ready.
THEOREM NoRequestLostHolds == LoopSpec => []NoRequestLost
<1>1. LoopInv => NoRequestLost
    BY DEF LoopInv
<1> QED
    BY <1>1, InitEstablishesInv, StepKeepsInv, PTL DEF LoopSpec

-----------------------------------------------------------------------------
(* FetchFullBlockRangeFuture.                                              *)

\* A body is the body of a header at its own position or further down.
BodiesInOrder ==
    \A k \in DOMAIN bodies : \E j \in k..Len(headers) : bodies[k] = headers[j]

\* In the loop, at most one body was accepted for each one that was looked at.
LoopBounds ==
    /\ offset \in Nat /\ next \in Nat \ {0}
    /\ Len(bodies) <= offset + next - 1

RangeInv ==
    /\ stage \in {"headers", "bodies", "checking", "done"}
    /\ headers \in Seq(Hash) /\ bodies \in Seq(Hash) /\ answer \in Seq(Hash)
    /\ stage = "headers" => bodies = <<>>
    /\ stage # "headers" => AcceptHeaders(StartHash, Limit, headers)
    /\ Len(bodies) <= Len(headers)
    /\ BodiesInOrder
    /\ stage = "checking" => LoopBounds
    /\ stage = "done" => /\ Len(bodies) = Len(headers)
                         /\ blocks = [i \in DOMAIN headers |-> <<headers[i], bodies[i]>>]

\* An answer arrives.
LEMMA ReceiveKeepsRange ==
    ASSUME RangeInv, NEW reply \in Seq(Hash), Receive(reply), stage \in {"headers", "bodies"}
    PROVE  RangeInv'
BY DEF RangeInv, BodiesInOrder, Receive, AcceptHeaders, ValidHeaderRange

LEMMA MissingBodies == ASSUME RangeInv PROVE HonestBodies \subseteq Seq(Hash)
<1>1. headers \in Seq(Hash) /\ bodies \in Seq(Hash) /\ Len(bodies) <= Len(headers)
  BY DEF RangeInv
<1>2. Missing \in Seq(Hash)
  BY <1>1 DEF Missing
<1>3. ASSUME NEW n \in 1..Len(Missing) PROVE SubSeq(Missing, 1, n) \in Seq(Hash)
  BY <1>2
<1>. QED  BY <1>3 DEF HonestBodies

\* One turn of the loop.
LEMMA CheckKeepsRange ==
    ASSUME RangeInv, CheckNextBody
    PROVE  RangeInv'
<1>1. /\ stage = "checking" /\ stage' = "checking" /\ MoreBodies /\ LoopBounds
      /\ next' = next + 1
      /\ UNCHANGED <<headers, answer, offset>>
  BY DEF CheckNextBody, RangeInv
<1>2. next \in DOMAIN answer /\ offset + next \in DOMAIN headers
  BY <1>1 DEF MoreBodies, LoopBounds, RangeInv
<1>3. CASE answer[next] = headers[offset + next]
  <2>1. bodies' = Append(bodies, answer[next])
    BY <1>3 DEF CheckNextBody, Expected
  <2>2. bodies' \in Seq(Hash) /\ Len(bodies') = Len(bodies) + 1
    BY <1>2, <2>1 DEF RangeInv
  <2>3. LoopBounds' /\ Len(bodies') <= Len(headers)
    BY <1>1, <1>2, <2>2 DEF LoopBounds, RangeInv
  <2>4. ASSUME NEW k \in DOMAIN bodies'
        PROVE  \E j \in k..Len(headers) : bodies'[k] = headers[j]
    <3>1. CASE k = Len(bodies) + 1
      <4>1. bodies'[k] = headers[offset + next]
        BY <1>3, <2>1, <3>1 DEF RangeInv
      <4>2. offset + next \in k..Len(headers)
        BY <1>1, <1>2, <3>1 DEF LoopBounds, RangeInv
      <4>. QED  BY <4>1, <4>2
    <3>2. CASE k # Len(bodies) + 1
      <4>1. k \in DOMAIN bodies /\ bodies'[k] = bodies[k]
        BY <1>2, <2>1, <2>2, <2>4, <3>2 DEF RangeInv
      <4>. QED  BY <4>1 DEF RangeInv, BodiesInOrder
    <3>. QED  BY <3>1, <3>2
  <2>5. BodiesInOrder'
    BY <1>1, <2>4 DEF BodiesInOrder
  <2>. QED  BY <1>1, <2>2, <2>3, <2>5 DEF RangeInv, AcceptHeaders, ValidHeaderRange
<1>4. CASE answer[next] # headers[offset + next]
  <2>1. bodies' = bodies
    BY <1>4 DEF CheckNextBody, Expected
  <2>2. LoopBounds' /\ BodiesInOrder'
    BY <1>1, <2>1 DEF LoopBounds, BodiesInOrder, RangeInv
  <2>. QED  BY <1>1, <2>1, <2>2 DEF RangeInv, AcceptHeaders, ValidHeaderRange
<1>. QED  BY <1>3, <1>4

LEMMA RangeStep ==
    ASSUME RangeInv, [RangeNext]_rangeVars
    PROVE  RangeInv'
<1>1. CASE UNCHANGED rangeVars
  BY <1>1 DEF rangeVars, RangeInv, LoopBounds, BodiesInOrder, AcceptHeaders, ValidHeaderRange
<1>2. CASE ReceiveHeaders
  <2>1. PICK reply \in HeaderAnswers \cup {<<>>} : Receive(reply)
    BY <1>2 DEF ReceiveHeaders
  <2>2. reply \in Seq(Hash)
    <3>1. <<>> \in Seq(Hash)  OBVIOUS
    <3>. QED  BY <3>1, RangeAssumption
  <2>3. stage = "headers"
    BY <1>2 DEF ReceiveHeaders
  <2>. QED  BY <2>1, <2>2, <2>3, ReceiveKeepsRange
<1>3. CASE ReceiveHonestBodies
  BY <1>3, ReceiveKeepsRange, MissingBodies DEF ReceiveHonestBodies
<1>4. CASE ReceiveOtherBodies
  <2>1. PICK reply \in FaultyBodies \cup {<<>>} : Receive(reply)
    BY <1>4 DEF ReceiveOtherBodies
  <2>2. reply \in Seq(Hash)
    <3>1. <<>> \in Seq(Hash)  OBVIOUS
    <3>. QED  BY <3>1, RangeAssumption
  <2>3. stage = "bodies"
    BY <1>4 DEF ReceiveOtherBodies
  <2>. QED  BY <2>1, <2>2, <2>3, ReceiveKeepsRange
<1>5. CASE PollHeaders
  BY <1>5 DEF PollHeaders, RequestAgain, RangeInv, BodiesInOrder, AcceptHeaders, ValidHeaderRange
<1>6. CASE PollBodies
  <2>1. CASE answer = <<>>
    BY <1>6, <2>1 DEF PollBodies, RequestAgain, RangeInv, BodiesInOrder, AcceptHeaders, ValidHeaderRange
  <2>2. CASE answer # <<>>
    <3>1. /\ stage = "bodies" /\ stage' = "checking" /\ offset' = Len(bodies) /\ next' = 1
          /\ UNCHANGED <<headers, bodies, answer>>
      BY <1>6, <2>2 DEF PollBodies
    <3>2. LoopBounds' /\ BodiesInOrder'
      BY <3>1 DEF LoopBounds, BodiesInOrder, RangeInv
    <3>. QED  BY <3>1, <3>2 DEF RangeInv, AcceptHeaders, ValidHeaderRange
  <2>. QED  BY <2>1, <2>2
<1>7. CASE CheckNextBody
  BY <1>7, CheckKeepsRange
<1>8. CASE FinishBodies
  <2>1. /\ stage = "checking" /\ answer' = <<>> /\ UNCHANGED <<headers, bodies>>
    BY <1>8 DEF FinishBodies, RequestAgain
  <2>2. CASE Len(bodies) = Len(headers)
    <3>1. stage' = "done" /\ blocks' = [i \in DOMAIN headers |-> <<headers[i], bodies[i]>>]
      BY <1>8, <2>2 DEF FinishBodies
    <3>. QED  BY <2>1, <2>2, <3>1 DEF RangeInv, BodiesInOrder, AcceptHeaders, ValidHeaderRange
  <2>3. CASE Len(bodies) # Len(headers)
    BY <1>8, <2>1, <2>3 DEF FinishBodies, RangeInv, BodiesInOrder, AcceptHeaders, ValidHeaderRange
  <2>. QED  BY <2>2, <2>3
<1>. QED  BY <1>1, <1>2, <1>3, <1>4, <1>5, <1>6, <1>7, <1>8 DEF RangeNext, Poll

\* Whatever headers and bodies peers send, in however many answers, and wherever
\* wrong bodies come in them, FetchFullBlockRangeFuture hands out the requested
\* chain, and a body that is out of place belongs to a lower block of it.
THEOREM RangeStaysInOrder == RangeSpec => []RangeInOrder
<1>1. RangeInit => RangeInv
  BY DEF RangeInit, RangeInv, BodiesInOrder
<1>2. RangeInv /\ [RangeNext]_rangeVars => RangeInv'
  BY RangeStep
<1>3. RangeInv => RangeInOrder
  <2>1. SUFFICES ASSUME RangeInv, stage = "done" PROVE RangeInOrder
    BY DEF RangeInOrder
  <2>2. /\ headers \in Seq(Hash) /\ bodies \in Seq(Hash) /\ Len(bodies) = Len(headers)
        /\ AcceptHeaders(StartHash, Limit, headers)
        /\ blocks = [i \in DOMAIN headers |-> <<headers[i], bodies[i]>>]
    BY <2>1 DEF RangeInv
  <2>3. /\ Len(blocks) = Len(headers) /\ DOMAIN blocks = 1..Len(headers)
        /\ DOMAIN bodies = 1..Len(headers) /\ 1 \in DOMAIN blocks
    BY <2>2, RangeAssumption DEF AcceptHeaders
  <2>4. \A i \in DOMAIN blocks : blocks[i][1] = headers[i] /\ blocks[i][2] = bodies[i]
    BY <2>2, <2>3
  <2>5. ASSUME NEW i \in DOMAIN blocks
        PROVE  \E j \in i..Len(blocks) : blocks[i][2] = blocks[j][1]
    <3>1. PICK j \in i..Len(headers) : bodies[i] = headers[j]
      BY <2>1, <2>3, <2>5 DEF RangeInv, BodiesInOrder
    <3>. QED  BY <2>3, <2>4, <3>1
  <2>6. \A i \in 1..(Len(blocks) - 1) : Parent[blocks[i][1]] = blocks[i + 1][1]
    BY <2>2, <2>3, <2>4 DEF AcceptHeaders, ValidHeaderRange
  <2>. QED  BY <2>2, <2>3, <2>4, <2>5, <2>6 DEF RangeInOrder, AcceptHeaders
<1>. QED  BY <1>1, <1>2, <1>3, PTL DEF RangeSpec
=============================================================================
