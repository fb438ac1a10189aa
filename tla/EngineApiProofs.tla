-------------------------- MODULE EngineApiProofs --------------------------
(***************************************************************************)
(* The consensus engine implements the engine API: every step of the       *)
(* engine is a step of EngineApi or leaves what the client sees alone.     *)
(* It uses its downloader as DownloadQueue says.  Its canonical hashes are *)
(* the chain of its head, so that BLOCKHASH is right, and its sync target  *)
(* is its head as soon as it is stored.                                    *)
(***************************************************************************)
EXTENDS EngineProofs, NewHeadWalk

\* The forkchoice updates of a client that follows the protocol: the finalized
\* block, when there is one, is on the chain of the head.
ConsistentClient ==
    \A fcu \in ForkchoiceStates :
        fcu.head # Zero => fcu.finalized \in Ancestry[fcu.head] \cup {Zero}

-----------------------------------------------------------------------------
(* The inductive invariant.                                                *)

\* The two indexes of ChainState agree: block_hashes_by_number holds exactly
\* the stored blocks, each under its number.
ChainIndexed(chain) ==
    \A n \in Heights :
        chain.block_hashes_by_number[n] = {h \in chain.blocks_by_hash : Number[h] = n}

\* The canonical head is stored, and so is the block whose handler is
\* connecting its buffered descendants.
HeadStored == canonical_head \in chain_state.blocks_by_hash
CallerStored == caller # None => caller.hash \in chain_state.blocks_by_hash

\* A hash has been named as finalized by the consensus client.
NamedFinalized(h) == \E fcu \in ForkchoiceStates : fcu.finalized = h

\* A finalized block is requested or has arrived, never both, and the client
\* has named it.
FinalizedOnce ==
    /\ inflight.finalized \cap outcomes.finalized = {}
    /\ \A f \in inflight.finalized \cup outcomes.finalized : NamedFinalized(f)

\* The block of a parked payload is not validated and not ready to be, unless
\* its own download is being handled, or it has come as a finalized block.
ParkedWaits ==
    parked_payload # None =>
        \/ NamedFinalized(parked_payload)
        \/ parked_payload \notin
              chain_state.blocks_by_hash \cup connecting \cup Ready(block_buffer)
        \/ caller # None /\ caller.message = "download" /\ caller.hash = parked_payload

ApiInv ==
    /\ ValidityInv
    /\ ReadyInv
    /\ ChainIndexed(chain_state)
    /\ HeadStored
    /\ CallerStored
    /\ FinalizedOnce
    /\ ParkedWaits

-----------------------------------------------------------------------------
(* The indexes of the chain.                                               *)

\* insert_block of ChainState enters the block under its number.
LEMMA ChainInsertIndexed ==
    ASSUME NEW chain \in Chains, ChainIndexed(chain), NEW h \in Hash, NEW has_proof \in BOOLEAN
    PROVE  ChainIndexed(ChainInsertBlock(chain, h, has_proof))
<1>. DEFINE c == ChainInsertBlock(chain, h, has_proof)
<1>1. Number[h] \in Heights
  BY DEF Heights
<1>2. /\ c.blocks_by_hash = chain.blocks_by_hash \cup {h}
      /\ c.block_hashes_by_number = [chain.block_hashes_by_number EXCEPT ![Number[h]] = @ \cup {h}]
  BY DEF ChainInsertBlock, Chains
<1>. HIDE DEF c
<1>3. ASSUME NEW n \in Heights
      PROVE  c.block_hashes_by_number[n] = {x \in c.blocks_by_hash : Number[x] = n}
  <2>0. /\ chain.block_hashes_by_number[n] = {x \in chain.blocks_by_hash : Number[x] = n}
        /\ chain.block_hashes_by_number \in [Heights -> SUBSET Hash]
    BY DEF ChainIndexed, Chains
  <2>1. CASE n = Number[h]
    BY <1>2, <2>0, <2>1
  <2>2. CASE n # Number[h]
    BY <1>2, <2>0, <2>2
  <2>. QED  BY <2>1, <2>2
<1>. QED  BY <1>3 DEF ChainIndexed, c

\* on_chain_update touches neither index.
LEMMA OnChainUpdateIndexed ==
    ASSUME NEW chain \in Chains, ChainIndexed(chain), NEW new, NEW old
    PROVE  ChainIndexed(OnChainUpdate(chain, new, old))
<1>1. /\ OnChainUpdate(chain, new, old).blocks_by_hash = chain.blocks_by_hash
      /\ OnChainUpdate(chain, new, old).block_hashes_by_number = chain.block_hashes_by_number
  BY DEF OnChainUpdate, Chains
<1>. QED  BY <1>1 DEF ChainIndexed

\* on_finalized removes from both indexes the blocks below the finalized one,
\* and no other: that is what the index by number is for.
LEMMA RemoveBlocksExact ==
    ASSUME NEW chain \in Chains, ChainIndexed(chain), NEW f \in chain.blocks_by_hash
    PROVE  /\ RemoveBlocksOnFinalized(chain, f).blocks_by_hash =
                  {h \in chain.blocks_by_hash : Number[h] >= Number[f]}
           /\ ChainIndexed(RemoveBlocksOnFinalized(chain, f))
<1>. DEFINE c   == RemoveBlocksOnFinalized(chain, f)
            old == UNION {chain.block_hashes_by_number[n] : n \in {m \in Heights : m < Number[f]}}
<1>1. /\ c.blocks_by_hash = chain.blocks_by_hash \ old
      /\ c.block_hashes_by_number =
            [n \in Heights |-> IF n < Number[f] THEN {} ELSE chain.block_hashes_by_number[n]]
  BY DEF RemoveBlocksOnFinalized
<1>2. \A h \in chain.blocks_by_hash : h \in Hash /\ Number[h] \in Nat /\ Number[h] \in Heights
  BY BlocksAssumption DEF Chains, Heights
<1>3. \A n \in Heights : n \in Nat
  BY BlocksAssumption DEF Heights
<1>4. \A h \in chain.blocks_by_hash : h \in old <=> Number[h] < Number[f]
  BY <1>2, <1>3 DEF ChainIndexed
<1>. HIDE DEF c, old
<1>5. c.blocks_by_hash = {h \in chain.blocks_by_hash : Number[h] >= Number[f]}
  BY <1>1, <1>2, <1>4
<1>6. ASSUME NEW n \in Heights
      PROVE  c.block_hashes_by_number[n] = {h \in c.blocks_by_hash : Number[h] = n}
  <2>1. c.block_hashes_by_number[n] = IF n < Number[f] THEN {} ELSE chain.block_hashes_by_number[n]
    BY <1>1
  <2>2. chain.block_hashes_by_number[n] = {h \in chain.blocks_by_hash : Number[h] = n}
    BY DEF ChainIndexed
  <2>. QED  BY <1>2, <1>3, <1>5, <2>1, <2>2
<1>. QED  BY <1>5, <1>6 DEF ChainIndexed, c

\* What launch stores is indexed.
LEMMA GenesisIndexed == ChainIndexed(GenesisChain)
<1>1. EmptyChain \in Chains /\ ChainIndexed(EmptyChain)
  BY DEF EmptyChain, Chains, ChainIndexed
<1>. DEFINE c == ChainInsertBlock(EmptyChain, Genesis, FALSE)
<1>2. Genesis \in Hash /\ FALSE \in BOOLEAN
  BY BlocksAssumption
<1>3. c \in Chains /\ ChainIndexed(c)
  BY <1>1, <1>2, ChainInsertBlockType, ChainInsertIndexed, Zenon
<1>. HIDE DEF c
<1>4. ChainIndexed(OnChainUpdate(c, {Genesis}, {}))
  BY <1>3, OnChainUpdateIndexed
<1>. QED  BY <1>4 DEF GenesisChain, InsertCanonicalHashes, c

\* make_canonical keeps the indexes.
LEMMA ChainAfterIndexed ==
    ASSUME NEW chain \in Chains, ChainIndexed(chain), NEW head, NEW h
    PROVE  ChainIndexed(ChainAfter(chain, head, h))
  BY OnChainUpdateIndexed DEF ChainAfter, CanonicalChainUpdate

-----------------------------------------------------------------------------
(* Reaching a new head.                                                    *)

\* The chain can be switched from the head to h.
Connected(h) ==
    (Ancestry[h] \ Ancestry[canonical_head]) \cup (Ancestry[canonical_head] \ Ancestry[h])
        \subseteq chain_state.blocks_by_hash

\* on_new_head finds a new head exactly when the block is stored, is not
\* genesis, and all blocks between it and the head are stored.
LEMMA NewHeadConnected ==
    ASSUME TypeOK, NEW chain, chain.blocks_by_hash = chain_state.blocks_by_hash, NEW h \in Hash
    PROVE  HasNewHead(chain, canonical_head, h) <=>
               h \in chain_state.blocks_by_hash \ {Genesis} /\ Connected(h)
<1>1. CASE h = Genesis
  BY <1>1 DEF HasNewHead
<1>2. CASE h # Genesis
  <2>1. Parent[h] \in Hash
    BY <1>2, BlocksAssumption
  <2>2. Ancestry[h] = {h} \cup Ancestry[Parent[h]]
    BY <2>1, AncestryStep
  <2>. QED  BY <1>2, <2>2 DEF HasNewHead, NewBranch, OldBranch, Connected
<1>. QED  BY <1>1, <1>2

-----------------------------------------------------------------------------
(* What the steps do to the chain and the head.                            *)

\* insert_block returns Valid only for a new block on a stored parent that
\* validate_block and the verifier accept.
LEMMA InsertValid ==
    ASSUME NEW chain, NEW h \in Hash, NEW has_proof \in BOOLEAN,
           "Valid" \in InsertResults(chain, h, has_proof)
    PROVE  /\ h \in (Hash \ Bad) \ chain.blocks_by_hash
           /\ Parent[h] \in chain.blocks_by_hash
  BY DEF InsertResults, Bad

\* One block connected by the loop: it is stored, and is the head when it is
\* the sync target and can be reached.
LEMMA ConnectEffect ==
    ASSUME TypeOK, ChainIndexed(chain_state), NEW h \in Hash, ConnectValid(h)
    PROVE  /\ chain_state'.blocks_by_hash = chain_state.blocks_by_hash \cup {h}
           /\ ChainIndexed(chain_state')
           /\ canonical_head' = canonical_head \/ (sync_target = h /\ canonical_head' = h)
<1>. DEFINE inserted == ChainInsertBlock(chain_state, h, TRUE)
            after == ChainAfter(inserted, canonical_head, h)
<1>1. /\ inserted \in Chains
      /\ inserted.blocks_by_hash = chain_state.blocks_by_hash \cup {h}
      /\ ChainIndexed(inserted)
  BY ChainInsertBlockType, ChainInsertIndexed DEF TypeOK
<1>2. \/ sync_target = h /\ chain_state' = after
         /\ canonical_head' = HeadAfter(inserted, canonical_head, h)
      \/ chain_state' = inserted /\ canonical_head' = canonical_head
  BY DEF ConnectValid
<1>. HIDE DEF inserted
<1>3. after.blocks_by_hash = inserted.blocks_by_hash /\ ChainIndexed(after)
  BY <1>1, HeadAfterType, ChainAfterIndexed DEF TypeOK
<1>4. HeadAfter(inserted, canonical_head, h) \in {h, canonical_head}
  BY DEF HeadAfter
<1>. HIDE DEF after
<1>. QED  BY <1>1, <1>2, <1>3, <1>4

\* The end of a handler: the chain keeps its blocks, and the head only moves
\* to the sync target, when on_new_head finds it.
LEMMA FinishEffect ==
    ASSUME TypeOK, ChainIndexed(chain_state), FinishConnecting
    PROVE  /\ caller.hash \in Hash
           /\ chain_state'.blocks_by_hash = chain_state.blocks_by_hash
           /\ ChainIndexed(chain_state')
           /\ \/ canonical_head' = canonical_head
              \/ /\ sync_target = caller.hash
                 /\ canonical_head' = caller.hash
                 /\ HasNewHead(chain_state, canonical_head, caller.hash)
           /\ inflight'.finalized = inflight.finalized
<1>. DEFINE h == caller.hash
            after == ChainAfter(chain_state, canonical_head, h)
<1>1. h \in Hash
  BY DEF FinishConnecting, TypeOK, Handlers
<1>2. after.blocks_by_hash = chain_state.blocks_by_hash /\ ChainIndexed(after)
  BY <1>1, HeadAfterType, ChainAfterIndexed DEF TypeOK
<1>3. \/ sync_target = h /\ chain_state' = after
         /\ canonical_head' = HeadAfter(chain_state, canonical_head, h)
      \/ chain_state' = chain_state /\ canonical_head' = canonical_head
  BY DEF FinishConnecting
<1>4. inflight' \in {inflight, DownloadProof(inflight, h)}
  BY DEF FinishConnecting
<1>5. inflight'.finalized = inflight.finalized
  BY <1>1, <1>4, RequestsType DEF TypeOK
<1>. HIDE DEF h, after
<1>. QED  BY <1>1, <1>2, <1>3, <1>5 DEF HeadAfter, h

\* What on_download_outcome does with a block and its proof: it stores the
\* block and starts to connect its descendants, or it leaves the chain alone
\* and answers the payload if it is parked.
LEMMA UnlockedEffect ==
    ASSUME TypeOK, ChainIndexed(chain_state), InvalidHeadersSound,
           NEW h \in Hash, NEW buf, SoundBuffer(buf), Unlocked(h, buf)
    PROVE  /\ inflight'.finalized = inflight.finalized
           /\ \/ /\ "Valid" \in InsertResults(chain_state, h, TRUE)
                 /\ chain_state'.blocks_by_hash = chain_state.blocks_by_hash \cup {h}
                 /\ ChainIndexed(chain_state')
                 /\ caller' = [message |-> "download", hash |-> h, has_proof |-> TRUE]
                 /\ response' = None /\ UNCHANGED parked_payload
              \/ /\ ~Removable(buf, h)
                 /\ block_buffer' = buf /\ response' = None
                 /\ UNCHANGED <<chain_state, parked_payload, caller, connecting>>
              \/ /\ \E status \in {"VALID", "INVALID", "SYNCING", "ERROR"} :
                       /\ AnswerParked(h, status)
                       /\ status = "VALID" => h \in chain_state.blocks_by_hash
                       /\ status = "SYNCING" => h \notin chain_state.blocks_by_hash
                       /\ status = "INVALID" => Ancestry[h] \cap Rejectable # {}
                       /\ status = "ERROR" => "Fatal" \in Verdicts[h]
                 /\ UNCHANGED <<chain_state, caller, connecting>>
<1>. DEFINE b == BufferRemoveBlock(buf, h)
            k == LowestBufferedAncestorOr(b, h)
            missing == MissingAncestor(b, h)
<1>1. SoundBuffer(b)
  BY RemoveBlockSound
<1>2. k \in Ancestry[h] \cup {Zero} /\ missing \in Hash \cup {Zero}
  BY <1>1, LowestBufferedAncestorType, AncestryClosed
<1>3. inflight'.finalized = inflight.finalized
  <2>1. UNCHANGED inflight \/ inflight' = DownloadBlock(inflight, block_buffer', missing)
    BY DEF Unlocked, DownloadedInvalidAncestor, DownloadedInserted
  <2>. HIDE DEF missing
  <2>2. DownloadBlock(inflight, block_buffer', missing).finalized = inflight.finalized
    BY <1>2, RequestsType DEF TypeOK
  <2>. QED  BY <2>1, <2>2
<1>4. CASE ~Removable(buf, h) /\ block_buffer' = buf /\ response' = None
           /\ UNCHANGED <<chain_state, parked_payload, caller, connecting>>
  BY <1>3, <1>4
<1>. HIDE DEF b, missing
<1>5. CASE DownloadedInvalidAncestor(h, b)
  <2>1. k \in Hash /\ invalid_headers[k] # None
    BY <1>5 DEF DownloadedInvalidAncestor, KnownInvalid
  <2>2. invalid_headers[k] \in Ancestry[k] \cap Rejectable
    BY <2>1, AncestryClosed DEF InvalidHeadersSound, Rejectable
  <2>3. Ancestry[h] \cap Rejectable # {}
    BY <1>2, <2>1, <2>2, AncestryTransitive, BlocksAssumption
  <2>4. AnswerParked(h, "INVALID") /\ UNCHANGED <<chain_state, caller, connecting>>
    BY <1>5 DEF DownloadedInvalidAncestor
  <2>. QED  BY <1>3, <2>3, <2>4
<1>6. CASE DownloadedInserted(h, b)
  <2>1. CASE /\ "Valid" \in InsertResults(chain_state, h, TRUE)
             /\ chain_state' = ChainInsertBlock(chain_state, h, TRUE)
             /\ StartConnecting(b, h, [message |-> "download", hash |-> h, has_proof |-> TRUE])
             /\ response' = None
             /\ UNCHANGED parked_payload
    <3>1. /\ chain_state'.blocks_by_hash = chain_state.blocks_by_hash \cup {h}
          /\ ChainIndexed(chain_state')
      BY <2>1, ChainInsertBlockType, ChainInsertIndexed DEF TypeOK
    <3>2. caller' = [message |-> "download", hash |-> h, has_proof |-> TRUE]
      BY <2>1 DEF StartConnecting
    <3>. QED  BY <1>3, <2>1, <3>1, <3>2
  <2>2. CASE /\ "AlreadySeen" \in InsertResults(chain_state, h, TRUE)
             /\ AnswerParked(h, "VALID") /\ UNCHANGED <<chain_state, caller, connecting>>
    <3>1. h \in chain_state.blocks_by_hash
      BY <2>2, VerifierAssumption DEF InsertResults, VerifyResults
    <3>. QED  BY <1>3, <2>2, <3>1
  <2>3. CASE /\ "Disconnected" \in InsertResults(chain_state, h, TRUE)
             /\ AnswerParked(h, "SYNCING") /\ UNCHANGED <<chain_state, caller, connecting>>
    <3>1. h \notin chain_state.blocks_by_hash
      BY <2>3 DEF InsertResults
    <3>. QED  BY <1>3, <2>3, <3>1
  <2>4. CASE /\ "Invalid" \in InsertResults(chain_state, h, TRUE)
             /\ AnswerParked(h, "INVALID") /\ UNCHANGED <<chain_state, caller, connecting>>
    <3>1. h \in Rejectable /\ h \in Ancestry[h]
      BY <2>4, InsertInvalidSound, AncestryClosed DEF Rejected, Rejectable
    <3>. QED  BY <1>3, <2>4, <3>1
  <2>5. CASE /\ "Fatal" \in InsertResults(chain_state, h, TRUE)
             /\ AnswerParked(h, "ERROR") /\ UNCHANGED <<chain_state, caller, connecting>>
    <3>1. "Fatal" \in Verdicts[h]
      BY <2>5 DEF InsertResults
    <3>. QED  BY <1>3, <2>5, <3>1
  <2>. QED  BY <1>6, <2>1, <2>2, <2>3, <2>4, <2>5 DEF DownloadedInserted
<1>. QED  BY <1>4, <1>5, <1>6 DEF Unlocked, b

\* A finalized block is stored without a proof.
LEMMA FinalizedEffect ==
    ASSUME TypeOK, ChainIndexed(chain_state), NEW f \in Hash, OnFinalizedBlock(f)
    PROVE  /\ chain_state'.blocks_by_hash = chain_state.blocks_by_hash \cup {f}
           /\ ChainIndexed(chain_state')
<1>. DEFINE marked == InsertCanonicalHashes(chain_state, {f} \cup FinalizedAncestors(f))
<1>1. {f} \cup FinalizedAncestors(f) \in SUBSET Hash
  BY AncestryClosed DEF FinalizedAncestors
<1>2. marked \in Chains /\ marked.blocks_by_hash = chain_state.blocks_by_hash /\ ChainIndexed(marked)
  BY <1>1, OnChainUpdateType, OnChainUpdateIndexed DEF InsertCanonicalHashes, TypeOK
<1>3. chain_state' = ChainInsertBlock(marked, f, FALSE)
  BY DEF OnFinalizedBlock
<1>. HIDE DEF marked
<1>. QED  BY <1>2, <1>3, ChainInsertBlockType, ChainInsertIndexed

\* A payload that is stored, or was stored already.
LEMMA PayloadEffect ==
    ASSUME TypeOK, ChainIndexed(chain_state), NEW h \in Hash, NewPayloadValid(h)
    PROVE  /\ \/ /\ "Valid" \in InsertResults(chain_state, h, HasProof(h))
                 /\ chain_state'.blocks_by_hash = chain_state.blocks_by_hash \cup {h}
              \/ /\ h \in chain_state.blocks_by_hash
                 /\ chain_state'.blocks_by_hash = chain_state.blocks_by_hash
           /\ ChainIndexed(chain_state')
<1>1. CASE /\ "Valid" \in InsertResults(chain_state, h, HasProof(h))
           /\ chain_state' = ChainInsertBlock(chain_state, h, TRUE)
  BY <1>1, ChainInsertBlockType, ChainInsertIndexed DEF TypeOK
<1>2. CASE "AlreadySeen" \in InsertResults(chain_state, h, HasProof(h)) /\ UNCHANGED chain_state
  BY <1>2, VerifierAssumption DEF InsertResults, VerifyResults
<1>. QED  BY <1>1, <1>2 DEF NewPayloadValid

\* A forkchoice update with a new head: the head is stored and reached, and
\* only an update with a canonical finalized block that is stored makes the
\* chain forget blocks, those below that block.
LEMMA NewHeadEffect ==
    ASSUME TypeOK, ChainIndexed(chain_state), NEW fcu \in ForkchoiceStates, FcuNewHead(fcu)
    PROVE  /\ fcu.head \in chain_state.blocks_by_hash
           /\ Connected(fcu.head)
           /\ canonical_head' = fcu.head
           /\ ChainIndexed(chain_state')
           /\ \/ /\ AnswerForkchoice(fcu, "INVALID_STATE")
                 /\ chain_state'.blocks_by_hash = chain_state.blocks_by_hash
              \/ /\ AnswerForkchoice(fcu, AppliedStatus(fcu))
                 /\ \/ chain_state'.blocks_by_hash = chain_state.blocks_by_hash
                    \/ /\ fcu.finalized \in chain_state.blocks_by_hash
                       /\ chain_state'.blocks_by_hash =
                             {h \in chain_state.blocks_by_hash : Number[h] >= Number[fcu.finalized]}
<1>. DEFINE updated == CanonicalChainUpdate(chain_state, canonical_head, fcu.head)
<1>1. fcu.head \in Hash
  BY DEF FcuNewHead, HasNewHead, TypeOK, Chains
<1>2. fcu.head \in chain_state.blocks_by_hash /\ Connected(fcu.head)
  BY <1>1, NewHeadConnected DEF FcuNewHead
<1>3. /\ updated \in Chains
      /\ updated.blocks_by_hash = chain_state.blocks_by_hash
      /\ ChainIndexed(updated)
  BY <1>1, MakeCanonicalType, OnChainUpdateIndexed DEF FcuNewHead, CanonicalChainUpdate, TypeOK
<1>4. \/ chain_state' = updated /\ AnswerForkchoice(fcu, "INVALID_STATE")
      \/ /\ chain_state' = RemoveBlocksOnFinalized(updated, fcu.finalized)
         /\ AnswerForkchoice(fcu, AppliedStatus(fcu))
  BY DEF FcuNewHead
<1>5. canonical_head' = fcu.head
  BY DEF FcuNewHead
<1>. HIDE DEF updated
<1>6. CASE fcu.finalized \in updated.blocks_by_hash
  <2>1. /\ RemoveBlocksOnFinalized(updated, fcu.finalized).blocks_by_hash =
              {h \in updated.blocks_by_hash : Number[h] >= Number[fcu.finalized]}
        /\ ChainIndexed(RemoveBlocksOnFinalized(updated, fcu.finalized))
    BY <1>3, <1>6, RemoveBlocksExact
  <2>. QED  BY <1>2, <1>3, <1>4, <1>5, <1>6, <2>1
<1>7. CASE fcu.finalized \notin updated.blocks_by_hash
  <2>1. RemoveBlocksOnFinalized(updated, fcu.finalized) = updated
    BY <1>7 DEF RemoveBlocksOnFinalized
  <2>. QED  BY <1>2, <1>3, <1>4, <1>5, <2>1
<1>. QED  BY <1>6, <1>7

-----------------------------------------------------------------------------
(* The steps keep the invariant.                                           *)

\* Only these steps change the chain, the head or the running handler.
LEMMA ChainCases ==
    ASSUME [Next]_vars
    PROVE  \/ UNCHANGED <<chain_state, canonical_head, caller>>
           \/ FinishConnecting
           \/ \E h \in Hash : ConnectValid(h) \/ ConnectFatal(h) \/ OnProof(h) \/ OnFullBlock(h)
                              \/ OnFinalizedBlock(h) \/ NewPayloadValid(h)
           \/ \E fcu \in ForkchoiceStates : FcuNewHead(fcu)
  BY DEF Next, EngineStep, ClientMessage, vars, treeVars, engineVars, ConnectDisconnected,
         ConnectInvalid, OnUnrecoverableFullBlock, OnUnrecoverableFinalizedBlock, PollDownloader,
         ParkedTimeout, ForgetInvalidHeader, NewPayloadMalformed, NewPayloadInvalidAncestor,
         NewPayloadDisconnected, NewPayloadNoProof, NewPayloadInvalid, NewPayloadFatal, NewPayload,
         FcuRefused, FcuSameHead, FcuKnownHead, FcuSyncing, ForkchoiceUpdated

\* The download of a full block or of a proof is handled in a sound buffer in
\* which at most that block has become ready.
LEMMA DownloadCases ==
    ASSUME TypeOK, SoundBuffer(block_buffer), NEW h \in Hash, OnProof(h) \/ OnFullBlock(h)
    PROVE  \E buf : /\ SoundBuffer(buf)
                    /\ Ready(buf) \subseteq Ready(block_buffer) \cup {h}
                    /\ Unlocked(h, buf)
<1>1. block_buffer \in Buffers
  BY DEF TypeOK
<1>2. CASE OnProof(h)
  <2>. DEFINE buf == BufferInsertProof(block_buffer, h)
  <2>1. SoundBuffer(buf) /\ Ready(buf) \subseteq Ready(block_buffer) \cup {h}
    BY <1>1, InsertProofSound, ProofReady DEF Ready
  <2>2. Unlocked(h, buf)
    BY <1>2 DEF OnProof
  <2>. QED  BY <2>1, <2>2
<1>3. CASE OnFullBlock(h)
  <2>. DEFINE buf == BufferInsertBlock(block_buffer, h)
  <2>1. SoundBuffer(buf) /\ Ready(buf) \subseteq Ready(block_buffer) \cup {h}
    BY <1>1, InsertBlockSound, InsertBlockReady DEF Ready
  <2>2. Unlocked(h, buf)
    BY <1>3 DEF OnFullBlock
  <2>. QED  BY <2>1, <2>2
<1>. QED  BY <1>2, <1>3

\* Blocks are removed from the chain below the finalized block only, which a
\* consistent client names on the chain of the head: the head is kept.
LEMMA StoredStep ==
    ASSUME ConsistentClient, ApiInv, [Next]_vars
    PROVE  ChainIndexed(chain_state') /\ HeadStored' /\ CallerStored'
<1>. DEFINE V == chain_state.blocks_by_hash
            Goal == ChainIndexed(chain_state') /\ HeadStored' /\ CallerStored'
<1>i. /\ TypeOK /\ SoundBuffer(block_buffer) /\ InvalidHeadersSound
      /\ ChainIndexed(chain_state) /\ HeadStored /\ CallerStored
  BY DEF ApiInv, ValidityInv, BufferInv
<1>1. CASE UNCHANGED <<chain_state, canonical_head, caller>>
  BY <1>1, <1>i DEF HeadStored, CallerStored
<1>2. CASE FinishConnecting
  <2>1. caller' = None
    BY <1>2 DEF FinishConnecting
  <2>2. canonical_head' \in V
    BY <1>2, <1>i, FinishEffect DEF HeadStored, HasNewHead
  <2>. QED  BY <1>2, <1>i, <2>1, <2>2, FinishEffect DEF HeadStored, CallerStored
<1>3. ASSUME NEW h \in Hash, ConnectValid(h) PROVE Goal
  <2>1. UNCHANGED caller
    BY <1>3 DEF ConnectValid
  <2>. QED  BY <1>3, <1>i, <2>1, ConnectEffect DEF HeadStored, CallerStored
<1>4. ASSUME NEW h \in Hash, ConnectFatal(h) PROVE Goal
  <2>1. caller' = None /\ UNCHANGED <<chain_state, canonical_head>>
    BY <1>4 DEF ConnectFatal
  <2>. QED  BY <1>i, <2>1 DEF HeadStored, CallerStored
<1>5. ASSUME NEW h \in Hash, OnProof(h) \/ OnFullBlock(h) PROVE Goal
  <2>1. UNCHANGED canonical_head
    BY <1>5 DEF OnProof, OnFullBlock
  <2>2. PICK buf : SoundBuffer(buf) /\ Unlocked(h, buf)
    BY <1>5, <1>i, DownloadCases
  <2>3. \/ /\ chain_state'.blocks_by_hash = V \cup {h}
           /\ ChainIndexed(chain_state')
           /\ caller' = [message |-> "download", hash |-> h, has_proof |-> TRUE]
        \/ UNCHANGED <<chain_state, caller>>
    BY <1>i, <2>2, UnlockedEffect, Zenon
  <2>. QED  BY <1>i, <2>1, <2>3 DEF HeadStored, CallerStored
<1>6. ASSUME NEW f \in Hash, OnFinalizedBlock(f) PROVE Goal
  <2>1. canonical_head' = f /\ UNCHANGED caller
    BY <1>6 DEF OnFinalizedBlock
  <2>. QED  BY <1>6, <1>i, <2>1, FinalizedEffect DEF HeadStored, CallerStored
<1>7. ASSUME NEW h \in Hash, NewPayloadValid(h) PROVE Goal
  <2>1. UNCHANGED canonical_head /\ caller'.hash = h
    BY <1>7 DEF NewPayloadValid, NewPayload, StartConnecting
  <2>. QED  BY <1>7, <1>i, <2>1, PayloadEffect DEF HeadStored, CallerStored
<1>8. ASSUME NEW fcu \in ForkchoiceStates, FcuNewHead(fcu) PROVE Goal
  <2>1. caller' = None
    BY <1>8 DEF FcuNewHead, ForkchoiceUpdated, NextMessage, Awake
  <2>2. fcu.head \in Hash /\ fcu.head # Zero /\ fcu.head \in V
    BY <1>8, <1>i, NewHeadEffect, BlocksAssumption DEF TypeOK, Chains
  <2>3. ASSUME fcu.finalized \in V PROVE Number[fcu.head] >= Number[fcu.finalized]
    <3>1. fcu.finalized \in Ancestry[fcu.head]
      BY <1>i, <2>2, <2>3, BlocksAssumption DEF ConsistentClient, TypeOK, Chains
    <3>. QED  BY <2>2, <3>1, AncestryNumber
  <2>4. /\ ChainIndexed(chain_state')
        /\ canonical_head' = fcu.head
        /\ \/ chain_state'.blocks_by_hash = V
           \/ /\ fcu.finalized \in V
              /\ chain_state'.blocks_by_hash = {h \in V : Number[h] >= Number[fcu.finalized]}
    BY <1>8, <1>i, NewHeadEffect
  <2>. QED  BY <2>1, <2>2, <2>3, <2>4 DEF HeadStored, CallerStored
<1>. QED  BY <1>1, <1>2, <1>3, <1>4, <1>5, <1>6, <1>7, <1>8, ChainCases

\* A finalized block is requested only while no outcome waits, and leaves the
\* requests when its download completes.
LEMMA FinalizedOnceStep ==
    ASSUME ApiInv, [Next]_vars
    PROVE  FinalizedOnce'
<1>. DEFINE named == {f \in Hash : NamedFinalized(f)}
<1>i. TypeOK /\ SoundBuffer(block_buffer) /\ FinalizedOnce
  BY DEF ApiInv, ValidityInv, BufferInv
<1>t. inflight \in Downloads /\ outcomes \in Downloads
  BY <1>i DEF TypeOK
<1>h. /\ inflight.finalized \subseteq named /\ outcomes.finalized \subseteq named
      /\ inflight.finalized \cap outcomes.finalized = {}
  BY <1>i, <1>t DEF FinalizedOnce, Downloads
<1>. SUFFICES /\ inflight'.finalized \subseteq named /\ outcomes'.finalized \subseteq named
              /\ inflight'.finalized \cap outcomes'.finalized = {}
  BY DEF FinalizedOnce, NamedFinalized
<1>. HIDE DEF named
<1>1. CASE PollDownloader
  <2>1. PICK ready \in [finalized : Completable("finalized"), full : Completable("full"),
                        proof : Completable("proof")] :
            /\ outcomes' = ready
            /\ inflight' = [k \in Kinds |-> inflight[k] \ ready[k]]
    BY <1>1 DEF PollDownloader
  <2>. QED  BY <1>h, <2>1 DEF Completable, Kinds
<1>2. ASSUME NEW fcu \in ForkchoiceStates, FcuSyncing(fcu)
      PROVE  /\ inflight'.finalized \subseteq named /\ outcomes'.finalized \subseteq named
             /\ inflight'.finalized \cap outcomes'.finalized = {}
  <2>1. inflight' = SyncRequests(fcu) /\ fcu.head # Zero
    BY <1>2 DEF FcuSyncing, Processable
  <2>2. outcomes'.finalized = {}
    BY <1>2 DEF FcuSyncing, ForkchoiceUpdated, NextMessage, NoDownloads
  <2>3. fcu.finalized \in Hash => fcu.finalized \in named
    BY DEF named, NamedFinalized
  <2>4. /\ SyncRequests(fcu).finalized \in
              {inflight.finalized, inflight.finalized \cup {fcu.finalized}}
        /\ fcu.finalized \notin Hash => SyncRequests(fcu).finalized = inflight.finalized
    BY <1>i, <2>1, SyncRequestsType
  <2>. QED  BY <1>h, <2>1, <2>2, <2>3, <2>4
<1>3. CASE inflight'.finalized = inflight.finalized
  <2>1. ASSUME NEW kind \in Kinds, NEW h, NextOutcome(kind, h)
        PROVE  outcomes'.finalized \subseteq outcomes.finalized
    BY <1>t, <2>1 DEF NextOutcome, Downloads, Kinds
  <2>2. CASE outcomes'.finalized \subseteq outcomes.finalized
    BY <1>3, <1>h, <2>2
  <2>. QED  BY <1>1, <2>1, <2>2, OutcomesCases
<1>. QED  BY <1>1, <1>2, <1>3, <1>i, FinalizedRequests

\* Only these steps change the parked payload or what it waits for.
LEMMA ParkedCases ==
    ASSUME [Next]_vars
    PROVE  \/ UNCHANGED <<parked_payload, chain_state, connecting, block_buffer, caller>>
           \/ parked_payload = None /\ UNCHANGED parked_payload
           \/ parked_payload' = None
           \/ FinishConnecting
           \/ \E h \in Hash : \/ ConnectValid(h) \/ ConnectDisconnected(h)
                              \/ ConnectInvalid(h) \/ ConnectFatal(h)
                              \/ OnProof(h) \/ OnFullBlock(h)
                              \/ OnFinalizedBlock(h) \/ NewPayloadNoProof(h)
<1>1. ASSUME ClientMessage
      PROVE  \/ parked_payload = None /\ UNCHANGED parked_payload
             \/ \E h \in Hash : NewPayloadNoProof(h)
  BY <1>1 DEF ClientMessage, NewPayloadMalformed, NewPayloadInvalidAncestor, NewPayloadValid,
              NewPayloadDisconnected, NewPayloadInvalid, NewPayloadFatal, NewPayload, NextMessage,
              FcuRefused, FcuSameHead, FcuNewHead, FcuKnownHead, FcuSyncing, ForkchoiceUpdated
<1>2. ASSUME \/ PollDownloader \/ UNCHANGED vars
             \/ \E h \in Hash : \/ ForgetInvalidHeader(h)
                                \/ OnUnrecoverableFullBlock(h) \/ OnUnrecoverableFinalizedBlock(h)
      PROVE  UNCHANGED <<parked_payload, chain_state, connecting, block_buffer, caller>>
  BY <1>2 DEF PollDownloader, ForgetInvalidHeader, OnUnrecoverableFullBlock,
              OnUnrecoverableFinalizedBlock, vars, treeVars, engineVars
<1>3. ParkedTimeout => parked_payload' = None
  BY DEF ParkedTimeout
<1>. QED  BY <1>1, <1>2, <1>3 DEF Next, EngineStep

\* After a download of h only h may have become ready, and the blocks taken
\* out of the buffer were ready.
LEMMA UnlockedReadyOnly ==
    ASSUME NEW h \in Hash, NEW buf \in Buffers, Unlocked(h, buf),
           Ready(buf) \subseteq Ready(block_buffer) \cup {h}
    PROVE  /\ Ready(block_buffer') \subseteq Ready(block_buffer) \cup {h}
           /\ connecting' \subseteq connecting \cup Ready(block_buffer) \cup {h}
<1>. DEFINE b == BufferRemoveBlock(buf, h)
<1>1. b \in Buffers /\ Ready(b) \subseteq Ready(block_buffer)
  BY RemoveBlockReady, DropFields DEF BufferRemoveBlock
<1>2. CASE block_buffer' = buf /\ UNCHANGED connecting
  BY <1>2
<1>. HIDE DEF b
<1>3. CASE block_buffer' = b /\ UNCHANGED connecting
  BY <1>1, <1>3
<1>4. CASE block_buffer' = BufferDisconnected(b, h, TRUE) /\ UNCHANGED connecting
  BY <1>1, <1>4, BufferDisconnectedReady
<1>5. CASE StartConnecting(b, h, [message |-> "download", hash |-> h, has_proof |-> TRUE])
  BY <1>1, <1>5, RemoveBlockWithChildrenReady DEF StartConnecting
<1>. QED
  BY <1>2, <1>3, <1>4, <1>5 DEF Unlocked, DownloadedInvalidAncestor, DownloadedInserted, b

\* The block of a parked payload becomes ready by its own download only, and
\* the handler of that download answers the payload.
LEMMA ParkedWaitsStep ==
    ASSUME ApiInv, [Next]_vars
    PROVE  ParkedWaits'
<1>. DEFINE V == chain_state.blocks_by_hash
            p == parked_payload
            waiting == p \notin V \cup connecting \cup Ready(block_buffer)
            waits == parked_payload' \notin
                         chain_state'.blocks_by_hash \cup connecting' \cup Ready(block_buffer')
            handled == caller' # None /\ caller'.message = "download"
                       /\ caller'.hash = parked_payload'
<1>i. /\ TypeOK /\ SoundBuffer(block_buffer) /\ InvalidHeadersSound /\ ReadyInv
      /\ ChainIndexed(chain_state) /\ FinalizedOnce /\ ParkedWaits
  BY DEF ApiInv, ValidityInv, BufferInv
<1>t. block_buffer \in Buffers /\ chain_state \in Chains
  BY <1>i DEF TypeOK
<1>. SUFFICES ASSUME parked_payload' # None
              PROVE  NamedFinalized(parked_payload') \/ waits \/ handled
  BY Zenon DEF ParkedWaits, NamedFinalized
<1>n. ASSUME parked_payload' = p, NamedFinalized(p) PROVE NamedFinalized(parked_payload')
  BY <1>n, Zenon
<1>w. ASSUME parked_payload' = p, ~NamedFinalized(p), caller = None PROVE waiting
  BY <1>i, <1>w DEF ParkedWaits
<1>1. CASE UNCHANGED <<parked_payload, chain_state, connecting, block_buffer, caller>>
  <2>1. NamedFinalized(p) \/ waiting \/ (caller # None /\ caller.message = "download" /\ caller.hash = p)
    BY <1>1, <1>i DEF ParkedWaits
  <2>. QED  BY <1>1, <2>1, Zenon
<1>2. ASSUME NEW h \in Hash, ConnectValid(h) \/ ConnectDisconnected(h) \/ ConnectInvalid(h)
      PROVE  NamedFinalized(parked_payload') \/ waits \/ handled
  <2>1. h \in connecting /\ UNCHANGED <<parked_payload, caller>> /\ connecting' = connecting \ {h}
    BY <1>2 DEF ConnectValid, ConnectDisconnected, ConnectInvalid, NextToConnect
  <2>2. /\ chain_state'.blocks_by_hash \subseteq V \cup {h}
        /\ Ready(block_buffer') \subseteq Ready(block_buffer) \cup {h}
    <3>1. CASE ConnectValid(h)
      <4>1. UNCHANGED block_buffer
        BY <3>1 DEF ConnectValid
      <4>. QED  BY <1>i, <3>1, <4>1, ConnectEffect
    <3>2. CASE ConnectDisconnected(h)
      BY <1>t, <3>2, BufferDisconnectedReady DEF ConnectDisconnected
    <3>3. CASE ConnectInvalid(h)
      BY <3>3 DEF ConnectInvalid
    <3>. QED  BY <1>2, <3>1, <3>2, <3>3
  <2>3. CASE waiting
    BY <2>1, <2>2, <2>3
  <2>4. NamedFinalized(p) \/ waiting \/ (caller # None /\ caller.message = "download" /\ caller.hash = p)
    BY <1>i, <2>1 DEF ParkedWaits
  <2>. QED  BY <2>1, <2>3, <2>4, Zenon
<1>3. ASSUME FinishConnecting \/ \E h \in Hash : ConnectFatal(h)
      PROVE  NamedFinalized(parked_payload') \/ waits
  <2>1. /\ connecting' = {} /\ UNCHANGED block_buffer
        /\ \/ caller.message = "payload" /\ UNCHANGED parked_payload
           \/ caller.hash # p /\ UNCHANGED parked_payload
    BY <1>3 DEF FinishConnecting, ConnectFatal, AnswerParked
  <2>2. chain_state'.blocks_by_hash = V
    BY <1>3, <1>i, FinishEffect DEF ConnectFatal
  <2>3. NamedFinalized(p) \/ waiting
    BY <1>i, <2>1 DEF ParkedWaits
  <2>. QED  BY <1>n, <2>1, <2>2, <2>3
<1>4. ASSUME NEW h \in Hash, OnProof(h) \/ OnFullBlock(h)
      PROVE  NamedFinalized(parked_payload') \/ waits \/ handled
  <2>1. caller = None
    BY <1>4 DEF OnProof, OnFullBlock, NextOutcome, Awake
  <2>2. PICK buf : /\ SoundBuffer(buf)
                   /\ Ready(buf) \subseteq Ready(block_buffer) \cup {h}
                   /\ Unlocked(h, buf)
    BY <1>4, <1>i, DownloadCases
  <2>3. /\ Ready(block_buffer') \subseteq Ready(block_buffer) \cup {h}
        /\ connecting' \subseteq connecting \cup Ready(block_buffer) \cup {h}
    BY <2>2, UnlockedReadyOnly DEF SoundBuffer
  <2>4. CASE /\ chain_state'.blocks_by_hash = V \cup {h}
             /\ caller' = [message |-> "download", hash |-> h, has_proof |-> TRUE]
             /\ UNCHANGED parked_payload
    <3>1. CASE p = h
      <4>1. caller' \in Handlers
        BY <2>4 DEF Handlers
      <4>. QED  BY <2>4, <3>1, <4>1, NoneAssumption
    <3>2. CASE p # h
      BY <1>n, <1>w, <2>1, <2>3, <2>4, <3>2
    <3>. QED  BY <3>1, <3>2
  <2>5. CASE /\ ~Removable(buf, h) /\ block_buffer' = buf
             /\ UNCHANGED <<chain_state, parked_payload, caller, connecting>>
    <3>1. Ready(block_buffer') \subseteq Ready(block_buffer)
      BY <2>2, <2>5 DEF Ready, Removable
    <3>. QED  BY <1>n, <1>w, <2>1, <2>5, <3>1
  <2>6. ASSUME NEW status, AnswerParked(h, status), UNCHANGED <<chain_state, caller, connecting>>
        PROVE  NamedFinalized(parked_payload') \/ waits \/ handled
    <3>1. p # h /\ parked_payload' = p
      BY <2>6 DEF AnswerParked
    <3>2. connecting' \subseteq connecting \cup Ready(block_buffer)
      BY <2>6
    <3>. QED  BY <1>n, <1>w, <2>1, <2>3, <2>6, <3>1, <3>2
  <2>7. \/ /\ chain_state'.blocks_by_hash = V \cup {h}
           /\ caller' = [message |-> "download", hash |-> h, has_proof |-> TRUE]
           /\ UNCHANGED parked_payload
        \/ /\ ~Removable(buf, h) /\ block_buffer' = buf
           /\ UNCHANGED <<chain_state, parked_payload, caller, connecting>>
        \/ \E status : AnswerParked(h, status) /\ UNCHANGED <<chain_state, caller, connecting>>
    BY <1>i, <2>2, UnlockedEffect, Zenon
  <2>. QED  BY <2>4, <2>5, <2>6, <2>7
<1>5. ASSUME NEW f \in Hash, OnFinalizedBlock(f)
      PROVE  NamedFinalized(parked_payload') \/ waits
  <2>1. /\ caller = None /\ UNCHANGED connecting /\ f \in outcomes.finalized
        /\ parked_payload' = p
    BY <1>5 DEF OnFinalizedBlock, NextOutcome, Awake, AnswerParked
  <2>2. NamedFinalized(f)
    BY <1>i, <2>1 DEF FinalizedOnce
  <2>3. chain_state'.blocks_by_hash = V \cup {f}
    BY <1>5, <1>i, FinalizedEffect
  <2>4. Ready(block_buffer') \subseteq Ready(block_buffer)
    BY <1>5, <1>t, RemoveBlockReady DEF OnFinalizedBlock
  <2>5. CASE p = f
    BY <1>n, <2>1, <2>2, <2>5
  <2>6. CASE p # f
    BY <1>n, <1>w, <2>1, <2>3, <2>4, <2>6
  <2>. QED  BY <2>5, <2>6
<1>6. ASSUME NEW h \in Hash, NewPayloadNoProof(h)
      PROVE  waits
  <2>1. /\ parked_payload' = h /\ UNCHANGED <<chain_state, connecting>>
        /\ block_buffer' = BufferInsertBlock(WithoutProof(h), h)
        /\ caller = None
        /\ "NoProof" \in InsertResults(chain_state, h, HasProof(h))
    BY <1>6 DEF NewPayloadNoProof, NewPayload, NextMessage, Awake
  <2>2. h \notin V
    BY <2>1 DEF InsertResults
  <2>3. connecting = {}
    BY <1>i, <2>1 DEF ReadyInv
  <2>4. WithoutProof(h) \in Buffers /\ h \notin WithoutProof(h).proofs
    BY <1>i, <1>t, RemoveProofSound, ProofReady DEF WithoutProof, SoundBuffer
  <2>5. h \notin block_buffer'.proofs
    BY <2>1, <2>4, InsertBlockReady
  <2>. QED  BY <2>1, <2>2, <2>3, <2>5 DEF Ready
<1>7. CASE parked_payload = None /\ UNCHANGED parked_payload
  BY <1>7
<1>. QED  BY <1>1, <1>2, <1>3, <1>4, <1>5, <1>6, <1>7, ParkedCases

\* The engine starts in a state of the invariant.
LEMMA InitApiInv == ASSUME Init, ValidityInv PROVE ApiInv
<1>1. chain_state = GenesisChain /\ canonical_head = Genesis /\ caller = None /\ parked_payload = None
  BY DEF Init, TreeInit, ChainInit
<1>2. ChainIndexed(chain_state) /\ HeadStored /\ CallerStored /\ ParkedWaits
  BY <1>1, GenesisIndexed, GenesisChainType DEF HeadStored, CallerStored, ParkedWaits
<1>3. FinalizedOnce
  BY DEF Init, NoDownloads, FinalizedOnce
<1>4. ReadyInv
  <2>1. connecting = {} /\ block_buffer.blocks = {}
    BY DEF Init, TreeInit, BufferInit, EmptyBuffer
  <2>. QED  BY <2>1 DEF ReadyInv, ReadyBlocksNotStored
<1>. QED  BY <1>2, <1>3, <1>4 DEF ApiInv

\* Every step keeps the invariant.
LEMMA ApiInvStep ==
    ASSUME ConsistentClient, ApiInv, [Next]_vars, ValidityInv'
    PROVE  ApiInv'
<1>1. ReadyInv'
  BY ReadyStep DEF ApiInv, ValidityInv, BufferInv
<1>2. ChainIndexed(chain_state)'
  BY StoredStep DEF ChainIndexed
<1>. QED  BY <1>1, <1>2, StoredStep, FinalizedOnceStep, ParkedWaitsStep DEF ApiInv

\* The invariant holds in every state the engine reaches.
LEMMA ApiInduction == ASSUME ConsistentClient PROVE Spec => []ApiInv
<1>1. Init /\ ValidityInv => ApiInv
  BY InitApiInv
<1>2. ApiInv /\ ValidityInv' /\ [Next]_vars => ApiInv'
  BY ApiInvStep
<1>. QED  BY <1>1, <1>2, ValidityInduction, PTL DEF Spec

\* The canonical head, the hash the next block is built on and BLOCKHASH starts
\* from, is always a block of the chain: no finalization forgets it.
THEOREM HeadNeverForgotten == ASSUME ConsistentClient PROVE Spec => []HeadStored
<1>1. ApiInv => HeadStored
  BY DEF ApiInv
<1>. QED  BY <1>1, ApiInduction, PTL

-----------------------------------------------------------------------------
(* The steps of the engine are steps of the engine API.                    *)

\* Whether a block may be refused, as EngineApi says it.
LEMMA ApiTerms ==
    /\ Api!Ancestry = Ancestry
    /\ \A h : Api!Refusable(h) <=> h # Zero /\ Ancestry[h] \cap Rejectable # {}
    /\ \A h : Api!Finalized(h) <=> NamedFinalized(h)
    /\ \A h : Api!Reachable(h) <=> Connected(h)
<1>1. Api!Ancestry = Ancestry
  BY DEF Api!Ancestry, Ancestry, Api!ParentClosed, ParentClosed
<1>. QED  BY <1>1 DEF Api!Refusable, Api!Finalized, NamedFinalized, Api!Reachable, Connected

\* A block whose lowest buffered ancestor is known to be invalid may be refused.
LEMMA KnownInvalidRefusable ==
    ASSUME TypeOK, InvalidHeadersSound, NEW h \in Hash, NEW k \in Ancestry[h] \cup {Zero},
           KnownInvalid(invalid_headers, k)
    PROVE  Ancestry[h] \cap Rejectable # {}
<1>1. k \in Hash /\ invalid_headers[k] # None
  BY DEF KnownInvalid
<1>2. invalid_headers[k] \in Ancestry[k] \cap Rejectable
  BY <1>1, AncestryClosed DEF InvalidHeadersSound, Rejectable
<1>. QED  BY <1>1, <1>2, AncestryTransitive, BlocksAssumption

\* What EngineApi knows of the requests for finalized blocks.
Finalizing == inflight.finalized \cup outcomes.finalized

\* Steps that the client cannot see, or in which it gets an answer only.
SameView == UNCHANGED <<chain_state.blocks_by_hash, canonical_head, sync_target, Finalizing>>

\* An answer to a payload that changes nothing else.
LEMMA AnswerRefines ==
    ASSUME SameView, NEW h \in Hash,
           NEW status \in {"VALID", "INVALID", "SYNCING", "ERROR"},
           response' = Answer("payload", h, status),
           status = "VALID" => h \in chain_state.blocks_by_hash,
           status = "SYNCING" => h \notin chain_state.blocks_by_hash \/ NamedFinalized(h),
           status = "INVALID" => h \in MalformedPayloads \/ Ancestry[h] \cap Rejectable # {},
           status = "ERROR" => \E x \in Hash : "Fatal" \in Verdicts[x]
    PROVE  Api!ApiNext
<1>1. h # Zero
  BY BlocksAssumption
<1>2. Api!AnswerPayload(h)
  BY <1>1, ApiTerms DEF Api!AnswerPayload, Api!Answered, Answer, SameView, Finalizing
<1>. QED  BY <1>2 DEF Api!ApiNext

\* The parked payload is answered, or there is no answer.
LEMMA AnswerParkedRefines ==
    ASSUME SameView, NEW h \in Hash,
           NEW status \in {"VALID", "INVALID", "SYNCING", "ERROR"},
           AnswerParked(h, status),
           status = "VALID" => h \in chain_state.blocks_by_hash,
           status = "SYNCING" => h \notin chain_state.blocks_by_hash \/ NamedFinalized(h),
           status = "INVALID" => Ancestry[h] \cap Rejectable # {},
           status = "ERROR" => \E x \in Hash : "Fatal" \in Verdicts[x]
    PROVE  Api!ApiNext
<1>1. CASE response' = Answer("payload", h, status)
  BY <1>1, AnswerRefines
<1>2. CASE response' = None
  BY <1>2 DEF Api!ApiNext, Api!Silent, SameView, Finalizing
<1>. QED  BY <1>1, <1>2 DEF AnswerParked

\* A step without an answer.
LEMMA SilentRefines ==
    ASSUME SameView, response' = None
    PROVE  Api!ApiNext
  BY DEF Api!ApiNext, Api!Silent, SameView, Finalizing

\* A block is stored on a stored parent.
LEMMA ImportRefines ==
    ASSUME NEW h \in Hash, NEW has_proof \in BOOLEAN,
           "Valid" \in InsertResults(chain_state, h, has_proof),
           chain_state'.blocks_by_hash = chain_state.blocks_by_hash \cup {h},
           canonical_head' = canonical_head \/ (sync_target = h /\ canonical_head' = h),
           response' = None,
           UNCHANGED <<sync_target, Finalizing>>
    PROVE  Api!ApiNext
<1>1. h \in (Hash \ Bad) \ chain_state.blocks_by_hash /\ Parent[h] \in chain_state.blocks_by_hash
  BY InsertValid
<1>2. Api!Import(h)
  BY <1>1 DEF Api!Import, Finalizing
<1>. QED  BY <1>2 DEF Api!ApiNext

\* The loop of try_connect_buffered_blocks and the end of the handler.
LEMMA ConnectRefines ==
    ASSUME ApiInv, FinishConnecting \/ \E h \in Hash : \/ ConnectValid(h) \/ ConnectDisconnected(h)
                                                       \/ ConnectInvalid(h) \/ ConnectFatal(h)
    PROVE  Api!ApiNext
<1>i. TypeOK /\ ChainIndexed(chain_state) /\ CallerStored
  BY DEF ApiInv, ValidityInv
<1>1. ASSUME NEW h \in Hash, ConnectValid(h) PROVE Api!ApiNext
  <2>1. /\ "Valid" \in InsertResults(chain_state, h, TRUE)
        /\ response' = None
        /\ UNCHANGED <<sync_target, Finalizing>>
    BY <1>1 DEF ConnectValid, NextToConnect, Finalizing
  <2>. QED  BY <1>1, <1>i, <2>1, ConnectEffect, ImportRefines
<1>2. ASSUME NEW h \in Hash, ConnectDisconnected(h) \/ ConnectInvalid(h) PROVE Api!ApiNext
  BY <1>2, SilentRefines
     DEF ConnectDisconnected, ConnectInvalid, NextToConnect, SameView, Finalizing
<1>3. ASSUME NEW h \in Hash, ConnectFatal(h) PROVE Api!ApiNext
  <2>1. SameView
    BY <1>3 DEF ConnectFatal, NextToConnect, SameView, Finalizing
  <2>2. caller.hash \in Hash
    BY <1>3, <1>i DEF ConnectFatal, NextToConnect, TypeOK, Handlers
  <2>3. "Fatal" \in Verdicts[h]
    BY <1>3 DEF ConnectFatal, InsertResults
  <2>4. response' = Answer("payload", caller.hash, "ERROR") \/ AnswerParked(caller.hash, "ERROR")
    BY <1>3 DEF ConnectFatal
  <2>. QED  BY <2>1, <2>2, <2>3, <2>4, AnswerRefines, AnswerParkedRefines
<1>4. CASE FinishConnecting
  <2>. DEFINE h == caller.hash
  <2>1. h \in Hash /\ h \in chain_state.blocks_by_hash
    BY <1>4, <1>i, FinishEffect DEF CallerStored, FinishConnecting
  <2>2. /\ response' = Answer("payload", h, "VALID") \/ AnswerParked(h, "VALID")
        /\ UNCHANGED <<sync_target, outcomes>>
    BY <1>4 DEF FinishConnecting
  <2>3. UNCHANGED <<chain_state.blocks_by_hash, sync_target, Finalizing>>
    BY <1>4, <1>i, <2>2, FinishEffect DEF Finalizing
  <2>. HIDE DEF h
  <2>4. CASE canonical_head' = canonical_head
    BY <2>1, <2>2, <2>3, <2>4, AnswerRefines, AnswerParkedRefines DEF SameView
  <2>5. CASE sync_target = h /\ canonical_head' = h /\ HasNewHead(chain_state, canonical_head, h)
    <3>1. Connected(h)
      BY <1>i, <2>1, <2>5, NewHeadConnected
    <3>2. response' = None \/ response' = Answer("payload", h, "VALID")
      BY <2>2 DEF AnswerParked
    <3>3. Api!ReachTarget
      BY <2>1, <2>3, <2>5, <3>1, <3>2, ApiTerms
         DEF Api!ReachTarget, Api!Answered, Answer, Finalizing
    <3>. QED  BY <3>3 DEF Api!ApiNext
  <2>. QED  BY <1>4, <1>i, <2>4, <2>5, FinishEffect DEF h
<1>. QED  BY <1>1, <1>2, <1>3, <1>4

\* The outcomes of downloads.
LEMMA DownloadRefines ==
    ASSUME ApiInv, NEW h \in Hash,
           \/ OnProof(h) \/ OnFullBlock(h) \/ OnUnrecoverableFullBlock(h)
           \/ OnFinalizedBlock(h) \/ OnUnrecoverableFinalizedBlock(h)
    PROVE  Api!ApiNext
<1>i. /\ TypeOK /\ SoundBuffer(block_buffer) /\ InvalidHeadersSound
      /\ ChainIndexed(chain_state) /\ FinalizedOnce
  BY DEF ApiInv, ValidityInv, BufferInv
<1>o. ASSUME NEW kind \in {"full", "proof"}, NextOutcome(kind, h)
      PROVE  UNCHANGED outcomes.finalized
  BY <1>i, <1>o DEF NextOutcome, TypeOK, Downloads
<1>f. ASSUME NextOutcome("finalized", h), UNCHANGED inflight
      PROVE  /\ h \in Finalizing
             /\ Finalizing' = Finalizing \ {h}
  <2>1. h \in outcomes.finalized /\ outcomes'.finalized = outcomes.finalized \ {h}
    BY <1>f, <1>i DEF NextOutcome, TypeOK, Downloads
  <2>2. h \notin inflight.finalized
    BY <1>i, <2>1 DEF FinalizedOnce
  <2>. QED  BY <1>f, <2>1, <2>2 DEF Finalizing
<1>1. CASE OnProof(h) \/ OnFullBlock(h)
  <2>1. UNCHANGED <<outcomes.finalized, canonical_head, sync_target>>
    BY <1>1, <1>o DEF OnProof, OnFullBlock
  <2>2. PICK buf : SoundBuffer(buf) /\ Unlocked(h, buf)
    BY <1>1, <1>i, DownloadCases
  <2>3. UNCHANGED Finalizing
    BY <1>i, <2>1, <2>2, UnlockedEffect DEF Finalizing
  <2>4. CASE /\ "Valid" \in InsertResults(chain_state, h, TRUE)
             /\ chain_state'.blocks_by_hash = chain_state.blocks_by_hash \cup {h}
             /\ response' = None
    BY <2>1, <2>3, <2>4, ImportRefines
  <2>5. CASE response' = None /\ UNCHANGED chain_state
    BY <2>1, <2>3, <2>5, SilentRefines DEF SameView
  <2>6. ASSUME NEW status \in {"VALID", "INVALID", "SYNCING", "ERROR"},
               AnswerParked(h, status),
               status = "VALID" => h \in chain_state.blocks_by_hash,
               status = "SYNCING" => h \notin chain_state.blocks_by_hash,
               status = "INVALID" => Ancestry[h] \cap Rejectable # {},
               status = "ERROR" => "Fatal" \in Verdicts[h],
               UNCHANGED chain_state
        PROVE  Api!ApiNext
    <3>1. SameView
      BY <2>1, <2>3, <2>6 DEF SameView
    <3>. QED  BY <2>6, <3>1, AnswerParkedRefines
  <2>. QED  BY <1>i, <2>2, <2>4, <2>5, <2>6, UnlockedEffect
<1>2. CASE OnUnrecoverableFullBlock(h)
  BY <1>2, <1>o, SilentRefines DEF OnUnrecoverableFullBlock, treeVars, SameView, Finalizing
<1>3. CASE OnFinalizedBlock(h)
  <2>1. /\ h \in Finalizing \ Unrecoverable /\ Finalizing' = Finalizing \ {h}
        /\ canonical_head' = h /\ UNCHANGED sync_target
    BY <1>3, <1>f DEF OnFinalizedBlock
  <2>2. chain_state'.blocks_by_hash = chain_state.blocks_by_hash \cup {h}
    BY <1>3, <1>i, FinalizedEffect
  <2>3. \/ response' = None
        \/ response' = Answer("payload", h, "VALID")
        \/ KnownInvalid(invalid_headers, h) /\ response' = Answer("payload", h, "INVALID")
    BY <1>3 DEF OnFinalizedBlock, AnswerParked
  <2>4. KnownInvalid(invalid_headers, h) => h # Zero /\ Ancestry[h] \cap Rejectable # {}
    BY <1>i, KnownInvalidRefusable, AncestryClosed, BlocksAssumption
  <2>5. Api!StartFrom(h)
    BY <2>1, <2>2, <2>3, <2>4, ApiTerms DEF Api!StartFrom, Api!Answered, Answer, Finalizing
  <2>. QED  BY <2>5 DEF Api!ApiNext
<1>4. CASE OnUnrecoverableFinalizedBlock(h)
  <2>1. /\ h \in Finalizing \cap Unrecoverable /\ Finalizing' = Finalizing \ {h}
        /\ response' = None /\ UNCHANGED <<chain_state, canonical_head, sync_target>>
    BY <1>4, <1>f DEF OnUnrecoverableFinalizedBlock, treeVars
  <2>2. Api!Stop(h)
    BY <2>1 DEF Api!Stop, Finalizing
  <2>. QED  BY <2>2 DEF Api!ApiNext
<1>. QED  BY <1>1, <1>2, <1>3, <1>4

\* The steps the engine takes by itself: the poll of the downloader, the
\* timeout of the parked payload, the cache of invalid headers.
LEMMA BackgroundRefines ==
    ASSUME ApiInv, PollDownloader \/ ParkedTimeout \/ \E h \in Hash : ForgetInvalidHeader(h)
    PROVE  Api!ApiNext
<1>1. CASE PollDownloader
  <2>1. PICK ready \in [finalized : Completable("finalized"), full : Completable("full"),
                        proof : Completable("proof")] :
            /\ outcomes' = ready
            /\ inflight' = [k \in Kinds |-> inflight[k] \ ready[k]]
    BY <1>1 DEF PollDownloader
  <2>2. outcomes.finalized = {}
    BY <1>1 DEF PollDownloader, NoDownloads
  <2>3. UNCHANGED Finalizing
    BY <2>1, <2>2 DEF Completable, Kinds, Finalizing
  <2>. QED  BY <1>1, <2>3, SilentRefines DEF PollDownloader, treeVars, SameView
<1>2. CASE ParkedTimeout
  <2>1. caller = None /\ parked_payload # None /\ response' = Answer("payload", parked_payload, "SYNCING")
    BY <1>2 DEF ParkedTimeout, Awake
  <2>2. SameView
    BY <1>2 DEF ParkedTimeout, treeVars, SameView, Finalizing
  <2>3. parked_payload \in Hash
    BY <2>1 DEF ApiInv, ValidityInv, TypeOK
  <2>4. parked_payload \notin chain_state.blocks_by_hash \/ NamedFinalized(parked_payload)
    BY <2>1 DEF ApiInv, ParkedWaits
  <2>. QED  BY <2>1, <2>2, <2>3, <2>4, AnswerRefines
<1>3. ASSUME NEW h \in Hash, ForgetInvalidHeader(h) PROVE Api!ApiNext
  BY <1>3, SilentRefines DEF ForgetInvalidHeader, SameView, Finalizing
<1>. QED  BY <1>1, <1>2, <1>3

\* The payloads of the consensus client.
LEMMA PayloadRefines ==
    ASSUME ApiInv, NEW h \in Hash,
           \/ NewPayloadMalformed(h) \/ NewPayloadInvalidAncestor(h) \/ NewPayloadValid(h)
           \/ NewPayloadDisconnected(h) \/ NewPayloadNoProof(h)
           \/ NewPayloadInvalid(h) \/ NewPayloadFatal(h)
    PROVE  Api!ApiNext
<1>i. /\ TypeOK /\ SoundBuffer(block_buffer) /\ InvalidHeadersSound /\ ChainIndexed(chain_state)
  BY DEF ApiInv, ValidityInv, BufferInv
<1>p. HasProof(h) \in BOOLEAN
  BY DEF HasProof
<1>m. UNCHANGED <<outcomes, canonical_head, sync_target>>
  BY DEF NewPayloadMalformed, NewPayloadInvalidAncestor, NewPayloadValid, NewPayloadDisconnected,
         NewPayloadNoProof, NewPayloadInvalid, NewPayloadFatal, NewPayload, NextMessage
<1>f. UNCHANGED Finalizing
  BY <1>i, <1>m, PayloadRequests DEF Finalizing
<1>1. CASE NewPayloadMalformed(h)
  BY <1>1, <1>m, <1>f, AnswerRefines DEF NewPayloadMalformed, SameView
<1>2. CASE NewPayloadInvalidAncestor(h)
  <2>1. PayloadCheck(WithoutProof(h), h) \in Ancestry[h] \cup {Zero}
    BY <1>i, RemoveProofSound, LowestBufferedAncestorType DEF WithoutProof
  <2>2. Ancestry[h] \cap Rejectable # {}
    BY <1>2, <1>i, <2>1, KnownInvalidRefusable DEF NewPayloadInvalidAncestor, PayloadRefused
  <2>. QED  BY <1>2, <1>m, <1>f, <2>2, AnswerRefines DEF NewPayloadInvalidAncestor, SameView
<1>3. CASE NewPayloadValid(h)
  <2>1. response' = None
    BY <1>3 DEF NewPayloadValid
  <2>2. CASE /\ "Valid" \in InsertResults(chain_state, h, HasProof(h))
             /\ chain_state'.blocks_by_hash = chain_state.blocks_by_hash \cup {h}
    BY <1>m, <1>f, <1>p, <2>1, <2>2, ImportRefines
  <2>3. CASE chain_state'.blocks_by_hash = chain_state.blocks_by_hash
    BY <1>m, <1>f, <2>1, <2>3, SilentRefines DEF SameView
  <2>. QED  BY <1>3, <1>i, <2>2, <2>3, PayloadEffect
<1>4. CASE NewPayloadDisconnected(h)
  <2>1. h \notin chain_state.blocks_by_hash
    BY <1>4 DEF NewPayloadDisconnected, InsertResults
  <2>. QED  BY <1>4, <1>m, <1>f, <2>1, AnswerRefines DEF NewPayloadDisconnected, SameView
<1>5. CASE NewPayloadNoProof(h)
  BY <1>5, <1>m, <1>f, SilentRefines DEF NewPayloadNoProof, SameView
<1>6. CASE NewPayloadInvalid(h)
  <2>1. h \in Rejectable /\ h \in Ancestry[h]
    BY <1>6, <1>p, InsertInvalidSound, AncestryClosed DEF NewPayloadInvalid, Rejected, Rejectable
  <2>. QED  BY <1>6, <1>m, <1>f, <2>1, AnswerRefines DEF NewPayloadInvalid, SameView
<1>7. CASE NewPayloadFatal(h)
  <2>1. "Fatal" \in Verdicts[h]
    BY <1>7 DEF NewPayloadFatal, InsertResults
  <2>. QED  BY <1>7, <1>m, <1>f, <2>1, AnswerRefines DEF NewPayloadFatal, SameView
<1>. QED  BY <1>1, <1>2, <1>3, <1>4, <1>5, <1>6, <1>7

\* The forkchoice updates of the consensus client.
LEMMA ForkchoiceRefines ==
    ASSUME ConsistentClient, ApiInv, NEW fcu \in ForkchoiceStates,
           \/ FcuRefused(fcu) \/ FcuSameHead(fcu) \/ FcuNewHead(fcu)
           \/ FcuKnownHead(fcu) \/ FcuSyncing(fcu)
    PROVE  Api!ApiNext
<1>. DEFINE V == chain_state.blocks_by_hash
            h == fcu.head
<1>i. /\ TypeOK /\ SoundBuffer(block_buffer) /\ InvalidHeadersSound
      /\ ChainIndexed(chain_state) /\ HeadStored
  BY DEF ApiInv, ValidityInv, BufferInv
<1>t. h \in Hash \cup {Zero} /\ V \subseteq Hash /\ Zero \notin Hash
  BY <1>i, MessagesAssumption, BlocksAssumption DEF TypeOK, Chains
<1>m. UNCHANGED outcomes
  BY DEF FcuRefused, FcuSameHead, FcuNewHead, FcuKnownHead, FcuSyncing, ForkchoiceUpdated, NextMessage
<1>a. \A status : AnswerForkchoice(fcu, status) =>
          /\ response' = [to |-> "forkchoice", hash |-> h, status |-> status]
          /\ status \in {"VALID", "INVALID_ATTRIBUTES"} => sync_target' = None
          /\ status = "SYNCING" => sync_target' = h
          /\ status \in {"INVALID", "INVALID_STATE", "ERROR"} => sync_target' = sync_target
  BY DEF AnswerForkchoice, TrackForkchoice, Answer
<1>1. CASE FcuRefused(fcu)
  <2>1. UNCHANGED <<chain_state, canonical_head, inflight>>
    BY <1>1 DEF FcuRefused
  <2>2. CASE h = Zero /\ AnswerForkchoice(fcu, "INVALID_STATE")
    <3>1. Api!Refuse(fcu)
      BY <1>a, <1>m, <2>1, <2>2 DEF Api!Refuse, Api!Answered
    <3>. QED  BY <3>1 DEF Api!ApiNext
  <2>3. CASE h # Zero /\ AnswerForkchoice(fcu, "INVALID")
    <3>1. h \in Hash
      BY <1>t, <2>3
    <3>2. LowestBufferedAncestorOr(block_buffer, h) \in Ancestry[h] \cup {Zero}
      BY <1>i, <3>1, LowestBufferedAncestorType
    <3>3. KnownInvalid(invalid_headers, LowestBufferedAncestorOr(block_buffer, h))
      BY <1>1, <2>3 DEF FcuRefused, Processable
    <3>4. Ancestry[h] \cap Rejectable # {}
      BY <1>i, <3>1, <3>2, <3>3, KnownInvalidRefusable
    <3>5. Api!Refuse(fcu)
      BY <1>a, <1>m, <2>1, <2>3, <3>4, ApiTerms DEF Api!Refuse, Api!Answered
    <3>. QED  BY <3>5 DEF Api!ApiNext
  <2>. QED  BY <1>1, <2>2, <2>3 DEF FcuRefused
<1>2. CASE FcuSameHead(fcu)
  <2>1. UNCHANGED <<chain_state, canonical_head, inflight>> /\ h = canonical_head
    BY <1>2 DEF FcuSameHead
  <2>2. CASE AnswerForkchoice(fcu, "INVALID_STATE")
    <3>1. Api!Refuse(fcu)
      BY <1>a, <1>m, <2>1, <2>2 DEF Api!Refuse, Api!Answered
    <3>. QED  BY <3>1 DEF Api!ApiNext
  <2>3. CASE AnswerForkchoice(fcu, AppliedStatus(fcu))
    <3>1. h \in V /\ Connected(h)
      BY <1>i, <2>1 DEF HeadStored, Connected
    <3>2. Api!Apply(fcu)
      BY <1>a, <1>m, <2>1, <2>3, <3>1, ApiTerms DEF Api!Apply, Api!Answered, AppliedStatus
    <3>. QED  BY <3>2 DEF Api!ApiNext
  <2>. QED  BY <1>2, <1>i, <2>2, <2>3 DEF FcuSameHead, HeadStored
<1>3. CASE FcuNewHead(fcu)
  <2>1. /\ h \in V /\ Connected(h) /\ canonical_head' = h
        /\ \/ /\ AnswerForkchoice(fcu, "INVALID_STATE")
              /\ chain_state'.blocks_by_hash = V
           \/ /\ AnswerForkchoice(fcu, AppliedStatus(fcu))
              /\ \/ chain_state'.blocks_by_hash = V
                 \/ /\ fcu.finalized \in V
                    /\ chain_state'.blocks_by_hash = {x \in V : Number[x] >= Number[fcu.finalized]}
    BY <1>3, <1>i, NewHeadEffect
  <2>2. fcu.finalized \in V => fcu.finalized \in Ancestry[h]
    BY <1>t, <2>1 DEF ConsistentClient
  <2>3. UNCHANGED Finalizing
    BY <1>3, <1>m DEF FcuNewHead, Finalizing
  <2>4. Api!Apply(fcu)
    <3>1. CASE AnswerForkchoice(fcu, "INVALID_STATE") /\ chain_state'.blocks_by_hash = V
      BY <1>a, <2>1, <2>3, <3>1, ApiTerms DEF Api!Apply, Api!Answered, Finalizing
    <3>2. CASE AnswerForkchoice(fcu, AppliedStatus(fcu)) /\ chain_state'.blocks_by_hash = V
      BY <1>a, <2>1, <2>3, <3>2, ApiTerms DEF Api!Apply, Api!Answered, AppliedStatus, Finalizing
    <3>3. CASE /\ AnswerForkchoice(fcu, AppliedStatus(fcu))
               /\ fcu.finalized \in V
               /\ chain_state'.blocks_by_hash = {x \in V : Number[x] >= Number[fcu.finalized]}
      BY <1>a, <2>1, <2>2, <2>3, <3>3, ApiTerms
         DEF Api!Apply, Api!Answered, AppliedStatus, Finalizing
    <3>. QED  BY <2>1, <3>1, <3>2, <3>3
  <2>. QED  BY <2>4 DEF Api!ApiNext
<1>4. CASE FcuKnownHead(fcu)
  <2>1. /\ h \in V /\ ~HasNewHead(chain_state, canonical_head, h)
        /\ AnswerForkchoice(fcu, "VALID")
        /\ UNCHANGED <<chain_state, canonical_head, inflight>>
    BY <1>4 DEF FcuKnownHead
  <2>2. h = Genesis \/ ~Connected(h)
    BY <1>i, <1>t, <2>1, NewHeadConnected
  <2>3. Api!Skip(fcu)
    BY <1>a, <1>m, <2>1, <2>2, ApiTerms DEF Api!Skip, Api!Answered
  <2>. QED  BY <2>3 DEF Api!ApiNext
<1>5. CASE FcuSyncing(fcu)
  <2>1. /\ h \notin V \cup {Zero}
        /\ inflight' = SyncRequests(fcu)
        /\ AnswerForkchoice(fcu, "SYNCING")
        /\ UNCHANGED <<chain_state, canonical_head>>
    BY <1>5 DEF FcuSyncing, Processable
  <2>2. SyncRequests(fcu).finalized \in {inflight.finalized, inflight.finalized \cup {fcu.finalized}}
    BY <1>i, <2>1, SyncRequestsType
  <2>3. Finalizing' \in {Finalizing, Finalizing \cup {fcu.finalized}}
    BY <1>m, <2>1, <2>2 DEF Finalizing
  <2>4. Api!Sync(fcu)
    BY <1>a, <2>1, <2>3 DEF Api!Sync, Api!Answered, Finalizing
  <2>. QED  BY <2>4 DEF Api!ApiNext
<1>. QED  BY <1>1, <1>2, <1>3, <1>4, <1>5

\* Every step of the engine is a step of the engine API or changes nothing
\* that it speaks of.
LEMMA ApiStep ==
    ASSUME ConsistentClient, ApiInv, [Next]_vars
    PROVE  [Api!ApiNext]_(Api!apiVars)
<1>1. CASE UNCHANGED vars
  BY <1>1 DEF vars, treeVars, engineVars, Api!apiVars
<1>2. CASE Next
  BY <1>2, ConnectRefines, DownloadRefines, BackgroundRefines, PayloadRefines, ForkchoiceRefines
     DEF Next, EngineStep, ClientMessage
<1>. QED  BY <1>1, <1>2

\* The engine does what EngineApi says, whatever the order of payloads,
\* forkchoice updates, downloads and timeouts, for a consensus client whose
\* updates name a finalized block on the chain of their head: blocks are
\* validated one by one on validated parents, the head moves to blocks that
\* the client has named and that are connected to the old head through
\* validated blocks, and every answer fits the state in which it is given.
THEOREM EngineImplementsApi == ASSUME ConsistentClient PROVE Spec => ImplementsEngineApi
<1>1. Init => Api!ApiInit
  <2>. SUFFICES ASSUME Init PROVE Api!ApiInit
    OBVIOUS
  <2>1. chain_state.blocks_by_hash = {Genesis}
    BY GenesisChainType DEF Init, TreeInit, ChainInit
  <2>. QED  BY <2>1 DEF Init, TreeInit, NoDownloads, Api!ApiInit
<1>2. ApiInv /\ [Next]_vars => [Api!ApiNext]_(Api!apiVars)
  BY ApiStep
<1>. QED  BY <1>1, <1>2, ApiInduction, PTL DEF Spec, ImplementsEngineApi, Api!ApiSpec

-----------------------------------------------------------------------------
(* The engine uses the downloader as DownloadQueue says.                   *)

\* No request of any kind is withdrawn.
Keeps(new, old) ==
    old.finalized \subseteq new.finalized /\ old.full \subseteq new.full /\ old.proof \subseteq new.proof

\* A request is added to those in flight.
LEMMA RequestsKept ==
    ASSUME NEW requests \in Downloads, NEW h, NEW buf
    PROVE  /\ Keeps(requests, requests)
           /\ Keeps(DownloadBlock(requests, buf, h), requests)
           /\ Keeps(DownloadProof(requests, h), requests)
           /\ Keeps(DownloadFinalized(requests, h), requests)
           /\ Keeps(DownloadProof(DownloadBlock(requests, buf, h), h), requests)
<1>1. Keeps(requests, requests)
  BY DEF Keeps
<1>2. Keeps(DownloadBlock(requests, buf, h), requests)
  BY DEF DownloadBlock, Keeps, Downloads
<1>3. Keeps(DownloadProof(requests, h), requests)
  BY DEF DownloadProof, Keeps, Downloads
<1>4. Keeps(DownloadFinalized(requests, h), requests)
  BY DEF DownloadFinalized, Keeps, Downloads
<1>5. Keeps(DownloadProof(DownloadBlock(requests, buf, h), h), requests)
  BY DEF DownloadProof, DownloadBlock, Keeps, Downloads
<1>. QED  BY <1>1, <1>2, <1>3, <1>4, <1>5

\* Only the completion of a download takes it out of the requests.
LEMMA RequestsStep ==
    ASSUME TypeOK, SoundBuffer(block_buffer), [Next]_vars
    PROVE  PollDownloader \/ Keeps(inflight', inflight)
<1>t. inflight \in Downloads
  BY DEF TypeOK
<1>k. /\ Keeps(inflight, inflight)
      /\ \A h, buf : /\ Keeps(DownloadBlock(inflight, buf, h), inflight)
                     /\ Keeps(DownloadProof(inflight, h), inflight)
                     /\ Keeps(DownloadFinalized(inflight, h), inflight)
  BY <1>t, RequestsKept
<1>1. ASSUME NEW h \in Hash, OnProof(h) \/ OnFullBlock(h)
      PROVE  Keeps(inflight', inflight)
  <2>1. \/ UNCHANGED inflight
        \/ \E missing : inflight' = DownloadBlock(inflight, block_buffer', missing)
    BY <1>1 DEF OnProof, OnFullBlock, Unlocked, DownloadedInvalidAncestor, DownloadedInserted
  <2>. QED  BY <1>k, <2>1
<1>2. CASE FinishConnecting
  <2>1. inflight' \in {inflight, DownloadProof(inflight, caller.hash)}
    BY <1>2 DEF FinishConnecting
  <2>. QED  BY <1>k, <2>1
<1>3. ASSUME NEW h \in Hash, NewPayloadDisconnected(h)
      PROVE  Keeps(inflight', inflight)
  <2>. DEFINE missing == MissingAncestor(WithoutProof(h), h)
              requests == DownloadBlock(inflight, block_buffer', missing)
  <2>1. missing \in Hash \cup {Zero}
    BY RemoveProofSound, LowestBufferedAncestorType, AncestryClosed DEF WithoutProof
  <2>. HIDE DEF missing
  <2>2. requests \in Downloads /\ Keeps(requests, inflight)
    BY <1>t, <1>k, <2>1, RequestsType
  <2>3. inflight' \in {requests, DownloadProof(requests, h)}
    BY <1>3 DEF NewPayloadDisconnected, missing
  <2>. HIDE DEF requests
  <2>4. Keeps(DownloadProof(requests, h), requests)
    BY <2>2, RequestsKept
  <2>. QED  BY <2>2, <2>3, <2>4 DEF Keeps
<1>4. ASSUME NEW h \in Hash, NewPayloadNoProof(h)
      PROVE  Keeps(inflight', inflight)
  BY <1>k, <1>4 DEF NewPayloadNoProof
<1>5. ASSUME NEW fcu \in ForkchoiceStates, FcuSyncing(fcu)
      PROVE  Keeps(inflight', inflight)
  <2>1. \/ UNCHANGED inflight
        \/ inflight' = DownloadFinalized(inflight, fcu.finalized)
        \/ \E target : inflight' = DownloadBlock(inflight, block_buffer, target)
    BY <1>5 DEF FcuSyncing, SyncRequests
  <2>. QED  BY <1>k, <2>1
<1>6. \/ UNCHANGED inflight
      \/ PollDownloader
      \/ FinishConnecting
      \/ \E h \in Hash : \/ OnProof(h) \/ OnFullBlock(h)
                         \/ NewPayloadDisconnected(h) \/ NewPayloadNoProof(h)
      \/ \E fcu \in ForkchoiceStates : FcuSyncing(fcu)
  BY DEF Next, EngineStep, ClientMessage, vars, engineVars, ConnectValid,
         ConnectDisconnected, ConnectInvalid, ConnectFatal, NextToConnect,
         OnUnrecoverableFullBlock, OnFinalizedBlock, OnUnrecoverableFinalizedBlock,
         ParkedTimeout, ForgetInvalidHeader, NewPayloadMalformed, NewPayloadInvalidAncestor,
         NewPayloadValid, NewPayloadInvalid, NewPayloadFatal, FcuRefused, FcuSameHead,
         FcuNewHead, FcuKnownHead
<1>. QED  BY <1>k, <1>1, <1>2, <1>3, <1>4, <1>5, <1>6

\* Every step of the engine is a step of the queue or leaves it alone.
LEMMA QueueStep ==
    ASSUME TypeOK, SoundBuffer(block_buffer), TypeOK', [Next]_vars
    PROVE  Queue!QueueNext
<1>t. inflight \in Downloads /\ outcomes \in Downloads /\ inflight' \in Downloads
  BY DEF TypeOK
<1>k. Queue!Kind = Kinds
  BY DEF Queue!Kind, Kinds
<1>1. CASE PollDownloader
  <2>1. PICK ready \in [finalized : Completable("finalized"), full : Completable("full"),
                        proof : Completable("proof")] \ {NoDownloads} :
            /\ outcomes' = ready
            /\ inflight' = [k \in Kinds |-> inflight[k] \ ready[k]]
    BY <1>1 DEF PollDownloader
  <2>a. PICK k \in Kinds : ready[k] # {}
    <3>1. ready.finalized # {} \/ ready.full # {} \/ ready.proof # {}
      BY <2>1 DEF NoDownloads
    <3>. QED  BY <3>1 DEF Kinds
  <2>2. PICK h \in ready[k] : TRUE
    BY <2>a
  <2>3. \A kind : Queue!Completable(kind) = Completable(kind)
    BY DEF Queue!Completable, Completable
  <2>4. outcomes = Queue!Empty
    BY <1>1 DEF PollDownloader, NoDownloads, Queue!Empty, Queue!Kind
  <2>5. h \in inflight[k] \cap Deliverable[k] /\ h \in Hash \cup {Zero}
    BY <1>t, <2>1, <2>2 DEF Completable, Kinds, Downloads
  <2>6. Queue!Complete(k, h)
    BY <1>k, <2>1, <2>2, <2>3, <2>4, <2>5 DEF Queue!Complete
  <2>. QED  BY <1>k, <2>2, <2>5, <2>6 DEF Queue!QueueNext
<1>2. CASE Keeps(inflight', inflight)
  <2>1. Queue!AddsRequests
    BY <1>t, <1>2 DEF Keeps, Queue!AddsRequests, Queue!MoreRequests, Downloads
  <2>2. CASE UNCHANGED outcomes
    BY <2>1, <2>2 DEF Queue!Request, Queue!QueueNext
  <2>3. ASSUME NEW kind \in Kinds, NEW h \in Hash, NextOutcome(kind, h)
        PROVE  Queue!QueueNext
    <3>1. Queue!Take(kind, h)
      BY <2>1, <2>3 DEF Queue!Take, NextOutcome
    <3>. QED  BY <1>k, <3>1 DEF Queue!QueueNext
  <2>. QED  BY <1>1, <2>2, <2>3, OutcomesCases
<1>. QED  BY <1>1, <1>2, RequestsStep

\* The engine keeps to the contract of its downloader: it never withdraws or
\* invents a request or an outcome, takes the outcomes of finalized blocks
\* first and those of proofs last, and starts no new round of completions
\* before the last one is taken, whatever the client sends and whichever
\* downloads complete together.
THEOREM EngineFollowsDownloadQueue == Spec => FollowsDownloadQueue
<1>1. Init => Queue!QueueInit
  BY DEF Init, NoDownloads, Queue!QueueInit, Queue!Empty, Queue!Kind
<1>2. TypeOK /\ TypeOK' /\ BufferInv /\ [Next]_vars => [Queue!QueueNext]_(Queue!queueVars)
  BY QueueStep DEF BufferInv
<1>. QED  BY <1>1, <1>2, EngineTypeCorrect, EngineBufferInduction, PTL
          DEF Spec, FollowsDownloadQueue, Queue!QueueSpec

-----------------------------------------------------------------------------
(* The canonical chain: its hashes are those of the chain of the head, and *)
(* BLOCKHASH finds them.                                                   *)

\* What CanonicalSound says, of any map from numbers to hashes and any head.
ChainOf(canonical, head) ==
    /\ \A n \in Heights : canonical[n] # None =>
          canonical[n] \in Ancestry[head] /\ Number[canonical[n]] = n
    /\ canonical[Number[head]] = head
    /\ \A m, n \in Heights :
          canonical[m] # None /\ m < n /\ n < Number[head] => canonical[n] # None

\* What on_chain_update makes of the hashes: those of one branch are entered,
\* those of another cleared.
Replaced(c, canonical, new, old) ==
    /\ \A x \in new : c[Number[x]] = x
    /\ \A n \in Heights : (\A x \in new : Number[x] # n) =>
          c[n] = IF canonical[n] \in old THEN None ELSE canonical[n]

\* on_chain_update for a branch that ends at h.
LEMMA OnChainUpdateHashes ==
    ASSUME NEW chain \in Chains, NEW h \in Hash, NEW new \in SUBSET Ancestry[h], NEW old
    PROVE  Replaced(OnChainUpdate(chain, new, old).canonical_hashes_by_number,
                    chain.canonical_hashes_by_number, new, old)
<1>. DEFINE canonical == chain.canonical_hashes_by_number
            c == OnChainUpdate(chain, new, old).canonical_hashes_by_number
<1>1. c = [ n \in Heights |->
              IF \E x \in new : Number[x] = n THEN CHOOSE x \in new : Number[x] = n
              ELSE IF canonical[n] \in old THEN None
              ELSE canonical[n] ]
  BY DEF OnChainUpdate, Chains
<1>. HIDE DEF c
<1>2. ASSUME NEW x \in new PROVE c[Number[x]] = x
  <2>1. Number[x] \in Heights
    BY AncestryClosed DEF Heights
  <2>2. \A y \in new : Number[y] = Number[x] => y = x
    BY AncestryLinear
  <2>. QED  BY <1>1, <2>1, <2>2
<1>3. ASSUME NEW n \in Heights, \A x \in new : Number[x] # n
      PROVE  c[n] = IF canonical[n] \in old THEN None ELSE canonical[n]
  BY <1>1, <1>3
<1>. QED  BY <1>2, <1>3 DEF Replaced, c

\* The branches on_new_head collects end at the new head.
LEMMA NewBranchHashes ==
    ASSUME NEW chain \in Chains, NEW head \in Hash, NEW h \in Hash \ {Genesis}
    PROVE  /\ Parent[h] \in Hash
           /\ Ancestry[h] = {h} \cup Ancestry[Parent[h]]
           /\ NewBranch(head, h) \in SUBSET Ancestry[h]
           /\ h \in NewBranch(head, h)
           /\ Replaced(CanonicalChainUpdate(chain, head, h).canonical_hashes_by_number,
                       chain.canonical_hashes_by_number, NewBranch(head, h), OldBranch(head, h))
<1>1. Parent[h] \in Hash /\ Ancestry[h] = {h} \cup Ancestry[Parent[h]]
  BY BlocksAssumption, AncestryStep
<1>2. NewBranch(head, h) \in SUBSET Ancestry[h] /\ h \in NewBranch(head, h)
  BY <1>1 DEF NewBranch
<1>. QED  BY <1>1, <1>2, OnChainUpdateHashes DEF CanonicalChainUpdate

\* A block of the chain of the new head has its hash among the canonical ones
\* if it had it before, or is new on the chain.
LEMMA NewHeadHash ==
    ASSUME NEW chain \in Chains, NEW head \in Hash, NEW h \in Hash \ {Genesis},
           ChainOf(chain.canonical_hashes_by_number, head),
           NEW y \in Ancestry[h],
           y \in Ancestry[head] => chain.canonical_hashes_by_number[Number[y]] # None
    PROVE  CanonicalChainUpdate(chain, head, h).canonical_hashes_by_number[Number[y]] # None
<1>. DEFINE canonical == chain.canonical_hashes_by_number
            new == NewBranch(head, h)
            old == OldBranch(head, h)
            c == CanonicalChainUpdate(chain, head, h).canonical_hashes_by_number
<1>1. /\ Ancestry[h] = {h} \cup Ancestry[Parent[h]]
      /\ new \in SUBSET Ancestry[h] /\ h \in new
      /\ Replaced(c, canonical, new, old)
  BY NewBranchHashes
<1>2. y \in Hash /\ Number[y] \in Heights /\ new \subseteq Hash
  BY <1>1, AncestryClosed DEF Heights
<1>. SUFFICES c[Number[y]] # None
  OBVIOUS
<1>. HIDE DEF c, new, old
<1>3. CASE \E x \in new : Number[x] = Number[y]
  BY <1>1, <1>2, <1>3, BlocksAssumption DEF Replaced
<1>4. CASE \A x \in new : Number[x] # Number[y]
  <2>1. y \notin new
    BY <1>4
  <2>2. y \in Ancestry[head] /\ y \in Ancestry[Parent[h]]
    BY <1>1, <2>1 DEF new, NewBranch
  <2>3. canonical[Number[y]] \in Ancestry[head] /\ Number[canonical[Number[y]]] = Number[y]
    BY <1>2, <2>2 DEF ChainOf
  <2>4. canonical[Number[y]] = y
    BY <2>2, <2>3, AncestryLinear
  <2>5. y \notin old
    BY <2>2 DEF old, OldBranch
  <2>6. c[Number[y]] = IF canonical[Number[y]] \in old THEN None ELSE canonical[Number[y]]
    BY <1>1, <1>2, <1>4 DEF Replaced
  <2>. QED  BY <1>2, <2>4, <2>5, <2>6, BlocksAssumption
<1>. QED  BY <1>3, <1>4

\* make_canonical: from the chain of one head to the chain of another,
\* whether the other is above, below, or on a fork.
LEMMA NewHeadChain ==
    ASSUME NEW chain \in Chains, NEW head \in Hash, NEW h \in Hash \ {Genesis},
           ChainOf(chain.canonical_hashes_by_number, head)
    PROVE  ChainOf(CanonicalChainUpdate(chain, head, h).canonical_hashes_by_number, h)
<1>. DEFINE canonical == chain.canonical_hashes_by_number
            new == NewBranch(head, h)
            old == OldBranch(head, h)
            c == CanonicalChainUpdate(chain, head, h).canonical_hashes_by_number
<1>1. /\ Ancestry[h] = {h} \cup Ancestry[Parent[h]]
      /\ new \in SUBSET Ancestry[h] /\ h \in new
      /\ Replaced(c, canonical, new, old)
  BY NewBranchHashes
<1>2. /\ \A n \in Heights : n \in Nat
      /\ \A x \in Hash : Number[x] \in Nat
      /\ Ancestry[h] \subseteq Hash
  BY BlocksAssumption, AncestryClosed DEF Heights
<1>3. \A y \in Ancestry[h] : (y \in Ancestry[head] => canonical[Number[y]] # None) => c[Number[y]] # None
  BY NewHeadHash
<1>. HIDE DEF c, new, old
<1>5. ASSUME NEW n \in Heights, c[n] # None
      PROVE  c[n] \in Ancestry[h] /\ Number[c[n]] = n
  <2>1. CASE \E x \in new : Number[x] = n
    BY <1>1, <2>1 DEF Replaced
  <2>2. CASE \A x \in new : Number[x] # n
    <3>1. c[n] = canonical[n] /\ canonical[n] \notin old
      BY <1>1, <1>5, <2>2 DEF Replaced
    <3>2. canonical[n] \in Ancestry[head] /\ Number[canonical[n]] = n
      BY <1>5, <3>1 DEF ChainOf
    <3>. QED  BY <1>1, <3>1, <3>2 DEF old, OldBranch
  <2>. QED  BY <2>1, <2>2
<1>6. c[Number[h]] = h
  BY <1>1 DEF Replaced
<1>7. ASSUME NEW m \in Heights, NEW n \in Heights, c[m] # None, m < n, n < Number[h]
      PROVE  c[n] # None
  <2>1. c[m] \in Ancestry[h] /\ Number[c[m]] = m
    BY <1>5, <1>7
  <2>2. PICK y \in Ancestry[h] : Number[y] = n
    BY <1>2, <1>7, <2>1, AncestryBetween
  <2>3. ASSUME y \in Ancestry[head] PROVE canonical[n] # None
    <3>1. CASE n = Number[head]
      BY <3>1, BlocksAssumption DEF ChainOf
    <3>2. CASE n # Number[head]
      <4>1. n < Number[head]
        BY <2>2, <2>3, <3>2, AncestryNumber
      <4>2. ASSUME canonical[m] = None PROVE FALSE
        <5>1. PICK x \in new : Number[x] = m
          BY <1>1, <1>7, <4>2 DEF Replaced
        <5>2. x \in Ancestry[h] /\ x # h /\ x \notin Ancestry[head]
          BY <1>1, <1>2, <1>7, <5>1 DEF new, NewBranch
        <5>3. x \in Ancestry[y]
          BY <1>2, <1>7, <2>2, <5>1, <5>2, AncestryLower
        <5>. QED  BY <2>3, <5>2, <5>3, AncestryTransitive
      <4>. QED  BY <1>7, <4>1, <4>2 DEF ChainOf
    <3>. QED  BY <3>1, <3>2
  <2>. QED  BY <1>3, <2>2, <2>3
<1>. QED  BY <1>5, <1>6, <1>7 DEF ChainOf, c

\* on_finalized keeps the window of hashes below a finalized block that is
\* itself on the chain of the head.
LEMMA RemoveBlocksChain ==
    ASSUME NEW chain \in Chains, NEW head \in Hash, NEW f \in Ancestry[head],
           ChainOf(chain.canonical_hashes_by_number, head)
    PROVE  ChainOf(RemoveBlocksOnFinalized(chain, f).canonical_hashes_by_number, head)
<1>. DEFINE canonical == chain.canonical_hashes_by_number
            c == RemoveBlocksOnFinalized(chain, f).canonical_hashes_by_number
<1>1. CASE f \notin chain.blocks_by_hash
  BY <1>1 DEF RemoveBlocksOnFinalized
<1>2. CASE f \in chain.blocks_by_hash
  <2>1. c = [n \in Heights |-> IF n + AncestorWindow < Number[f] THEN None ELSE canonical[n]]
    BY <1>2 DEF RemoveBlocksOnFinalized
  <2>. HIDE DEF c
  <2>2. /\ \A n \in Heights : n \in Nat
        /\ Number[head] \in Heights
        /\ Number[f] \in Nat /\ Number[head] \in Nat /\ Number[f] <= Number[head]
        /\ AncestorWindow \in Nat
    BY BlocksAssumption, AncestryNumber, AncestorWindowAssumption DEF Heights
  <2>3. c[Number[head]] = canonical[Number[head]]
    BY <2>1, <2>2
  <2>4. \A n \in Heights : c[n] # None => c[n] = canonical[n]
    BY <2>1
  <2>5. ASSUME NEW m \in Heights, NEW n \in Heights, c[m] # None, m < n, n < Number[head]
        PROVE  c[n] # None
    <3>1. ~(m + AncestorWindow < Number[f]) /\ canonical[m] # None
      BY <2>1, <2>5
    <3>2. ~(n + AncestorWindow < Number[f])
      BY <2>2, <2>5, <3>1
    <3>3. canonical[n] # None
      BY <2>5, <3>1 DEF ChainOf
    <3>. QED  BY <2>1, <3>2, <3>3
  <2>6. ChainOf(c, head)
    BY <2>3, <2>4, <2>5 DEF ChainOf
  <2>. QED  BY <2>6 DEF c
<1>. QED  BY <1>1, <1>2

\* A finalized block that arrives when the head is below it, by no more than
\* the window of headers that comes with it, extends the chain without a gap.
InTime(f) ==
    /\ canonical_head \in Ancestry[f]
    /\ Number[f] <= Number[canonical_head] + AncestorWindow + 1

\* on_downloaded_finalized_block in time.
LEMMA FinalizedChain ==
    ASSUME NEW chain \in Chains, NEW f \in Hash, canonical_head \in Hash, InTime(f),
           ChainOf(chain.canonical_hashes_by_number, canonical_head),
           NEW c, c = InsertCanonicalHashes(chain, {f} \cup FinalizedAncestors(f)).canonical_hashes_by_number
    PROVE  /\ ChainOf(c, f)
           /\ \A n \in Heights : n + AncestorWindow >= Number[f] /\ n <= Number[f] => c[n] # None
           /\ \A n \in Heights :
                 n <= Number[canonical_head] /\ chain.canonical_hashes_by_number[n] # None
                    => c[n] # None
<1>. DEFINE canonical == chain.canonical_hashes_by_number
            new == {f} \cup FinalizedAncestors(f)
            head == canonical_head
<1>1. /\ \A n \in Heights : n \in Nat
      /\ \A x \in Hash : Number[x] \in Nat
      /\ Ancestry[f] \subseteq Hash
      /\ f \in Ancestry[f]
      /\ AncestorWindow \in Nat
      /\ Ancestry[head] \subseteq Ancestry[f]
  BY BlocksAssumption, AncestryClosed, AncestryTransitive, AncestorWindowAssumption DEF Heights, InTime
<1>2. new \in SUBSET Ancestry[f] /\ f \in new
  BY <1>1 DEF FinalizedAncestors
<1>3. Replaced(c, canonical, new, {})
  BY <1>2, OnChainUpdateHashes DEF InsertCanonicalHashes
<1>4. \A x \in Ancestry[f] : Number[x] + AncestorWindow >= Number[f] => x \in new
  BY DEF FinalizedAncestors
<1>5. \A x \in new : Number[x] + AncestorWindow >= Number[f]
  <2>1. Number[f] \in Nat /\ Number[f] + AncestorWindow >= Number[f]
    BY <1>1
  <2>2. \A x \in FinalizedAncestors(f) : Number[x] + AncestorWindow >= Number[f]
    BY DEF FinalizedAncestors
  <2>. QED  BY <2>1, <2>2
<1>. HIDE DEF new
<1>6. ASSUME NEW n \in Heights, c[n] # None
      PROVE  c[n] \in Ancestry[f] /\ Number[c[n]] = n
  <2>1. CASE \E x \in new : Number[x] = n
    BY <1>2, <1>3, <2>1 DEF Replaced
  <2>2. CASE \A x \in new : Number[x] # n
    <3>1. c[n] = canonical[n]
      BY <1>3, <2>2 DEF Replaced
    <3>. QED  BY <1>1, <1>6, <3>1 DEF ChainOf
  <2>. QED  BY <2>1, <2>2
<1>7. c[Number[f]] = f
  BY <1>2, <1>3 DEF Replaced
<1>8. ASSUME NEW n \in Heights, n + AncestorWindow >= Number[f], n <= Number[f]
      PROVE  c[n] # None
  <2>1. PICK y \in Ancestry[f] : Number[y] = n
    BY <1>1, <1>8, AncestryComplete
  <2>2. y \in new /\ y # None
    BY <1>1, <1>4, <1>8, <2>1, BlocksAssumption
  <2>. QED  BY <1>3, <2>1, <2>2 DEF Replaced
<1>9. ASSUME NEW n \in Heights, canonical[n] # None
      PROVE  c[n] # None
  <2>1. ASSUME NEW x \in new, Number[x] = n PROVE c[n] # None
    <3>1. x \in Hash /\ c[n] = x
      BY <1>1, <1>2, <1>3, <2>1 DEF Replaced
    <3>. QED  BY <3>1, BlocksAssumption
  <2>2. CASE \A x \in new : Number[x] # n
    BY <1>3, <1>9, <2>2 DEF Replaced
  <2>. QED  BY <2>1, <2>2
<1>10. ASSUME NEW m \in Heights, NEW n \in Heights, c[m] # None, m < n, n < Number[f]
       PROVE  c[n] # None
  <2>1. CASE n + AncestorWindow >= Number[f]
    <3>1. n \in Nat /\ Number[f] \in Nat
      BY <1>1
    <3>2. n <= Number[f]
      BY <1>10, <3>1
    <3>. QED  BY <1>8, <2>1, <3>2
  <2>2. CASE ~(n + AncestorWindow >= Number[f])
    <3>1. m \in Nat /\ n \in Nat /\ Number[f] \in Nat /\ Number[head] \in Nat
      BY <1>1
    <3>2. n <= Number[head] /\ ~(m + AncestorWindow >= Number[f])
      BY <1>1, <1>10, <2>2, <3>1 DEF InTime
    <3>3. canonical[m] # None
      BY <1>3, <1>5, <1>10, <3>2 DEF Replaced
    <3>4. canonical[n] # None
      <4>1. CASE n = Number[head]
        BY <4>1, BlocksAssumption DEF ChainOf
      <4>2. CASE n < Number[head]
        BY <1>10, <3>3, <4>2 DEF ChainOf
      <4>. QED  BY <3>1, <3>2, <4>1, <4>2
    <3>. QED  BY <1>9, <3>4
  <2>. QED  BY <2>1, <2>2
<1>. QED  BY <1>6, <1>7, <1>8, <1>9, <1>10 DEF ChainOf

-----------------------------------------------------------------------------
(* The inductive invariant.                                                *)

\* The hashes BLOCKHASH may ask for on top of a stored block, up to the head,
\* are all there: finalization removes a hash only when no block that could
\* ask for it is left.
WindowKept(chain, head) ==
    \A p \in chain.blocks_by_hash, n \in Heights :
        n <= Number[head] /\ Number[p] < n + AncestorWindow =>
            chain.canonical_hashes_by_number[n] # None

CanonicalChain(chain, head) ==
    /\ ChainIndexed(chain)
    /\ ChainOf(chain.canonical_hashes_by_number, head)
    /\ WindowKept(chain, head)

CanonicalInv == ValidityInv /\ CanonicalChain(chain_state, canonical_head)

\* Numbers are natural numbers.
LEMMA NumbersNat ==
    /\ \A n \in Heights : n \in Nat
    /\ \A x \in Hash : Number[x] \in Nat /\ Number[x] \in Heights
    /\ AncestorWindow \in Nat
  BY BlocksAssumption, AncestorWindowAssumption DEF Heights

\* What launch stores.
LEMMA GenesisCanonical == CanonicalChain(GenesisChain, Genesis)
<1>. DEFINE e == ChainInsertBlock(EmptyChain, Genesis, FALSE)
            c == GenesisChain.canonical_hashes_by_number
<1>1. EmptyChain \in Chains /\ Genesis \in Hash
  BY BlocksAssumption DEF EmptyChain, Chains
<1>2. e \in Chains /\ e.canonical_hashes_by_number = [n \in Heights |-> None]
  BY <1>1, ChainInsertBlockType DEF ChainInsertBlock, EmptyChain
<1>3. {Genesis} \in SUBSET Ancestry[Genesis] /\ Number[Genesis] = 0
  BY <1>1, AncestryClosed, BlocksAssumption
<1>. HIDE DEF e
<1>4. Replaced(c, e.canonical_hashes_by_number, {Genesis}, {})
  BY <1>1, <1>2, <1>3, OnChainUpdateHashes DEF GenesisChain, InsertCanonicalHashes, e
<1>. HIDE DEF c
<1>5. c[0] = Genesis /\ \A n \in Heights : n # 0 => c[n] = None
  BY <1>2, <1>3, <1>4 DEF Replaced
<1>6. ChainOf(c, Genesis)
  BY <1>1, <1>3, <1>5, NumbersNat DEF ChainOf
<1>7. WindowKept(GenesisChain, Genesis)
  BY <1>1, <1>3, <1>5, NumbersNat, BlocksAssumption DEF WindowKept, c
<1>. QED  BY <1>6, <1>7, GenesisIndexed DEF CanonicalChain, c

\* Storing a block on a stored parent (insert_block of the tree).
LEMMA InsertCanonical ==
    ASSUME NEW chain \in Chains, NEW head \in Hash, CanonicalChain(chain, head),
           NEW h \in Hash, Parent[h] \in chain.blocks_by_hash, NEW has_proof \in BOOLEAN
    PROVE  CanonicalChain(ChainInsertBlock(chain, h, has_proof), head)
<1>. DEFINE c == ChainInsertBlock(chain, h, has_proof)
<1>1. /\ c \in Chains
      /\ c.blocks_by_hash = chain.blocks_by_hash \cup {h}
      /\ ChainIndexed(c)
  BY ChainInsertBlockType, ChainInsertIndexed DEF CanonicalChain
<1>2. c.canonical_hashes_by_number = chain.canonical_hashes_by_number
  BY DEF ChainInsertBlock, Chains
<1>. HIDE DEF c
<1>3. Parent[h] \in Hash /\ Number[h] = Number[Parent[h]] + 1
  BY BlocksAssumption DEF Chains
<1>4. ASSUME NEW n \in Heights, Number[h] < n + AncestorWindow
      PROVE  Number[Parent[h]] < n + AncestorWindow
  BY <1>3, <1>4, NumbersNat
<1>5. WindowKept(c, head)
  BY <1>1, <1>2, <1>4 DEF WindowKept, CanonicalChain
<1>6. CanonicalChain(c, head)
  BY <1>1, <1>2, <1>5 DEF CanonicalChain
<1>. QED  BY <1>6 DEF c

\* Making a stored block the head (make_canonical, on_canonical_chain_update).
LEMMA NewHeadCanonical ==
    ASSUME NEW chain \in Chains, NEW head \in Hash, CanonicalChain(chain, head),
           NEW h \in Hash, HasNewHead(chain, head, h)
    PROVE  CanonicalChain(CanonicalChainUpdate(chain, head, h), h)
<1>. DEFINE c == CanonicalChainUpdate(chain, head, h)
<1>0. h # Genesis
  BY DEF HasNewHead
<1>1. c \in Chains /\ c.blocks_by_hash = chain.blocks_by_hash /\ ChainIndexed(c)
  BY MakeCanonicalType, OnChainUpdateIndexed DEF CanonicalChainUpdate, CanonicalChain
<1>2. ChainOf(c.canonical_hashes_by_number, h)
  BY <1>0, NewHeadChain DEF CanonicalChain
<1>3. ASSUME NEW y \in Ancestry[h],
             y \in Ancestry[head] => chain.canonical_hashes_by_number[Number[y]] # None
      PROVE  c.canonical_hashes_by_number[Number[y]] # None
  BY <1>0, <1>3, NewHeadHash DEF CanonicalChain
<1>. HIDE DEF c
<1>4. ASSUME NEW p \in chain.blocks_by_hash, NEW n \in Heights,
             n <= Number[h], Number[p] < n + AncestorWindow
      PROVE  c.canonical_hashes_by_number[n] # None
  <2>1. PICK y \in Ancestry[h] : Number[y] = n
    BY <1>4, NumbersNat, AncestryComplete
  <2>2. ASSUME y \in Ancestry[head] PROVE n <= Number[head]
    BY <2>1, <2>2, AncestryNumber
  <2>3. y \in Ancestry[head] => chain.canonical_hashes_by_number[n] # None
    BY <1>4, <2>2 DEF CanonicalChain, WindowKept
  <2>. QED  BY <1>3, <2>1, <2>3
<1>5. WindowKept(c, h)
  BY <1>1, <1>4 DEF WindowKept
<1>6. CanonicalChain(c, h)
  BY <1>1, <1>2, <1>5 DEF CanonicalChain
<1>. QED  BY <1>6 DEF c

\* make_canonical, whether or not on_new_head finds a new head.
LEMMA MakeCanonical ==
    ASSUME NEW chain \in Chains, NEW head \in Hash, CanonicalChain(chain, head), NEW h \in Hash
    PROVE  CanonicalChain(ChainAfter(chain, head, h), HeadAfter(chain, head, h))
  BY NewHeadCanonical DEF ChainAfter, HeadAfter

\* Forgetting what is below a finalized block on the chain of the head.
LEMMA RemoveCanonical ==
    ASSUME NEW chain \in Chains, NEW head \in Hash, CanonicalChain(chain, head),
           NEW f \in Ancestry[head]
    PROVE  CanonicalChain(RemoveBlocksOnFinalized(chain, f), head)
<1>. DEFINE c == RemoveBlocksOnFinalized(chain, f)
<1>1. CASE f \notin chain.blocks_by_hash
  BY <1>1 DEF RemoveBlocksOnFinalized
<1>2. CASE f \in chain.blocks_by_hash
  <2>1. /\ c.blocks_by_hash = {h \in chain.blocks_by_hash : Number[h] >= Number[f]}
        /\ ChainIndexed(c)
    BY <1>2, RemoveBlocksExact DEF CanonicalChain
  <2>2. ChainOf(c.canonical_hashes_by_number, head)
    BY RemoveBlocksChain DEF CanonicalChain
  <2>3. c.canonical_hashes_by_number =
            [n \in Heights |-> IF n + AncestorWindow < Number[f]
                               THEN None ELSE chain.canonical_hashes_by_number[n]]
    BY <1>2 DEF RemoveBlocksOnFinalized
  <2>. HIDE DEF c
  <2>4. f \in Hash /\ chain.blocks_by_hash \subseteq Hash
    BY AncestryClosed DEF Chains
  <2>5. ASSUME NEW p \in c.blocks_by_hash, NEW n \in Heights,
               n <= Number[head], Number[p] < n + AncestorWindow
        PROVE  c.canonical_hashes_by_number[n] # None
    <3>1. p \in chain.blocks_by_hash /\ Number[p] >= Number[f]
      BY <2>1
    <3>2. ~(n + AncestorWindow < Number[f])
      BY <2>4, <2>5, <3>1, NumbersNat
    <3>3. chain.canonical_hashes_by_number[n] # None
      BY <2>5, <3>1 DEF CanonicalChain, WindowKept
    <3>. QED  BY <2>3, <3>2, <3>3
  <2>6. CanonicalChain(c, head)
    BY <2>1, <2>2, <2>5 DEF CanonicalChain, WindowKept
  <2>. QED  BY <2>6 DEF c
<1>. QED  BY <1>1, <1>2

\* A finalized block that arrives in time becomes the head.
LEMMA FinalizedCanonical ==
    ASSUME NEW chain \in Chains, canonical_head \in Hash, CanonicalChain(chain, canonical_head),
           NEW f \in Hash, InTime(f)
    PROVE  CanonicalChain(ChainInsertBlock(
               InsertCanonicalHashes(chain, {f} \cup FinalizedAncestors(f)), f, FALSE), f)
<1>. DEFINE marked == InsertCanonicalHashes(chain, {f} \cup FinalizedAncestors(f))
            c == ChainInsertBlock(marked, f, FALSE)
            hashes == marked.canonical_hashes_by_number
<1>1. {f} \cup FinalizedAncestors(f) \in SUBSET Hash
  BY AncestryClosed DEF FinalizedAncestors
<1>2. marked \in Chains /\ marked.blocks_by_hash = chain.blocks_by_hash /\ ChainIndexed(marked)
  BY <1>1, OnChainUpdateType, OnChainUpdateIndexed DEF InsertCanonicalHashes, CanonicalChain
<1>3. /\ ChainOf(hashes, f)
      /\ \A n \in Heights : n + AncestorWindow >= Number[f] /\ n <= Number[f] => hashes[n] # None
      /\ \A n \in Heights :
            n <= Number[canonical_head] /\ chain.canonical_hashes_by_number[n] # None
               => hashes[n] # None
  BY FinalizedChain DEF CanonicalChain
<1>. HIDE DEF marked
<1>4. c.blocks_by_hash = chain.blocks_by_hash \cup {f} /\ ChainIndexed(c)
  BY <1>2, ChainInsertBlockType, ChainInsertIndexed
<1>5. c.canonical_hashes_by_number = hashes
  BY <1>2 DEF ChainInsertBlock, Chains
<1>. HIDE DEF c, hashes
<1>6. ASSUME NEW p \in chain.blocks_by_hash \cup {f}, NEW n \in Heights,
             n <= Number[f], Number[p] < n + AncestorWindow
      PROVE  hashes[n] # None
  <2>1. n \in Nat /\ Number[f] \in Nat /\ Number[canonical_head] \in Nat /\ AncestorWindow \in Nat
    BY NumbersNat
  <2>2. CASE n + AncestorWindow >= Number[f]
    BY <1>3, <1>6, <2>2
  <2>3. CASE ~(n + AncestorWindow >= Number[f])
    <3>1. n <= Number[canonical_head] /\ p # f
      BY <1>6, <2>1, <2>3 DEF InTime
    <3>2. chain.canonical_hashes_by_number[n] # None
      BY <1>6, <3>1 DEF CanonicalChain, WindowKept
    <3>. QED  BY <1>3, <3>1, <3>2
  <2>. QED  BY <2>2, <2>3
<1>7. WindowKept(c, f)
  BY <1>4, <1>5, <1>6 DEF WindowKept
<1>8. CanonicalChain(c, f)
  BY <1>3, <1>4, <1>5, <1>7 DEF CanonicalChain
<1>. QED  BY <1>8 DEF c, marked

\* Every step keeps the canonical chain, provided that a finalized block whose
\* download completes in the step is in time.
LEMMA CanonicalStep ==
    ASSUME CanonicalInv, [Next]_vars,
           \A f \in Hash : OnFinalizedBlock(f) => InTime(f)
    PROVE  CanonicalChain(chain_state', canonical_head')
<1>. DEFINE Goal == CanonicalChain(chain_state', canonical_head')
<1>i. /\ TypeOK /\ SoundBuffer(block_buffer) /\ InvalidHeadersSound
      /\ CanonicalChain(chain_state, canonical_head)
  BY DEF CanonicalInv, ValidityInv, BufferInv
<1>t. chain_state \in Chains /\ canonical_head \in Hash
  BY <1>i DEF TypeOK
<1>s. ASSUME NEW h \in Hash, NEW has_proof \in BOOLEAN,
             "Valid" \in InsertResults(chain_state, h, has_proof)
      PROVE  CanonicalChain(ChainInsertBlock(chain_state, h, TRUE), canonical_head)
  BY <1>i, <1>t, <1>s, InsertValid, InsertCanonical
<1>1. CASE UNCHANGED <<chain_state, canonical_head>>
  BY <1>1, <1>i
<1>2. CASE FinishConnecting
  <2>1. caller.hash \in Hash
    BY <1>2, <1>i DEF FinishConnecting, TypeOK, Handlers
  <2>2. \/ /\ chain_state' = ChainAfter(chain_state, canonical_head, caller.hash)
           /\ canonical_head' = HeadAfter(chain_state, canonical_head, caller.hash)
        \/ UNCHANGED <<chain_state, canonical_head>>
    BY <1>2 DEF FinishConnecting
  <2>. QED  BY <1>i, <1>t, <2>1, <2>2, MakeCanonical
<1>3. ASSUME NEW h \in Hash, ConnectValid(h) PROVE Goal
  <2>. DEFINE inserted == ChainInsertBlock(chain_state, h, TRUE)
  <2>1. inserted \in Chains /\ CanonicalChain(inserted, canonical_head)
    BY <1>3, <1>s, <1>t, ChainInsertBlockType DEF ConnectValid
  <2>2. \/ /\ chain_state' = ChainAfter(inserted, canonical_head, h)
           /\ canonical_head' = HeadAfter(inserted, canonical_head, h)
        \/ chain_state' = inserted /\ UNCHANGED canonical_head
    BY <1>3 DEF ConnectValid
  <2>. HIDE DEF inserted
  <2>. QED  BY <1>t, <2>1, <2>2, MakeCanonical
<1>4. ASSUME NEW h \in Hash, ConnectFatal(h) PROVE Goal
  BY <1>1, <1>4 DEF ConnectFatal
<1>5. ASSUME NEW h \in Hash, OnProof(h) \/ OnFullBlock(h) PROVE Goal
  <2>1. UNCHANGED canonical_head
    BY <1>5 DEF OnProof, OnFullBlock
  <2>2. \/ UNCHANGED chain_state
        \/ /\ "Valid" \in InsertResults(chain_state, h, TRUE)
           /\ chain_state' = ChainInsertBlock(chain_state, h, TRUE)
    BY <1>5 DEF OnProof, OnFullBlock, Unlocked, DownloadedInvalidAncestor, DownloadedInserted
  <2>. QED  BY <1>1, <1>s, <2>1, <2>2
<1>6. ASSUME NEW f \in Hash, OnFinalizedBlock(f) PROVE Goal
  <2>1. InTime(f)
    BY <1>6
  <2>2. /\ canonical_head' = f
        /\ chain_state' = ChainInsertBlock(
               InsertCanonicalHashes(chain_state, {f} \cup FinalizedAncestors(f)), f, FALSE)
    BY <1>6 DEF OnFinalizedBlock
  <2>. QED  BY <1>i, <1>t, <2>1, <2>2, FinalizedCanonical
<1>7. ASSUME NEW h \in Hash, NewPayloadValid(h) PROVE Goal
  <2>1. UNCHANGED canonical_head
    BY <1>7 DEF NewPayloadValid, NewPayload
  <2>2. \/ UNCHANGED chain_state
        \/ /\ "Valid" \in InsertResults(chain_state, h, HasProof(h))
           /\ chain_state' = ChainInsertBlock(chain_state, h, TRUE)
    BY <1>7 DEF NewPayloadValid
  <2>3. HasProof(h) \in BOOLEAN
    BY DEF HasProof
  <2>. QED  BY <1>1, <1>s, <2>1, <2>2, <2>3
<1>8. ASSUME NEW fcu \in ForkchoiceStates, FcuNewHead(fcu) PROVE Goal
  <2>. DEFINE h == fcu.head
              f == fcu.finalized
              updated == CanonicalChainUpdate(chain_state, canonical_head, h)
  <2>1. h \in Hash /\ HasNewHead(chain_state, canonical_head, h) /\ canonical_head' = h
    BY <1>8, <1>t DEF FcuNewHead, HasNewHead, Chains
  <2>2. updated \in Chains /\ CanonicalChain(updated, h)
    BY <1>i, <1>t, <2>1, NewHeadCanonical, MakeCanonicalType
  <2>3. \/ chain_state' = updated
        \/ /\ ConsistentForkchoice(updated, fcu)
           /\ chain_state' = RemoveBlocksOnFinalized(updated, f)
    BY <1>8 DEF FcuNewHead
  <2>4. f \in Hash \cup {Zero}
    BY MessagesAssumption
  <2>. HIDE DEF updated
  <2>5. CASE f = Zero
    <3>1. RemoveBlocksOnFinalized(updated, f) = updated
      BY <2>2, <2>5, BlocksAssumption DEF RemoveBlocksOnFinalized, Chains
    <3>. QED  BY <2>1, <2>2, <2>3, <3>1
  <2>6. CASE f # Zero /\ ConsistentForkchoice(updated, fcu)
    <3>1. PICK n \in Heights : updated.canonical_hashes_by_number[n] = f
      BY <2>6 DEF ConsistentForkchoice, IsHashCanonical
    <3>2. f # None
      BY <2>4, <2>6, BlocksAssumption
    <3>3. f \in Ancestry[h]
      BY <2>2, <3>1, <3>2 DEF CanonicalChain, ChainOf
    <3>4. CanonicalChain(RemoveBlocksOnFinalized(updated, f), h)
      BY <2>1, <2>2, <3>3, RemoveCanonical
    <3>. QED  BY <2>1, <2>2, <2>3, <3>4
  <2>. QED  BY <2>1, <2>2, <2>3, <2>5, <2>6
<1>. QED  BY <1>1, <1>2, <1>3, <1>4, <1>5, <1>6, <1>7, <1>8, ChainCases

-----------------------------------------------------------------------------
(* The theorems.                                                           *)

\* Finalized blocks that have to be downloaded arrive while the head is on
\* their chain and not further below than the window of headers reaches.
FinalizedInTime == [][\A f \in Hash : OnFinalizedBlock(f) => InTime(f)]_vars

\* The invariant in every behaviour in which finalized blocks arrive in time.
LEMMA CanonicalInduction == Spec /\ FinalizedInTime => []CanonicalInv
<1>1. Init => CanonicalChain(chain_state, canonical_head)
  BY GenesisCanonical DEF Init, TreeInit, ChainInit
<1>2. ASSUME CanonicalInv, [Next]_vars, [\A f \in Hash : OnFinalizedBlock(f) => InTime(f)]_vars
      PROVE  CanonicalChain(chain_state, canonical_head)'
  <2>1. CASE UNCHANGED vars
    BY <1>2, <2>1 DEF CanonicalInv, vars, treeVars
  <2>2. CASE \A f \in Hash : OnFinalizedBlock(f) => InTime(f)
    BY <1>2, <2>2, CanonicalStep
  <2>. QED  BY <1>2, <2>1, <2>2
<1>. QED  BY <1>1, <1>2, ValidityInduction, PTL DEF Spec, FinalizedInTime, CanonicalInv

\* Whatever commits, reorganisations, rewinds and finalizations there are, and
\* whatever the client sends, the canonical hashes are the hashes of the chain
\* of the head, without a gap, unless a finalized block arrives too late
\* (on_new_head, on_chain_update, remove_blocks_on_finalized).
THEOREM CanonicalHashesStaySound == Spec /\ FinalizedInTime => []CanonicalSound
<1>1. CanonicalInv => CanonicalSound
  BY DEF CanonicalInv, CanonicalChain, ChainOf, CanonicalSound
<1>. QED  BY <1>1, CanonicalInduction, PTL

\* On top of every stored block, of every fork, block_hash finds hashes of the
\* chain of that block only, and all of its window when the block is connected
\* to the canonical chain, also after finalization has removed the blocks.
THEOREM BlockHashStaysExact == Spec /\ FinalizedInTime => []BlockHashExact
<1>1. ASSUME CanonicalInv PROVE BlockHashExact
  <2>. DEFINE V == chain_state.blocks_by_hash
              canonical == chain_state.canonical_hashes_by_number
              head == canonical_head
  <2>i. /\ ChainOf(canonical, head) /\ WindowKept(chain_state, head)
        /\ chain_state \in Chains /\ V \subseteq Hash /\ head \in Hash
    BY <1>1 DEF CanonicalInv, CanonicalChain, ValidityInv, TypeOK, Chains
  <2>. SUFFICES ASSUME NEW p \in V, NEW n \in Heights
                PROVE  LET found == BlockHash(chain_state, p, n)
                       IN  /\ found \subseteq {a \in Ancestry[p] : Number[a] = n}
                           /\ /\ \E a \in ExecutedLine(chain_state, p) : IsHashCanonical(chain_state, a)
                              /\ n <= Number[p]
                              /\ Number[p] < n + AncestorWindow
                              => found # {}
    BY DEF BlockHashExact
  <2>. DEFINE found == BlockHash(chain_state, p, n)
              executed == {a \in ExecutedLine(chain_state, p) : Number[a] = n}
              ends == {x \in WalkEnd(chain_state, p) : n <= Number[x] /\ canonical[Number[x]] = x}
  <2>p. p \in Hash /\ Ancestry[p] \subseteq Hash
    BY <2>i, AncestryClosed
  <2>f. found = IF executed # {} THEN executed ELSE {canonical[n] : a \in ends} \ {None}
    BY DEF BlockHash
  <2>e. executed \subseteq {a \in Ancestry[p] : Number[a] = n}
    BY DEF ExecutedLine
  <2>c. ASSUME NEW m \in Heights, canonical[m] # None
        PROVE  canonical[m] \in Ancestry[head] /\ Number[canonical[m]] = m
    BY <2>i, <2>c DEF ChainOf
  <2>1. ASSUME NEW x \in ends, canonical[n] # None
        PROVE  canonical[n] \in Ancestry[p] /\ Number[canonical[n]] = n
    <3>1. x \in Ancestry[p] /\ x \in Hash /\ n <= Number[x] /\ canonical[Number[x]] = x
      BY <2>p DEF WalkEnd
    <3>2. x # None /\ Number[x] \in Heights
      BY <3>1, BlocksAssumption, NumbersNat
    <3>3. x \in Ancestry[head]
      BY <2>c, <3>1, <3>2
    <3>4. canonical[n] \in Ancestry[head] /\ Number[canonical[n]] = n
      BY <2>1, <2>c
    <3>5. canonical[n] \in Ancestry[x]
      BY <2>i, <3>1, <3>3, <3>4, AncestryLower
    <3>6. Ancestry[x] \subseteq Ancestry[p]
      BY <2>p, <3>1, AncestryTransitive
    <3>. QED  BY <3>4, <3>5, <3>6
  <2>2. found \subseteq {a \in Ancestry[p] : Number[a] = n}
    BY <2>1, <2>e, <2>f
  <2>3. ASSUME NEW a \in ExecutedLine(chain_state, p), IsHashCanonical(chain_state, a),
               n <= Number[p], Number[p] < n + AncestorWindow, executed = {}
        PROVE  canonical[n] # None /\ ends # {}
    <3>1. a \in Ancestry[p] /\ LineAbove(p, Number[a]) \cup {a} \subseteq V
      BY DEF ExecutedLine
    <3>2. a \in Ancestry[head]
      <4>1. PICK k \in Heights : canonical[k] = a
        BY <2>3 DEF IsHashCanonical
      <4>2. a # None
        BY <2>p, <3>1, BlocksAssumption
      <4>. QED  BY <2>c, <4>1, <4>2
    <3>3. PICK y \in Ancestry[p] : Number[y] = n
      BY <2>3, <2>p, NumbersNat, AncestryComplete
    <3>. DEFINE missing == {x \in Ancestry[p] : x \notin V /\ n <= Number[x]}
    <3>4. missing # {}
      <4>1. ~(LineAbove(p, n) \cup {y} \subseteq V)
        BY <2>3, <3>3 DEF ExecutedLine
      <4>2. \A x \in LineAbove(p, n) \cup {y} : x \in Ancestry[p] /\ n <= Number[x]
        <5>1. n \in Nat /\ \A x \in Ancestry[p] : Number[x] \in Nat
          BY <2>p, NumbersNat
        <5>2. ASSUME NEW x \in LineAbove(p, n) PROVE x \in Ancestry[p] /\ n <= Number[x]
          BY <5>1 DEF LineAbove
        <5>3. y \in Ancestry[p] /\ n <= Number[y]
          BY <3>3, <5>1
        <5>. QED  BY <5>2, <5>3
      <4>. QED  BY <4>1, <4>2
    <3>5. PICK x \in missing : \A z \in missing : Number[z] <= Number[x]
      BY <2>p, <3>4, HighestOnWalk
    <3>6. x \in Ancestry[p] /\ x \in Hash /\ x \notin V /\ n <= Number[x] /\ Number[x] \in Nat
      BY <2>p, NumbersNat
    <3>7. LineAbove(p, Number[x]) \subseteq V
      <4>. SUFFICES ASSUME NEW z \in Ancestry[p], Number[z] > Number[x], z \notin V PROVE FALSE
        BY DEF LineAbove
      <4>1. n \in Nat /\ Number[z] \in Nat
        BY <2>p, NumbersNat
      <4>2. z \in missing
        BY <3>6, <4>1
      <4>. QED  BY <3>5, <3>6, <4>1, <4>2
    <3>8. x \in WalkEnd(chain_state, p)
      BY <3>6, <3>7 DEF WalkEnd
    <3>9. Number[x] < Number[a]
      <4>1. Number[a] \in Nat
        BY <2>p, <3>1, NumbersNat
      <4>2. x # a /\ ~(Number[x] > Number[a])
        BY <3>1, <3>6 DEF LineAbove
      <4>3. Number[x] # Number[a]
        BY <2>p, <3>1, <3>6, <4>2, AncestryLinear
      <4>. QED  BY <3>6, <4>1, <4>2, <4>3
    <3>10. x \in Ancestry[head] /\ Number[x] <= Number[head]
      <4>1. Number[a] \in Nat /\ a \in Hash
        BY <2>p, <3>1, NumbersNat
      <4>2. x \in Ancestry[a]
        BY <2>p, <3>1, <3>6, <3>9, <4>1, AncestryLower
      <4>3. x \in Ancestry[head]
        BY <2>i, <3>2, <4>2, AncestryTransitive
      <4>. QED  BY <2>i, <4>3, AncestryNumber
    <3>11. ASSUME NEW m \in Heights, n <= m, m <= Number[x] PROVE canonical[m] # None
      <4>1. n \in Nat /\ m \in Nat /\ Number[p] \in Nat /\ Number[head] \in Nat /\ AncestorWindow \in Nat
        BY <2>i, <2>p, NumbersNat
      <4>2. m <= Number[head] /\ Number[p] < m + AncestorWindow
        BY <2>3, <3>6, <3>10, <3>11, <4>1
      <4>. QED  BY <2>i, <4>2 DEF WindowKept
    <3>12. Number[x] \in Heights /\ n \in Nat
      BY <3>6, NumbersNat
    <3>13. canonical[n] # None /\ canonical[Number[x]] # None
      BY <3>6, <3>11, <3>12
    <3>14. canonical[Number[x]] = x
      <4>1. canonical[Number[x]] \in Ancestry[head] /\ Number[canonical[Number[x]]] = Number[x]
        BY <2>c, <3>12, <3>13
      <4>. HIDE DEF canonical, head
      <4>. QED  BY <2>i, <3>10, <4>1, AncestryLinear
    <3>. QED  BY <3>6, <3>8, <3>13, <3>14
  <2>4. ASSUME \E a \in ExecutedLine(chain_state, p) : IsHashCanonical(chain_state, a),
               n <= Number[p], Number[p] < n + AncestorWindow
        PROVE  found # {}
    <3>1. CASE executed # {}
      BY <2>f, <3>1
    <3>2. CASE executed = {}
      <4>1. canonical[n] # None /\ ends # {}
        BY <2>3, <2>4, <3>2
      <4>. QED  BY <2>f, <3>2, <4>1
    <3>. QED  BY <3>1, <3>2
  <2>. QED  BY <2>2, <2>4
<1>. QED  BY <1>1, CanonicalInduction, PTL

-----------------------------------------------------------------------------
(* The sync target.                                                        *)

\* A set of stored blocks has no gap: between a stored block and a stored
\* ancestor of it every block is stored.
NoGaps(stored) ==
    \A h \in stored : \A a \in Ancestry[h] \cap stored : \A x \in Ancestry[h] :
        Number[a] <= Number[x] => x \in stored

\* A stored sync target is the head, or the handler that stored it is still
\* connecting its buffered descendants and makes it the head at the end.
TargetTaken ==
    sync_target \in chain_state.blocks_by_hash =>
        /\ sync_target # Genesis
        /\ canonical_head = sync_target \/ (caller # None /\ caller.hash = sync_target)

TargetInv == ApiInv /\ NoGaps(chain_state.blocks_by_hash) /\ TargetTaken

\* Finalization has not cut the branch of a stored sync target off from the
\* chain of the head: some stored block is on both.
TargetAttached ==
    sync_target \in chain_state.blocks_by_hash =>
        Ancestry[sync_target] \cap Ancestry[canonical_head] \cap chain_state.blocks_by_hash # {}

\* What makes the engine leave a sync target that is stored: a finalized block
\* that is downloaded becomes the head, and leaves a gap below it when its
\* parent is not stored; a fatal error, while the descendants of the target
\* are connected, ends the handler before make_canonical; and an update whose
\* safe or finalized block is not canonical moves the head but not the target.
KeepsTarget ==
    /\ \A f \in Hash : OnFinalizedBlock(f) =>
          /\ Parent[f] \in chain_state.blocks_by_hash
          /\ sync_target \notin chain_state.blocks_by_hash \ {f}
    /\ \A h \in Hash : ConnectFatal(h) => sync_target # caller.hash
    /\ \A fcu \in ForkchoiceStates : FcuNewHead(fcu) /\ response'.status = "INVALID_STATE" =>
          sync_target \notin chain_state.blocks_by_hash

TargetUndisturbed == [][KeepsTarget]_vars

\* A block on a stored parent leaves no gap.
LEMMA ChildLeavesNoGap ==
    ASSUME NEW stored \in SUBSET Hash, NoGaps(stored), NEW h \in Hash, Parent[h] \in stored
    PROVE  NoGaps(stored \cup {h})
<1>. DEFINE p == Parent[h]
<1>0. p \in Hash /\ p \in stored /\ Ancestry[h] = {h} \cup Ancestry[p] /\ p \in Ancestry[p]
  BY AncestryStep, AncestryClosed
<1>1. h # Genesis /\ Number[h] = Number[p] + 1 /\ Number[p] \in Nat /\ Number[h] \in Nat
  BY <1>0, BlocksAssumption
<1>2. ASSUME NEW g \in stored \cup {h}, NEW a \in Ancestry[g] \cap (stored \cup {h}),
             NEW x \in Ancestry[g], Number[a] <= Number[x]
      PROVE  x \in stored \cup {h}
  <2>0. g \in Hash /\ a \in Hash /\ x \in Hash /\ Number[a] \in Nat /\ Number[x] \in Nat
    BY AncestryTransitive, BlocksAssumption
  <2>1. CASE x = h
    BY <2>1
  <2>2. CASE g = h /\ x # h
    <3>1. x \in Ancestry[p]
      BY <1>0, <2>2
    <3>2. Number[x] <= Number[p] /\ a # h
      BY <1>0, <1>1, <1>2, <2>0, <3>1, AncestryNumber
    <3>3. a \in Ancestry[p] \cap stored
      BY <1>0, <2>2, <3>2
    <3>. QED  BY <1>0, <1>2, <3>1, <3>3 DEF NoGaps
  <2>3. CASE g \in stored /\ a \in stored
    BY <1>2, <2>3 DEF NoGaps
  <2>4. CASE g \in stored /\ a = h
    <3>1. p \in Ancestry[g] \cap stored
      BY <1>0, <2>0, <2>4, AncestryTransitive
    <3>2. Number[p] <= Number[x]
      BY <1>1, <1>2, <2>0, <2>4
    <3>. QED  BY <2>4, <3>1, <3>2 DEF NoGaps
  <2>. QED  BY <2>1, <2>2, <2>3, <2>4
<1>. QED  BY <1>2 DEF NoGaps

\* Nor does it leave one to drop the blocks below a number.
LEMMA PruningLeavesNoGap ==
    ASSUME NEW stored \in SUBSET Hash, NoGaps(stored), NEW n \in Nat
    PROVE  NoGaps({h \in stored : Number[h] >= n})
<1>. DEFINE kept == {h \in stored : Number[h] >= n}
<1>1. ASSUME NEW h \in kept, NEW a \in Ancestry[h] \cap kept, NEW x \in Ancestry[h],
             Number[a] <= Number[x]
      PROVE  x \in kept
  <2>1. x \in stored
    BY <1>1 DEF NoGaps
  <2>2. Number[a] >= n /\ Number[a] \in Nat /\ Number[x] \in Nat
    BY <2>1, BlocksAssumption
  <2>. QED  BY <1>1, <2>1, <2>2
<1>. HIDE DEF kept
<1>2. NoGaps(kept)
  BY <1>1 DEF NoGaps
<1>. QED  BY <1>2 DEF kept

\* Two stored blocks with a stored common ancestor are connected.
LEMMA AttachedConnected ==
    ASSUME NEW stored \in SUBSET Hash, NoGaps(stored), NEW h \in stored, NEW k \in stored,
           Ancestry[h] \cap Ancestry[k] \cap stored # {}
    PROVE  Ancestry[h] \ Ancestry[k] \subseteq stored
<1>1. PICK a \in stored : a \in Ancestry[h] /\ a \in Ancestry[k]
  OBVIOUS
<1>2. ASSUME NEW x \in Ancestry[h], x \notin Ancestry[k] PROVE x \in stored
  <2>0. Number[a] \in Nat /\ Number[x] \in Nat /\ h \in Hash /\ k \in Hash /\ a \in Hash
    BY <1>1, AncestryTransitive, BlocksAssumption
  <2>1. CASE Number[a] <= Number[x]
    BY <1>1, <2>1 DEF NoGaps
  <2>2. CASE Number[x] <= Number[a]
    <3>1. x \in Ancestry[a]
      BY <1>1, <2>0, <2>2, AncestryLower
    <3>2. x \in Ancestry[k]
      BY <1>1, <2>0, <3>1, AncestryTransitive
    <3>. QED  BY <1>2, <3>2
  <2>. QED  BY <2>0, <2>1, <2>2
<1>. QED  BY <1>2

\* on_new_head finds every stored block that is attached to the head.
LEMMA AttachedNewHead ==
    ASSUME NEW chain, chain.blocks_by_hash \in SUBSET Hash, NoGaps(chain.blocks_by_hash),
           NEW head \in chain.blocks_by_hash, NEW h \in chain.blocks_by_hash \ {Genesis},
           Ancestry[h] \cap Ancestry[head] \cap chain.blocks_by_hash # {}
    PROVE  HasNewHead(chain, head, h)
<1>1. /\ Ancestry[h] \ Ancestry[head] \subseteq chain.blocks_by_hash
      /\ Ancestry[head] \ Ancestry[h] \subseteq chain.blocks_by_hash
  BY AttachedConnected
<1>2. h \in Hash /\ Parent[h] \in Hash
  BY BlocksAssumption
<1>3. Ancestry[h] = {h} \cup Ancestry[Parent[h]]
  BY <1>2, AncestryStep
<1>. QED  BY <1>1, <1>3 DEF HasNewHead, NewBranch, OldBranch

\* No step takes a stored block as a new sync target.
LEMMA TargetCases ==
    ASSUME TypeOK, [Next]_vars
    PROVE  sync_target' \in {sync_target, None} \/ sync_target' \notin chain_state.blocks_by_hash
<1>1. CASE \E fcu \in ForkchoiceStates : FcuSyncing(fcu)
  BY <1>1 DEF FcuSyncing, AnswerForkchoice, TrackForkchoice
<1>2. CASE \E fcu \in ForkchoiceStates :
              FcuRefused(fcu) \/ FcuSameHead(fcu) \/ FcuNewHead(fcu) \/ FcuKnownHead(fcu)
  BY <1>2 DEF FcuRefused, FcuSameHead, FcuNewHead, FcuKnownHead, AnswerForkchoice,
              TrackForkchoice, AppliedStatus
<1>3. CASE UNCHANGED sync_target
  BY <1>3
<1>. QED
  BY <1>1, <1>2, <1>3
  DEF Next, EngineStep, ClientMessage, vars, treeVars, NextToConnect, ConnectValid,
      ConnectDisconnected, ConnectInvalid, ConnectFatal, FinishConnecting, OnProof, OnFullBlock,
      OnFinalizedBlock, OnUnrecoverableFullBlock, OnUnrecoverableFinalizedBlock, PollDownloader,
      ParkedTimeout, ForgetInvalidHeader, NewPayloadMalformed, NewPayloadInvalidAncestor,
      NewPayloadValid, NewPayloadDisconnected, NewPayloadNoProof, NewPayloadInvalid,
      NewPayloadFatal, NewPayload

\* A step that stores at most one block, on a stored parent, and leaves the
\* head alone keeps the invariant when it starts the handler of that block.
LEMMA TargetStored ==
    ASSUME TypeOK, NoGaps(chain_state.blocks_by_hash), TargetTaken, [Next]_vars,
           UNCHANGED canonical_head, NEW h \in Hash,
           caller' # None, caller'.hash = h, caller = None,
           \/ UNCHANGED chain_state.blocks_by_hash
           \/ /\ Parent[h] \in chain_state.blocks_by_hash
              /\ chain_state'.blocks_by_hash = chain_state.blocks_by_hash \cup {h}
    PROVE  NoGaps(chain_state.blocks_by_hash)' /\ TargetTaken'
<1>. DEFINE V == chain_state.blocks_by_hash
            W == chain_state'.blocks_by_hash
<1>1. V \in SUBSET Hash /\ None \notin Hash /\ sync_target \in Hash \cup {None}
  BY BlocksAssumption DEF TypeOK, Chains
<1>2. NoGaps(W)
  BY <1>1, ChildLeavesNoGap
<1>3. ASSUME sync_target' \in W
      PROVE  /\ sync_target' # Genesis
             /\ canonical_head' = sync_target' \/ (caller' # None /\ caller'.hash = sync_target')
  <2>1. CASE sync_target' \in V
    <3>1. sync_target' = sync_target
      BY <1>1, <2>1, TargetCases
    <3>. QED  BY <2>1, <3>1 DEF TargetTaken
  <2>2. CASE sync_target' \notin V
    <3>1. sync_target' = h /\ Parent[h] \in Hash
      BY <1>1, <1>3, <2>2
    <3>. QED  BY <3>1, BlocksAssumption
  <2>. QED  BY <2>1, <2>2
<1>. HIDE DEF V, W
<1>. QED  BY <1>2, <1>3 DEF NoGaps, TargetTaken, V, W

\* Every step keeps the invariant.
LEMMA TargetStep ==
    ASSUME TargetInv, TargetAttached, TargetAttached', [Next]_vars, ApiInv', KeepsTarget
    PROVE  NoGaps(chain_state.blocks_by_hash)' /\ TargetTaken'
<1>. DEFINE V == chain_state.blocks_by_hash
            W == chain_state'.blocks_by_hash
            Goal == NoGaps(chain_state.blocks_by_hash)' /\ TargetTaken'
<1>i. /\ TypeOK /\ SoundBuffer(block_buffer) /\ InvalidHeadersSound /\ ChainIndexed(chain_state)
      /\ HeadStored /\ CallerStored /\ NoGaps(V) /\ TargetTaken
  BY DEF TargetInv, ApiInv, ValidityInv, BufferInv
<1>t. /\ V \in SUBSET Hash /\ W \in SUBSET Hash /\ None \notin Hash
      /\ sync_target \in Hash \cup {None}
  BY BlocksAssumption DEF TargetInv, ApiInv, ValidityInv, TypeOK, Chains
<1>1. CASE UNCHANGED <<chain_state, canonical_head, caller>>
  <2>1. NoGaps(chain_state.blocks_by_hash)'
    BY <1>1, <1>i DEF NoGaps
  <2>2. sync_target' \in V => sync_target' = sync_target
    BY <1>i, <1>t, TargetCases
  <2>. QED  BY <1>1, <1>i, <2>1, <2>2 DEF TargetTaken
<1>2. CASE FinishConnecting
  <2>1. caller' = None /\ caller # None /\ UNCHANGED sync_target
    BY <1>2 DEF FinishConnecting
  <2>2. W = V
    BY <1>2, <1>i, FinishEffect
  <2>3. NoGaps(chain_state.blocks_by_hash)'
    BY <1>i, <2>2 DEF NoGaps
  <2>4. ASSUME sync_target \in V PROVE sync_target # Genesis /\ canonical_head' = sync_target
    <3>0. sync_target # Genesis
      BY <1>i, <2>4 DEF TargetTaken
    <3>1. CASE caller.hash = sync_target
      <4>1. HasNewHead(chain_state, canonical_head, sync_target)
        BY <1>i, <1>t, <2>4, <3>0, AttachedNewHead DEF TargetAttached, HeadStored
      <4>. QED  BY <1>2, <3>0, <3>1, <4>1 DEF FinishConnecting, HeadAfter
    <3>2. CASE caller.hash # sync_target
      <4>1. UNCHANGED canonical_head
        BY <1>2, <3>2 DEF FinishConnecting
      <4>. QED  BY <1>i, <2>4, <3>0, <3>2, <4>1 DEF TargetTaken
    <3>. QED  BY <3>1, <3>2
  <2>. QED  BY <2>1, <2>2, <2>3, <2>4 DEF TargetTaken
<1>3. ASSUME NEW h \in Hash, ConnectValid(h) PROVE Goal
  <2>. DEFINE inserted == ChainInsertBlock(chain_state, h, TRUE)
  <2>1. /\ "Valid" \in InsertResults(chain_state, h, TRUE)
        /\ caller # None /\ UNCHANGED <<caller, sync_target>>
    BY <1>3 DEF ConnectValid, NextToConnect
  <2>2. h \notin V /\ Parent[h] \in V /\ h # Genesis
    BY <1>t, <2>1, InsertValid, BlocksAssumption
  <2>3. W = V \cup {h} /\ (sync_target # h => UNCHANGED canonical_head)
    BY <1>3, <1>i, ConnectEffect
  <2>4. NoGaps(W)
    BY <1>i, <1>t, <2>2, <2>3, ChildLeavesNoGap
  <2>5. CASE sync_target = h
    <3>1. inserted.blocks_by_hash = W
      BY <1>i, <2>3, ChainInsertBlockType DEF TypeOK
    <3>2. canonical_head' = HeadAfter(inserted, canonical_head, h)
      BY <1>3, <2>5 DEF ConnectValid
    <3>. HIDE DEF inserted
    <3>3. CASE canonical_head' = h
      BY <2>1, <2>2, <2>4, <2>5, <3>3 DEF TargetTaken, NoGaps
    <3>4. CASE canonical_head' # h
      <4>1. canonical_head' = canonical_head /\ ~HasNewHead(inserted, canonical_head, h)
        BY <3>2, <3>4 DEF HeadAfter
      <4>2. Ancestry[h] \cap Ancestry[canonical_head] \cap W # {}
        BY <2>1, <2>3, <2>5, <4>1 DEF TargetAttached
      <4>3. canonical_head \in W /\ h \in W \ {Genesis}
        BY <1>i, <2>2, <2>3 DEF HeadStored
      <4>4. HasNewHead(inserted, canonical_head, h)
        BY <1>t, <2>4, <3>1, <4>2, <4>3, AttachedNewHead
      <4>. QED  BY <4>1, <4>4
    <3>. QED  BY <3>3, <3>4
  <2>6. CASE sync_target # h
    BY <1>i, <2>1, <2>3, <2>4, <2>6 DEF TargetTaken, NoGaps
  <2>. QED  BY <2>5, <2>6
<1>4. ASSUME NEW h \in Hash, ConnectFatal(h) PROVE Goal
  <2>1. UNCHANGED <<chain_state, canonical_head, sync_target>> /\ sync_target # caller.hash
    BY <1>4 DEF ConnectFatal, NextToConnect, KeepsTarget
  <2>. QED  BY <1>i, <2>1 DEF TargetTaken, NoGaps
<1>5. ASSUME NEW h \in Hash, OnProof(h) \/ OnFullBlock(h) PROVE Goal
  <2>1. UNCHANGED canonical_head /\ caller = None
    BY <1>5 DEF OnProof, OnFullBlock, NextOutcome, Awake
  <2>2. PICK buf : SoundBuffer(buf) /\ Unlocked(h, buf)
    BY <1>5, <1>i, DownloadCases
  <2>3. \/ /\ "Valid" \in InsertResults(chain_state, h, TRUE)
           /\ W = V \cup {h}
           /\ caller' = [message |-> "download", hash |-> h, has_proof |-> TRUE]
        \/ UNCHANGED <<chain_state, caller>>
    BY <1>i, <2>2, UnlockedEffect, Zenon
  <2>4. CASE UNCHANGED <<chain_state, caller>>
    BY <1>1, <2>1, <2>4
  <2>5. CASE /\ "Valid" \in InsertResults(chain_state, h, TRUE)
             /\ W = V \cup {h}
             /\ caller' = [message |-> "download", hash |-> h, has_proof |-> TRUE]
    <3>1. caller' \in Handlers /\ caller'.hash = h
      BY <2>5 DEF Handlers
    <3>2. Parent[h] \in V
      BY <2>5, InsertValid
    <3>. QED  BY <1>i, <2>1, <2>5, <3>1, <3>2, NoneAssumption, TargetStored
  <2>. QED  BY <2>3, <2>4, <2>5
<1>6. ASSUME NEW f \in Hash, OnFinalizedBlock(f) PROVE Goal
  <2>1. canonical_head' = f /\ UNCHANGED sync_target
    BY <1>6 DEF OnFinalizedBlock
  <2>2. W = V \cup {f} /\ Parent[f] \in V /\ sync_target \notin V \ {f}
    BY <1>6, <1>i, FinalizedEffect DEF KeepsTarget
  <2>3. NoGaps(W) /\ f # Genesis
    BY <1>i, <1>t, <2>2, ChildLeavesNoGap, BlocksAssumption
  <2>. QED  BY <2>1, <2>2, <2>3 DEF TargetTaken, NoGaps
<1>7. ASSUME NEW h \in Hash, NewPayloadValid(h) PROVE Goal
  <2>1. /\ UNCHANGED canonical_head /\ caller = None
        /\ caller' = [message |-> "payload", hash |-> h, has_proof |-> HasProof(h)]
    BY <1>7 DEF NewPayloadValid, NewPayload, StartConnecting, NextMessage, Awake
  <2>2. HasProof(h) \in BOOLEAN
    BY DEF HasProof
  <2>3. caller' \in Handlers /\ caller'.hash = h
    BY <2>1, <2>2 DEF Handlers
  <2>4. W = V \/ (Parent[h] \in V /\ W = V \cup {h})
    BY <1>7, <1>i, <2>2, PayloadEffect, InsertValid
  <2>. QED  BY <1>i, <2>1, <2>3, <2>4, NoneAssumption, TargetStored
<1>8. ASSUME NEW fcu \in ForkchoiceStates, FcuNewHead(fcu) PROVE Goal
  <2>1. /\ W = V \/ /\ fcu.finalized \in V
                    /\ W = {h \in V : Number[h] >= Number[fcu.finalized]}
        /\ AnswerForkchoice(fcu, "INVALID_STATE") \/ AnswerForkchoice(fcu, AppliedStatus(fcu))
    BY <1>8, <1>i, NewHeadEffect
  <2>2. NoGaps(W)
    <3>1. CASE W = V
      BY <1>i, <3>1
    <3>2. CASE fcu.finalized \in V /\ W = {h \in V : Number[h] >= Number[fcu.finalized]}
      BY <1>i, <1>t, <3>2, PruningLeavesNoGap, BlocksAssumption
    <3>. QED  BY <2>1, <3>1, <3>2
  <2>3. W \subseteq V
    BY <2>1
  <2>4. sync_target' \notin V
    <3>1. CASE AnswerForkchoice(fcu, "INVALID_STATE")
      <4>1. response'.status = "INVALID_STATE" /\ UNCHANGED sync_target
        BY <3>1 DEF AnswerForkchoice, TrackForkchoice, Answer
      <4>. QED  BY <1>8, <4>1 DEF KeepsTarget
    <3>2. CASE AnswerForkchoice(fcu, AppliedStatus(fcu))
      BY <1>t, <3>2 DEF AnswerForkchoice, TrackForkchoice, AppliedStatus
    <3>. QED  BY <2>1, <3>1, <3>2
  <2>. QED  BY <2>2, <2>3, <2>4 DEF TargetTaken, NoGaps
<1>. QED  BY <1>1, <1>2, <1>3, <1>4, <1>5, <1>6, <1>7, <1>8, ChainCases

\* The sync target becomes the head with the handler that stores it, whether
\* it comes as a payload, is downloaded, or waited in the buffer for an
\* ancestor; and it stays the head until the client moves on (insert_block,
\* try_connect_buffered_blocks, make_canonical, on_forkchoice_updated).
THEOREM StoredTargetIsHead ==
    ASSUME ConsistentClient
    PROVE  Spec /\ []TargetAttached /\ TargetUndisturbed => []SyncTargetBecomesHead
<1>1. Init /\ ApiInv => TargetInv
  <2>. SUFFICES ASSUME Init, ApiInv PROVE TargetInv
    OBVIOUS
  <2>1. sync_target = None /\ chain_state = GenesisChain
    BY DEF Init, TreeInit, ChainInit
  <2>2. chain_state.blocks_by_hash = {Genesis}
    BY <2>1, GenesisChainType
  <2>3. Ancestry[Genesis] = {Genesis}
    BY AncestryStep, BlocksAssumption
  <2>. QED  BY <2>1, <2>2, <2>3, BlocksAssumption DEF TargetInv, TargetTaken, NoGaps
<1>2. ASSUME TargetInv, TargetAttached, TargetAttached', ApiInv', [Next]_vars, [KeepsTarget]_vars
      PROVE  TargetInv'
  <2>1. CASE UNCHANGED vars
    BY <1>2, <2>1 DEF TargetInv, TargetTaken, NoGaps, vars, treeVars, engineVars
  <2>2. CASE KeepsTarget
    BY <1>2, <2>2, TargetStep DEF TargetInv
  <2>. QED  BY <1>2, <2>1, <2>2
<1>3. TargetInv => SyncTargetBecomesHead
  BY DEF TargetInv, TargetTaken, SyncTargetBecomesHead, Settled, Awake
<1>. QED  BY <1>1, <1>2, <1>3, ApiInduction, PTL DEF Spec, TargetUndisturbed

-----------------------------------------------------------------------------
(* on_new_head.                                                            *)

\* A chain of blocks in falling order, down to the block above next.
Falls(chain, next) ==
    \A i \in DOMAIN chain : Parent[chain[i]] = IF i < Len(chain) THEN chain[i + 1] ELSE next

\* Pushing the next block of the walk.
LEMMA FallsAppend ==
    ASSUME NEW chain \in Seq(Hash), NEW next \in Hash, Falls(chain, next)
    PROVE  /\ Append(chain, next) \in Seq(Hash)
           /\ Falls(Append(chain, next), Parent[next])
           /\ ToSet(Append(chain, next)) = ToSet(chain) \cup {next}
           /\ Append(chain, next) # <<>>
<1>. DEFINE c == Append(chain, next)
            n == Len(chain)
<1>1. /\ c \in Seq(Hash) /\ n \in Nat /\ Len(c) = n + 1 /\ DOMAIN c = 1..(n + 1)
      /\ DOMAIN chain = 1..n
      /\ \A i \in 1..n : c[i] = chain[i]
      /\ c[n + 1] = next
  OBVIOUS
<1>. HIDE DEF c, n
<1>2. Falls(c, Parent[next])
  <2>. SUFFICES ASSUME NEW i \in 1..(n + 1)
                PROVE  Parent[c[i]] = IF i < n + 1 THEN c[i + 1] ELSE Parent[next]
    BY <1>1 DEF Falls
  <2>1. CASE i = n + 1
    BY <1>1, <2>1
  <2>2. CASE i = n
    BY <1>1, <2>2 DEF Falls, n
  <2>3. CASE i < n
    <3>1. i \in 1..n /\ i + 1 \in 1..n
      BY <1>1, <2>3
    <3>2. Parent[chain[i]] = chain[i + 1]
      BY <1>1, <2>3, <3>1 DEF Falls, n
    <3>. QED  BY <1>1, <2>3, <3>1, <3>2
  <2>. QED  BY <1>1, <2>1, <2>2, <2>3
<1>3. ToSet(c) = ToSet(chain) \cup {next}
  <2>1. ASSUME NEW x \in ToSet(c) PROVE x \in ToSet(chain) \cup {next}
    BY <1>1 DEF ToSet
  <2>2. ASSUME NEW x \in ToSet(chain) PROVE x \in ToSet(c)
    <3>1. PICK i \in 1..n : x = chain[i]
      BY <1>1 DEF ToSet
    <3>2. i \in DOMAIN c /\ c[i] = x
      BY <1>1, <3>1
    <3>. QED  BY <3>2 DEF ToSet
  <2>3. next \in ToSet(c)
    <3>1. n + 1 \in DOMAIN c
      BY <1>1
    <3>. QED  BY <1>1, <3>1 DEF ToSet
  <2>. QED  BY <2>1, <2>2, <2>3
<1>4. c # <<>>
  <2>1. 1 \in DOMAIN c
    BY <1>1
  <2>. QED  BY <2>1
<1>. QED  BY <1>1, <1>2, <1>3, <1>4 DEF c

\* Reversing a falling chain.
LEMMA FallsReverse ==
    ASSUME NEW chain \in Seq(Hash), NEW next, Falls(chain, next)
    PROVE  Rising(Reverse(chain)) /\ ToSet(Reverse(chain)) = ToSet(chain)
<1>. DEFINE c == Reverse(chain)
            n == Len(chain)
<1>1. /\ n \in Nat /\ DOMAIN chain = 1..n
      /\ c \in Seq(Hash) /\ Len(c) = n /\ DOMAIN c = 1..n
      /\ \A i \in 1..n : c[i] = chain[(n - i) + 1]
  BY DEF Reverse
<1>. HIDE DEF c, n
<1>2. Rising(c)
  <2>. SUFFICES ASSUME NEW i \in 1..(n - 1) PROVE Parent[c[i + 1]] = c[i]
    BY <1>1 DEF Rising
  <2>1. i \in 1..n /\ i + 1 \in 1..n /\ n - i \in 1..n /\ n - i < n /\ (n - (i + 1)) + 1 = n - i
    BY <1>1
  <2>2. c[i + 1] = chain[n - i] /\ c[i] = chain[(n - i) + 1]
    BY <1>1, <2>1
  <2>3. Parent[chain[n - i]] = chain[(n - i) + 1]
    BY <1>1, <2>1 DEF Falls, n
  <2>. QED  BY <2>2, <2>3
<1>3. ToSet(c) = ToSet(chain)
  <2>1. \A i \in 1..n : (n - i) + 1 \in 1..n /\ (n - ((n - i) + 1)) + 1 = i
    BY <1>1
  <2>2. \A i \in 1..n : chain[i] = c[(n - i) + 1]
    BY <1>1, <2>1
  <2>. QED  BY <1>1, <2>1, <2>2, SMTT(30) DEF ToSet
<1>. QED  BY <1>2, <1>3 DEF c

-----------------------------------------------------------------------------
\* While the loops run: the two chains are what has been walked, all of it is
\* stored, and none of it is on the other chain.
OldWalked ==
    /\ old_hash \in Ancestry[canonical_head]
    /\ old_chain \in Seq(Hash)
    /\ Falls(old_chain, old_hash)
    /\ ToSet(old_chain) = Ancestry[canonical_head] \ Ancestry[old_hash]
    /\ ToSet(old_chain) \subseteq chain_state.blocks_by_hash

NewWalked ==
    /\ current_hash \in Ancestry[Parent[new_head]]
    /\ new_chain \in Seq(Hash)
    /\ Falls(new_chain, current_hash)
    /\ ToSet(new_chain) = Ancestry[new_head] \ Ancestry[current_hash]
    /\ ToSet(new_chain) \subseteq chain_state.blocks_by_hash

Apart ==
    /\ (ToSet(new_chain) \ {new_head}) \cap Ancestry[canonical_head] = {}
    /\ ToSet(old_chain) \cap Ancestry[Parent[new_head]] = {}

\* Where the walks are.
Positions ==
    /\ current_number \in Nat /\ current_canonical_number \in Nat
    /\ loop \in {"new", "old"} => Number[old_hash] = current_canonical_number
    /\ loop = "new" =>
          old_hash = canonical_head /\ old_chain = <<>>
    /\ loop = "old" => current_number <= current_canonical_number
    /\ loop = "both" => current_number = current_canonical_number

NewPositions ==
    /\ loop \in {"new", "old"} =>
          /\ Number[current_hash] = current_number
          /\ current_hash = Parent[new_head] \/ current_number >= Number[canonical_head]
    /\ loop = "both" => Number[current_hash] = Number[old_hash]
    /\ loop \in {"old", "both"} /\ old_chain = <<>> => current_hash # old_hash

\* Genesis has no parent, and is never made the head.
GenesisWalk == current_hash = Zero /\ current_number = 0

Results ==
    /\ HasNewHead(chain_state, canonical_head, new_head)
    /\ ToSet(new_chain) = NewBranch(canonical_head, new_head) /\ Rising(new_chain)
    /\ ToSet(old_chain) = OldBranch(canonical_head, new_head) /\ Rising(old_chain)
    /\ loop = "commit" <=> OldBranch(canonical_head, new_head) = {}

WalkInv ==
    /\ chain_state.blocks_by_hash \subseteq Hash /\ canonical_head \in Hash /\ new_head \in Hash
    /\ loop \in {"new", "old", "both", "commit", "reorg", "none"}
    /\ loop \in {"new", "old", "both"} =>
          /\ new_head \in chain_state.blocks_by_hash
          /\ OldWalked /\ Positions
          /\ new_head = Genesis => GenesisWalk
          /\ new_head # Genesis => NewWalked /\ Apart /\ NewPositions
    /\ loop \in {"commit", "reorg"} => Results
    /\ loop = "none" => ~HasNewHead(chain_state, canonical_head, new_head)

\* A block with a number above zero has a parent.
LEMMA ParentBelow ==
    ASSUME NEW h \in Hash, Number[h] # 0 \/ h # Genesis
    PROVE  /\ h # Genesis /\ Parent[h] \in Hash
           /\ Number[h] \in Nat /\ Number[Parent[h]] \in Nat
           /\ Number[h] = Number[Parent[h]] + 1
           /\ Ancestry[h] = {h} \cup Ancestry[Parent[h]]
           /\ h \notin Ancestry[Parent[h]]
<1>1. h # Genesis /\ Parent[h] \in Hash
  BY BlocksAssumption
<1>2. Number[h] \in Nat /\ Number[Parent[h]] \in Nat /\ Number[h] = Number[Parent[h]] + 1
  BY <1>1, BlocksAssumption
<1>3. Ancestry[h] = {h} \cup Ancestry[Parent[h]]
  BY <1>1, AncestryStep
<1>4. h \notin Ancestry[Parent[h]]
  BY <1>1, <1>2, AncestryNumber
<1>. QED  BY <1>1, <1>2, <1>3, <1>4

\* The blocks above x on the walk from h, and x itself, are those above its parent.
LEMMA WalkedStep ==
    ASSUME NEW h \in Hash, NEW x \in Ancestry[h], x # Genesis
    PROVE  /\ Parent[x] \in Ancestry[h]
           /\ (Ancestry[h] \ Ancestry[x]) \cup {x} = Ancestry[h] \ Ancestry[Parent[x]]
<1>1. x \in Hash /\ Ancestry[x] \subseteq Ancestry[h]
  BY AncestryTransitive
<1>2. Ancestry[x] = {x} \cup Ancestry[Parent[x]] /\ x \notin Ancestry[Parent[x]] /\ Parent[x] \in Hash
  BY <1>1, ParentBelow
<1>3. Parent[x] \in Ancestry[Parent[x]]
  BY <1>2, AncestryClosed
<1>. QED  BY <1>1, <1>2, <1>3


\* One step back on the canonical chain.
LEMMA StepOldWalked ==
    ASSUME WalkInv, OldWalked, StepOld, old_hash # Genesis, UNCHANGED treeVars
    PROVE  /\ OldWalked'
           /\ ToSet(old_chain') = ToSet(old_chain) \cup {old_hash}
           /\ old_chain' # <<>>
           /\ old_hash' = Parent[old_hash]
           /\ Number[old_hash] = Number[old_hash'] + 1 /\ Number[old_hash'] \in Nat
<1>1. /\ canonical_head \in Hash /\ chain_state' = chain_state /\ canonical_head' = canonical_head
      /\ old_hash' = Parent[old_hash] /\ old_chain' = Append(old_chain, old_hash)
      /\ old_hash \in chain_state.blocks_by_hash
  BY DEF WalkInv, StepOld, Stored, treeVars
<1>2. old_hash \in Hash /\ old_hash \in Ancestry[canonical_head]
  BY <1>1, AncestryClosed DEF OldWalked
<1>3. /\ old_chain' \in Seq(Hash)
      /\ Falls(old_chain', old_hash')
      /\ ToSet(old_chain') = ToSet(old_chain) \cup {old_hash}
      /\ old_chain' # <<>>
  BY <1>1, <1>2, FallsAppend DEF OldWalked
<1>4. /\ old_hash' \in Ancestry[canonical_head]
      /\ ToSet(old_chain') = Ancestry[canonical_head] \ Ancestry[old_hash']
  BY <1>1, <1>2, <1>3, WalkedStep DEF OldWalked
<1>5. Number[old_hash] = Number[old_hash'] + 1 /\ Number[old_hash'] \in Nat
  BY <1>1, <1>2, ParentBelow
<1>6. OldWalked'
  BY <1>1, <1>3, <1>4 DEF OldWalked
<1>. QED  BY <1>1, <1>3, <1>5, <1>6

\* One step back from the new head.
LEMMA StepNewWalked ==
    ASSUME WalkInv, NewWalked, StepNew, new_head # Genesis, current_hash # Genesis,
           UNCHANGED <<treeVars, new_head>>
    PROVE  /\ NewWalked'
           /\ ToSet(new_chain') = ToSet(new_chain) \cup {current_hash}
           /\ current_hash' = Parent[current_hash]
           /\ Number[current_hash] = Number[current_hash'] + 1 /\ Number[current_hash'] \in Nat
<1>1. /\ new_head \in Hash /\ chain_state' = chain_state /\ new_head' = new_head
      /\ current_hash' = Parent[current_hash] /\ new_chain' = Append(new_chain, current_hash)
      /\ current_hash \in chain_state.blocks_by_hash
  BY DEF WalkInv, StepNew, Stored, treeVars
<1>2. Parent[new_head] \in Hash /\ Ancestry[new_head] = {new_head} \cup Ancestry[Parent[new_head]]
  BY <1>1, ParentBelow
<1>3. current_hash \in Hash /\ current_hash \in Ancestry[Parent[new_head]]
  BY <1>2, AncestryClosed DEF NewWalked
<1>4. /\ new_chain' \in Seq(Hash)
      /\ Falls(new_chain', current_hash')
      /\ ToSet(new_chain') = ToSet(new_chain) \cup {current_hash}
  BY <1>1, <1>3, FallsAppend DEF NewWalked
<1>5. /\ current_hash' \in Ancestry[Parent[new_head]]
      /\ ToSet(new_chain') = Ancestry[new_head] \ Ancestry[current_hash']
  <2>1. current_hash' \in Ancestry[Parent[new_head]]
    BY <1>1, <1>2, <1>3, WalkedStep
  <2>2. ToSet(new_chain') = Ancestry[new_head] \ Ancestry[current_hash']
    BY <1>1, <1>2, <1>3, <1>4, WalkedStep DEF NewWalked
  <2>. QED  BY <2>1, <2>2
<1>6. Number[current_hash] = Number[current_hash'] + 1 /\ Number[current_hash'] \in Nat
  BY <1>1, <1>3, ParentBelow
<1>7. NewWalked'
  BY <1>1, <1>4, <1>5 DEF NewWalked
<1>. QED  BY <1>1, <1>4, <1>6, <1>7

\* Every step of the loops keeps the invariant.
LEMMA WalkStep == ASSUME WalkInv, [Walk]_<<treeVars, walkVars>> PROVE WalkInv'
<1>. DEFINE V == chain_state.blocks_by_hash
            head == canonical_head
            h == new_head
<1>i. V \subseteq Hash /\ head \in Hash /\ h \in Hash
  BY DEF WalkInv
<1>g. h # Genesis => Parent[h] \in Hash /\ Ancestry[h] = {h} \cup Ancestry[Parent[h]]
                     /\ h \notin Ancestry[Parent[h]]
  BY <1>i, ParentBelow
<1>1. CASE UNCHANGED <<treeVars, walkVars>>
  BY <1>1 DEF WalkInv, OldWalked, NewWalked, Apart, Positions, NewPositions, GenesisWalk, Results,
       treeVars, walkVars
<1>2. CASE WalkNew
  <2>1. /\ loop = "new" /\ current_number > current_canonical_number
        /\ chain_state' = chain_state /\ canonical_head' = head /\ new_head' = h
        /\ current_canonical_number' = current_canonical_number
    BY <1>2 DEF WalkNew, treeVars
  <2>2. /\ h \in V /\ OldWalked /\ Positions
        /\ h = Genesis => GenesisWalk
        /\ h # Genesis => NewWalked /\ Apart /\ NewPositions
    BY <2>1 DEF WalkInv
  <2>3. /\ h # Genesis /\ current_number \in Nat /\ current_canonical_number \in Nat
        /\ current_canonical_number = Number[head] /\ Number[current_hash] = current_number
        /\ old_hash = head /\ old_chain = <<>>
    BY <2>1, <2>2 DEF Positions, NewPositions, GenesisWalk
  <2>4. current_hash \in Ancestry[Parent[h]] /\ current_hash \in Hash
    BY <1>g, <2>2, <2>3, AncestryClosed DEF NewWalked
  <2>5. current_hash \notin Ancestry[head] /\ current_hash # Genesis
    BY <1>i, <2>1, <2>3, AncestryNumber, BlocksAssumption
  <2>6. CASE StepNew /\ current_number' = current_number - 1 /\ UNCHANGED <<loop, old_hash, old_chain>>
    <3>1. /\ NewWalked'
          /\ ToSet(new_chain') = ToSet(new_chain) \cup {current_hash}
          /\ current_hash' = Parent[current_hash]
          /\ Number[current_hash] = Number[current_hash'] + 1 /\ Number[current_hash'] \in Nat
      BY <1>2, <2>2, <2>3, <2>5, <2>6, StepNewWalked DEF WalkNew
    <3>2. Apart'
      BY <2>1, <2>2, <2>3, <2>5, <2>6, <3>1 DEF Apart
    <3>3. Positions'
      BY <2>1, <2>2, <2>3, <2>6 DEF Positions
    <3>4. NewPositions'
      BY <2>1, <2>3, <2>6, <3>1 DEF NewPositions
    <3>5. OldWalked'
      BY <2>1, <2>2, <2>6 DEF OldWalked
    <3>. QED  BY <1>i, <2>1, <2>2, <2>3, <2>6, <3>1, <3>2, <3>3, <3>4, <3>5 DEF WalkInv
  <2>7. CASE ~Stored(current_hash) /\ GiveUp
    <3>1. ~HasNewHead(chain_state, head, h)
      BY <2>4, <2>5, <2>7 DEF HasNewHead, NewBranch, Stored
    <3>. QED  BY <1>i, <2>1, <2>7, <3>1 DEF GiveUp, WalkInv
  <2>. QED  BY <1>2, <2>6, <2>7 DEF WalkNew
<1>3. CASE ReachHeight
  <2>1. /\ loop = "new" /\ current_number <= current_canonical_number
        /\ chain_state' = chain_state /\ canonical_head' = head
        /\ UNCHANGED <<new_head, current_number, current_hash, current_canonical_number, old_hash, old_chain>>
    BY <1>3 DEF ReachHeight, treeVars
  <2>2. /\ h \in V /\ OldWalked /\ Positions
        /\ h = Genesis => GenesisWalk
        /\ h # Genesis => NewWalked /\ Apart /\ NewPositions
    BY <2>1 DEF WalkInv
  <2>3. old_hash = head /\ old_chain = <<>> /\ Number[head] = current_canonical_number
    BY <2>1, <2>2 DEF Positions
  <2>4. CASE current_hash = head /\ loop' = "commit" /\ new_chain' = Reverse(new_chain)
    <3>1. h # Genesis /\ NewWalked
      BY <1>i, <2>2, <2>4, BlocksAssumption DEF GenesisWalk
    <3>2. Rising(new_chain') /\ ToSet(new_chain') = Ancestry[h] \ Ancestry[head]
      BY <2>4, <3>1, FallsReverse DEF NewWalked
    <3>3. Ancestry[head] \subseteq Ancestry[Parent[h]]
      BY <1>g, <2>4, <3>1, AncestryTransitive DEF NewWalked
    <3>4. ToSet(new_chain') = NewBranch(head, h) /\ ToSet(new_chain') \subseteq V
      BY <1>g, <2>4, <3>1, <3>2, <3>3 DEF NewBranch, NewWalked
    <3>5. ToSet(old_chain') = {} /\ Rising(old_chain') /\ OldBranch(head, h) = {}
      BY <2>1, <2>3, <3>3 DEF ToSet, Rising, OldBranch
    <3>6. HasNewHead(chain_state, head, h)
      BY <2>2, <3>1, <3>4, <3>5 DEF HasNewHead
    <3>7. Results'
      BY <2>1, <2>4, <3>2, <3>4, <3>5, <3>6 DEF Results
    <3>. QED  BY <1>i, <2>1, <2>4, <3>7 DEF WalkInv
  <2>5. CASE current_hash # head /\ loop' = "old" /\ UNCHANGED new_chain
    <3>1. OldWalked' /\ Positions'
      BY <2>1, <2>2, <2>5 DEF OldWalked, Positions
    <3>2. h = Genesis => GenesisWalk'
      BY <2>1, <2>2 DEF GenesisWalk
    <3>3. h # Genesis => NewWalked' /\ Apart' /\ NewPositions'
      BY <2>1, <2>2, <2>3, <2>5 DEF NewWalked, Apart, NewPositions
    <3>. QED  BY <1>i, <2>1, <2>2, <2>5, <3>1, <3>2, <3>3 DEF WalkInv
  <2>. QED  BY <1>3, <2>4, <2>5 DEF ReachHeight
<1>4. CASE WalkOld
  <2>1. /\ loop = "old"
        /\ chain_state' = chain_state /\ canonical_head' = head /\ UNCHANGED treeVars
        /\ UNCHANGED <<new_head, current_number, current_hash, new_chain>>
    BY <1>4 DEF WalkOld, treeVars
  <2>2. /\ h \in V /\ OldWalked /\ Positions
        /\ h = Genesis => GenesisWalk
        /\ h # Genesis => NewWalked /\ Apart /\ NewPositions
    BY <2>1 DEF WalkInv
  <2>3. /\ current_number \in Nat /\ current_canonical_number \in Nat
        /\ Number[old_hash] = current_canonical_number /\ current_number <= current_canonical_number
        /\ old_hash \in Ancestry[head] /\ old_hash \in Hash
    BY <1>i, <2>1, <2>2, AncestryClosed DEF Positions, OldWalked
  <2>n. h = Genesis => GenesisWalk'
    BY <2>1, <2>2 DEF GenesisWalk
  <2>w. h # Genesis => NewWalked'
    BY <2>1, <2>2 DEF NewWalked
  <2>4. ASSUME current_canonical_number > current_number, h # Genesis
        PROVE  old_hash \notin Ancestry[Parent[h]]
    <3>1. Number[old_hash] <= Number[head] /\ Number[head] \in Nat
      BY <1>i, <2>3, AncestryNumber
    <3>2. current_hash = Parent[h] /\ Number[Parent[h]] = current_number
      BY <2>1, <2>2, <2>3, <2>4, <3>1 DEF NewPositions
    <3>. QED  BY <1>g, <2>3, <2>4, <3>2, AncestryNumber
  <2>5. CASE /\ current_canonical_number > current_number /\ StepOld
             /\ current_canonical_number' = current_canonical_number - 1 /\ UNCHANGED loop
    <3>0. old_hash # Genesis
      BY <2>3, <2>5, BlocksAssumption
    <3>1. /\ OldWalked'
          /\ ToSet(old_chain') = ToSet(old_chain) \cup {old_hash}
          /\ old_chain' # <<>>
          /\ Number[old_hash] = Number[old_hash'] + 1 /\ Number[old_hash'] \in Nat
      BY <2>1, <2>2, <2>5, <3>0, StepOldWalked
    <3>2. Positions'
      BY <2>1, <2>3, <2>5, <3>1 DEF Positions
    <3>3. h # Genesis => Apart' /\ NewPositions'
      BY <2>1, <2>2, <2>4, <2>5, <3>1 DEF Apart, NewPositions
    <3>. QED  BY <1>i, <2>1, <2>2, <2>5, <2>n, <2>w, <3>1, <3>2, <3>3 DEF WalkInv
  <2>6. CASE current_canonical_number > current_number /\ ~Stored(old_hash) /\ loop' = "none"
    <3>1. ~HasNewHead(chain_state, head, h)
      BY <2>3, <2>4, <2>6 DEF HasNewHead, OldBranch, Stored
    <3>. QED  BY <1>i, <2>1, <2>6, <3>1 DEF WalkInv
  <2>7. CASE /\ current_canonical_number <= current_number /\ loop' = "both"
             /\ UNCHANGED <<current_canonical_number, old_hash, old_chain>>
    <3>1. OldWalked'
      BY <2>1, <2>2, <2>7 DEF OldWalked
    <3>2. Positions'
      BY <2>1, <2>3, <2>7 DEF Positions
    <3>3. h # Genesis => Apart' /\ NewPositions'
      BY <2>1, <2>2, <2>3, <2>7 DEF Apart, NewPositions
    <3>. QED  BY <1>i, <2>1, <2>2, <2>7, <2>n, <2>w, <3>1, <3>2, <3>3 DEF WalkInv
  <2>. QED  BY <1>4, <2>5, <2>6, <2>7 DEF WalkOld
<1>5. CASE WalkBoth
  <2>1. /\ loop = "both" /\ old_hash # current_hash
        /\ chain_state' = chain_state /\ canonical_head' = head /\ UNCHANGED treeVars
        /\ UNCHANGED <<new_head, current_number, current_canonical_number>>
    BY <1>5 DEF WalkBoth, treeVars
  <2>2. /\ h \in V /\ OldWalked /\ Positions
        /\ h = Genesis => GenesisWalk
        /\ h # Genesis => NewWalked /\ Apart /\ NewPositions
    BY <2>1 DEF WalkInv
  <2>3. old_hash \in Ancestry[head] /\ old_hash \in Hash
    BY <1>i, <2>2, AncestryClosed DEF OldWalked
  <2>4. ASSUME h # Genesis
        PROVE  /\ current_hash \in Ancestry[Parent[h]] /\ current_hash \in Hash
               /\ current_hash \notin Ancestry[head] /\ old_hash \notin Ancestry[Parent[h]]
               /\ current_hash # Genesis /\ old_hash # Genesis
    <3>1. /\ current_hash \in Ancestry[Parent[h]] /\ current_hash \in Hash
          /\ Number[current_hash] = Number[old_hash]
      BY <1>g, <2>1, <2>2, <2>4, AncestryClosed DEF NewWalked, NewPositions
    <3>2. current_hash \notin Ancestry[head]
      BY <1>i, <2>1, <2>3, <3>1, AncestryLinear
    <3>3. old_hash \notin Ancestry[Parent[h]]
      BY <1>g, <2>1, <2>4, <3>1, AncestryLinear
    <3>4. current_hash # Genesis /\ old_hash # Genesis
      <4>1. Number[Genesis] = 0 /\ \A x \in Hash : x # Genesis => Number[x] # 0
        BY BlocksAssumption
      <4>. QED  BY <2>1, <2>3, <3>1, <4>1
    <3>. QED  BY <3>1, <3>2, <3>3, <3>4
  <2>5. CASE StepOld /\ StepNew /\ UNCHANGED loop
    <3>0. h # Genesis
      BY <1>i, <2>2, <2>5, BlocksAssumption DEF GenesisWalk, StepNew, Stored
    <3>1. /\ OldWalked'
          /\ ToSet(old_chain') = ToSet(old_chain) \cup {old_hash}
          /\ old_chain' # <<>>
          /\ Number[old_hash] = Number[old_hash'] + 1 /\ Number[old_hash'] \in Nat
      BY <2>1, <2>2, <2>4, <2>5, <3>0, StepOldWalked
    <3>2. /\ NewWalked'
          /\ ToSet(new_chain') = ToSet(new_chain) \cup {current_hash}
          /\ Number[current_hash] = Number[current_hash'] + 1 /\ Number[current_hash'] \in Nat
      BY <2>1, <2>2, <2>4, <2>5, <3>0, StepNewWalked
    <3>3. Apart'
      BY <2>1, <2>2, <2>4, <3>0, <3>1, <3>2 DEF Apart
    <3>4. Positions'
      BY <2>1, <2>2, <2>5 DEF Positions
    <3>5. NewPositions'
      BY <2>1, <2>2, <2>5, <3>0, <3>1, <3>2 DEF NewPositions
    <3>. QED  BY <1>i, <2>1, <2>2, <2>5, <3>0, <3>1, <3>2, <3>3, <3>4, <3>5 DEF WalkInv
  <2>6. CASE (~Stored(old_hash) \/ ~Stored(current_hash)) /\ GiveUp
    <3>1. ~HasNewHead(chain_state, head, h)
      BY <2>3, <2>4, <2>6 DEF HasNewHead, NewBranch, OldBranch, Stored
    <3>. QED  BY <1>i, <2>1, <2>6, <3>1 DEF WalkInv, GiveUp
  <2>. QED  BY <1>5, <2>5, <2>6 DEF WalkBoth
<1>6. CASE Meet
  <2>1. /\ loop = "both" /\ old_hash = current_hash /\ loop' = "reorg"
        /\ chain_state' = chain_state /\ canonical_head' = head /\ new_head' = h
        /\ new_chain' = Reverse(new_chain) /\ old_chain' = Reverse(old_chain)
    BY <1>6 DEF Meet, treeVars
  <2>2. /\ h \in V /\ OldWalked /\ Positions
        /\ h = Genesis => GenesisWalk
        /\ h # Genesis => NewWalked /\ Apart /\ NewPositions
    BY <2>1 DEF WalkInv
  <2>3. h # Genesis /\ NewWalked /\ Apart /\ NewPositions
    <3>1. old_hash \in Hash
      BY <1>i, <2>2, AncestryClosed DEF OldWalked
    <3>. QED  BY <2>1, <2>2, <3>1, BlocksAssumption DEF GenesisWalk
  <2>4. /\ Rising(new_chain') /\ ToSet(new_chain') = Ancestry[h] \ Ancestry[current_hash]
        /\ Rising(old_chain') /\ ToSet(old_chain') = Ancestry[head] \ Ancestry[current_hash]
        /\ ToSet(new_chain') = ToSet(new_chain) /\ ToSet(old_chain') = ToSet(old_chain)
    BY <2>1, <2>2, <2>3, FallsReverse DEF NewWalked, OldWalked
  <2>5. /\ Ancestry[current_hash] \subseteq Ancestry[head]
        /\ Ancestry[current_hash] \subseteq Ancestry[Parent[h]]
    BY <1>g, <1>i, <2>1, <2>2, <2>3, AncestryTransitive DEF NewWalked, OldWalked
  <2>6. ToSet(new_chain') = NewBranch(head, h)
    BY <1>g, <2>3, <2>4, <2>5 DEF NewBranch, Apart
  <2>7. ToSet(old_chain') = OldBranch(head, h)
    BY <2>3, <2>4, <2>5 DEF OldBranch, Apart
  <2>8. OldBranch(head, h) # {}
    <3>1. old_chain # <<>> /\ old_chain \in Seq(Hash)
      BY <2>1, <2>2, <2>3 DEF NewPositions, OldWalked
    <3>2. 1 \in DOMAIN old_chain
      BY <3>1
    <3>. QED  BY <2>4, <2>7, <3>2 DEF ToSet
  <2>9. HasNewHead(chain_state, head, h)
    BY <2>2, <2>3, <2>4, <2>6, <2>7 DEF HasNewHead, NewWalked, OldWalked
  <2>10. Results'
    BY <2>1, <2>4, <2>6, <2>7, <2>8, <2>9 DEF Results
  <2>. QED  BY <1>i, <2>1, <2>10 DEF WalkInv
<1>. QED  BY <1>1, <1>2, <1>3, <1>4, <1>5, <1>6 DEF Walk

\* on_new_head, for every chain of blocks, every head and every set of stored
\* blocks: the loops find a commit or a reorganisation exactly when all blocks
\* of both branches are stored, collect exactly those blocks, in rising order,
\* and the assertion between the loops holds.
THEOREM NewHeadWalkExact == WalkSpec => []WalkFindsBranches
<1>. DEFINE Start == /\ chain_state \in Chains /\ canonical_head \in Hash
                     /\ \E h \in Hash : OnNewHead(h)
<1>1. Start => WalkInv
  <2>. SUFFICES ASSUME chain_state \in Chains, canonical_head \in Hash, NEW h \in Hash, OnNewHead(h)
                PROVE  WalkInv
    OBVIOUS
  <2>1. /\ chain_state.blocks_by_hash \subseteq Hash
        /\ new_head = h /\ loop = IF Stored(h) THEN "new" ELSE "none"
        /\ current_canonical_number = Number[canonical_head]
        /\ current_number = Below(Number[h]) /\ current_hash = Parent[h]
        /\ new_chain = <<h>> /\ old_hash = canonical_head /\ old_chain = <<>>
    BY DEF OnNewHead, Chains
  <2>2. CASE ~Stored(h)
    BY <2>1, <2>2 DEF WalkInv, HasNewHead, Stored
  <2>3. CASE Stored(h)
    <3>1. loop = "new" /\ h \in chain_state.blocks_by_hash
      BY <2>1, <2>3 DEF Stored
    <3>2. OldWalked
      BY <2>1, AncestryClosed DEF OldWalked, Falls, ToSet
    <3>3. Number[h] \in Nat /\ Number[canonical_head] \in Nat
      BY BlocksAssumption
    <3>4. Positions
      BY <2>1, <3>1, <3>3 DEF Positions, Below
    <3>5. h = Genesis => GenesisWalk
      BY <2>1, BlocksAssumption DEF GenesisWalk, Below
    <3>6. ASSUME h # Genesis PROVE NewWalked /\ Apart /\ NewPositions
      <4>1. /\ Parent[h] \in Hash /\ Number[Parent[h]] \in Nat /\ Number[h] = Number[Parent[h]] + 1
            /\ Ancestry[h] = {h} \cup Ancestry[Parent[h]] /\ h \notin Ancestry[Parent[h]]
        BY <3>6, ParentBelow
      <4>2. new_chain \in Seq(Hash) /\ Falls(new_chain, current_hash) /\ ToSet(new_chain) = {h}
        BY <2>1 DEF Falls, ToSet
      <4>3. NewWalked
        BY <2>1, <3>1, <4>1, <4>2, AncestryClosed DEF NewWalked
      <4>4. Apart
        BY <2>1, <4>2 DEF Apart, ToSet
      <4>5. NewPositions
        BY <2>1, <3>1, <4>1 DEF NewPositions, Below
      <4>. QED  BY <4>3, <4>4, <4>5
    <3>. QED  BY <2>1, <3>1, <3>2, <3>4, <3>5, <3>6 DEF WalkInv
  <2>. QED  BY <2>2, <2>3
<1>2. WalkInv /\ [Walk]_<<treeVars, walkVars>> => WalkInv'
  BY WalkStep
<1>3. WalkInv => WalkFindsBranches
  BY DEF WalkInv, WalkFindsBranches, Results, SameHeight, Positions
<1>. QED  BY <1>1, <1>2, <1>3, PTL DEF WalkSpec
=============================================================================
