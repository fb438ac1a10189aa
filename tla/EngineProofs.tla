---------------------------- MODULE EngineProofs ----------------------------
(***************************************************************************)
(* Proofs about the consensus engine, for every tree of blocks, every      *)
(* buffer limit, every verdict of the verifier and every set of messages   *)
(* of the consensus client.                                                *)
(***************************************************************************)
EXTENDS EngineProperties, BlockBufferProofs

-----------------------------------------------------------------------------
(* The updates of the chain state.                                         *)

\* insert_block of ChainState adds one block.
LEMMA ChainInsertBlockType ==
    ASSUME NEW chain \in Chains, NEW h \in Hash, NEW has_proof \in BOOLEAN
    PROVE  /\ ChainInsertBlock(chain, h, has_proof) \in Chains
           /\ ChainInsertBlock(chain, h, has_proof).blocks_by_hash = chain.blocks_by_hash \cup {h}
<1>. DEFINE numbers == [chain.block_hashes_by_number EXCEPT ![Number[h]] = @ \cup {h}]
            proofs  == IF has_proof THEN chain.proofs \cup {h} ELSE chain.proofs
<1>1. Number[h] \in Heights
  BY BlocksAssumption DEF Heights
<1>2. numbers \in [Heights -> SUBSET Hash] /\ proofs \in SUBSET Hash
  BY <1>1 DEF Chains
<1>3. chain.blocks_by_hash \cup {h} \in SUBSET Hash
  BY DEF Chains
<1>4. ChainInsertBlock(chain, h, has_proof).blocks_by_hash = chain.blocks_by_hash \cup {h}
  BY DEF ChainInsertBlock, Chains
<1>5. ChainInsertBlock(chain, h, has_proof) \in Chains
  BY <1>1, <1>2, <1>3 DEF ChainInsertBlock, Chains
<1>. QED  BY <1>4, <1>5

\* on_chain_update changes the canonical hashes only.
LEMMA OnChainUpdateType ==
    ASSUME NEW chain \in Chains, NEW new \in SUBSET Hash, NEW old
    PROVE  /\ OnChainUpdate(chain, new, old) \in Chains
           /\ OnChainUpdate(chain, new, old).blocks_by_hash = chain.blocks_by_hash
<1>. DEFINE canonical ==
         [ n \in Heights |->
             IF \E x \in new : Number[x] = n THEN CHOOSE x \in new : Number[x] = n
             ELSE IF chain.canonical_hashes_by_number[n] \in old THEN None
             ELSE chain.canonical_hashes_by_number[n] ]
<1>1. canonical \in [Heights -> Hash \cup {None}]
  BY DEF Chains
<1>. HIDE DEF canonical
<1>2. [chain EXCEPT !.canonical_hashes_by_number = canonical] \in Chains
  BY <1>1 DEF Chains
<1>3. [chain EXCEPT !.canonical_hashes_by_number = canonical].blocks_by_hash = chain.blocks_by_hash
  BY DEF Chains
<1>. QED  BY <1>2, <1>3 DEF OnChainUpdate, canonical

\* on_finalized only removes blocks.
LEMMA RemoveBlocksType ==
    ASSUME NEW chain \in Chains, NEW f
    PROVE  /\ RemoveBlocksOnFinalized(chain, f) \in Chains
           /\ RemoveBlocksOnFinalized(chain, f).blocks_by_hash \subseteq chain.blocks_by_hash
  BY DEF RemoveBlocksOnFinalized, Chains

\* What launch stores: the genesis block only.
LEMMA GenesisChainType ==
    GenesisChain \in Chains /\ GenesisChain.blocks_by_hash = {Genesis}
<1>1. EmptyChain \in Chains /\ EmptyChain.blocks_by_hash = {}
  BY DEF EmptyChain, Chains
<1>. DEFINE c == ChainInsertBlock(EmptyChain, Genesis, FALSE)
<1>2. Genesis \in Hash /\ {Genesis} \in SUBSET Hash /\ FALSE \in BOOLEAN
  BY BlocksAssumption
<1>3. c \in Chains /\ c.blocks_by_hash = EmptyChain.blocks_by_hash \cup {Genesis}
  BY <1>1, <1>2, ChainInsertBlockType, Zenon
<1>4. c.blocks_by_hash = {Genesis}
  BY <1>1, <1>3
<1>. HIDE DEF c
<1>5. /\ OnChainUpdate(c, {Genesis}, {}) \in Chains
      /\ OnChainUpdate(c, {Genesis}, {}).blocks_by_hash = c.blocks_by_hash
  BY <1>2, <1>3, OnChainUpdateType, Zenon
<1>. QED  BY <1>4, <1>5 DEF GenesisChain, InsertCanonicalHashes, c

\* The branches that on_new_head collects hold known blocks, and so do the
\* chains make_canonical produces.
LEMMA MakeCanonicalType ==
    ASSUME NEW chain \in Chains, NEW head \in Hash, NEW h \in Hash, HasNewHead(chain, head, h)
    PROVE  /\ CanonicalChainUpdate(chain, head, h) \in Chains
           /\ CanonicalChainUpdate(chain, head, h).blocks_by_hash = chain.blocks_by_hash
<1>1. NewBranch(head, h) \in SUBSET Hash
  BY DEF HasNewHead, Chains
<1>. QED  BY <1>1, OnChainUpdateType DEF CanonicalChainUpdate

\* make_canonical keeps the types and stores or removes no block.
LEMMA HeadAfterType ==
    ASSUME NEW chain \in Chains, NEW head \in Hash, NEW h \in Hash
    PROVE  /\ HeadAfter(chain, head, h) \in Hash
           /\ ChainAfter(chain, head, h) \in Chains
           /\ ChainAfter(chain, head, h).blocks_by_hash = chain.blocks_by_hash
  BY MakeCanonicalType DEF HeadAfter, ChainAfter

-----------------------------------------------------------------------------
(* The buffer inside the engine.                                           *)

\* Buffering a disconnected block, with its proof or without, keeps the
\* buffer sound.
LEMMA BufferDisconnectedSound ==
    ASSUME NEW buf, SoundBuffer(buf), NEW h \in Hash, NEW has_proof \in BOOLEAN
    PROVE  SoundBuffer(BufferDisconnected(buf, h, has_proof))
  BY InsertBlockSound, InsertProofSound DEF BufferDisconnected

\* The checks for an invalid ancestor and the download of missing ancestors look at a block
\* and its ancestors only.
LEMMA LowestBufferedAncestorType ==
    ASSUME NEW buf, SoundBuffer(buf), NEW h \in Hash
    PROVE  /\ LowestBufferedAncestorOr(buf, h) \in Ancestry[h] \cup {Zero}
           /\ PayloadCheck(buf, h) \in Ancestry[h] \cup {Zero}
           /\ MissingAncestor(buf, h) \in Ancestry[h] \cup {Zero}
<1>1. ASSUME NEW x \in Ancestry[h]
      PROVE  x \in Hash /\ Parent[x] \in Ancestry[h] \cup {Zero}
  BY AncestryClosed, BlocksAssumption DEF ParentClosed
<1>2. ASSUME NEW k \in Ancestry[h], k \in buf.blocks
      PROVE  Parent[LowestAncestor(buf, k)] \in Ancestry[h] \cup {Zero}
  <2>1. LowestAncestor(buf, k) \in Ancestry[k]
    BY <1>2, LowestAncestorFound DEF BufferedLine
  <2>2. Ancestry[k] \subseteq Ancestry[h]
    BY AncestryTransitive
  <2>. QED  BY <1>1, <2>1, <2>2
<1>3. h \in Ancestry[h]
  BY AncestryClosed
<1>4. LowestBufferedAncestorOr(buf, h) \in Ancestry[h] \cup {Zero}
  BY <1>2, <1>3 DEF LowestBufferedAncestorOr
<1>5. PayloadCheck(buf, h) \in Ancestry[h] \cup {Zero}
  BY <1>1, <1>3, <1>4 DEF PayloadCheck
<1>6. MissingAncestor(buf, h) \in Ancestry[h] \cup {Zero}
  <2>1. CASE Parent[h] \in buf.blocks
    <3>1. Parent[h] # Zero
      BY <2>1, BlocksAssumption DEF SoundBuffer, Buffers
    <3>2. Parent[h] \in Ancestry[h]
      BY <1>1, <1>3, <3>1
    <3>. QED  BY <1>2, <2>1, <3>2 DEF MissingAncestor
  <2>2. CASE Parent[h] \notin buf.blocks
    BY <1>1, <1>3, <2>2 DEF MissingAncestor
  <2>. QED  BY <2>1, <2>2
<1>. QED  BY <1>4, <1>5, <1>6

\* Whatever on_download_outcome does with a buffer, it stays sound.
LEMMA UnlockedSound ==
    ASSUME NEW h \in Hash, NEW buf, SoundBuffer(buf), Unlocked(h, buf)
    PROVE  SoundBuffer(block_buffer')
<1>1. ASSUME NEW b, SoundBuffer(b), DownloadedInvalidAncestor(h, b)
      PROVE  SoundBuffer(block_buffer')
  BY <1>1 DEF DownloadedInvalidAncestor
<1>2. ASSUME NEW b, SoundBuffer(b), DownloadedInserted(h, b)
      PROVE  SoundBuffer(block_buffer')
  BY <1>2, BufferDisconnectedSound, RemoveBlockWithChildrenSound
     DEF DownloadedInserted, StartConnecting
<1>3. SoundBuffer(BufferRemoveBlock(buf, h))
  BY RemoveBlockSound
<1>. QED  BY <1>1, <1>2, <1>3 DEF Unlocked

\* Every step of the engine keeps the buffer sound.
LEMMA BufferStep ==
    ASSUME SoundBuffer(block_buffer), [Next]_vars
    PROVE  SoundBuffer(block_buffer')
<1>. DEFINE Sound == SoundBuffer(block_buffer')
<1>1. \A h \in Hash : SoundBuffer(WithoutProof(h))
  BY RemoveProofSound DEF WithoutProof
<1>2. \A h \in Hash : HasProof(h) \in BOOLEAN
  BY DEF HasProof
<1>3. CASE UNCHANGED vars
  BY <1>3 DEF vars, treeVars
<1>4. ASSUME NEW h \in Hash,
             ConnectValid(h) \/ ConnectDisconnected(h)
             \/ ConnectInvalid(h) \/ ConnectFatal(h)
      PROVE  Sound
  BY <1>4, BufferDisconnectedSound
     DEF ConnectValid, ConnectDisconnected, ConnectInvalid, ConnectFatal
<1>5. CASE FinishConnecting
  BY <1>5 DEF FinishConnecting
<1>6. ASSUME NEW h \in Hash, OnProof(h) PROVE Sound
  BY <1>6, InsertProofSound, UnlockedSound DEF OnProof
<1>7. ASSUME NEW h \in Hash, OnFullBlock(h) PROVE Sound
  BY <1>7, InsertBlockSound, UnlockedSound DEF OnFullBlock
<1>8. ASSUME NEW h \in Hash, OnUnrecoverableFullBlock(h) \/ OnUnrecoverableFinalizedBlock(h)
      PROVE  Sound
  BY <1>8 DEF OnUnrecoverableFullBlock, OnUnrecoverableFinalizedBlock, treeVars
<1>9. ASSUME NEW h \in Hash, OnFinalizedBlock(h) PROVE Sound
  BY <1>9, RemoveBlockSound DEF OnFinalizedBlock
<1>10. CASE PollDownloader \/ ParkedTimeout \/ \E h \in Hash : ForgetInvalidHeader(h)
  BY <1>10 DEF PollDownloader, ParkedTimeout, ForgetInvalidHeader, treeVars
<1>11. ASSUME NEW h \in Hash,
              NewPayloadMalformed(h) \/ NewPayloadInvalidAncestor(h)
              \/ NewPayloadInvalid(h) \/ NewPayloadFatal(h)
       PROVE  Sound
  BY <1>1, <1>11
     DEF NewPayloadMalformed, NewPayloadInvalidAncestor, NewPayloadInvalid, NewPayloadFatal
<1>12. ASSUME NEW h \in Hash, NewPayloadValid(h) PROVE Sound
  BY <1>1, <1>12, RemoveBlockWithChildrenSound DEF NewPayloadValid, StartConnecting
<1>13. ASSUME NEW h \in Hash, NewPayloadDisconnected(h) PROVE Sound
  BY <1>1, <1>2, <1>13, BufferDisconnectedSound DEF NewPayloadDisconnected
<1>14. ASSUME NEW h \in Hash, NewPayloadNoProof(h) PROVE Sound
  BY <1>1, <1>14, InsertBlockSound DEF NewPayloadNoProof
<1>15. ASSUME NEW fcu \in ForkchoiceStates,
              FcuRefused(fcu) \/ FcuSameHead(fcu) \/ FcuKnownHead(fcu) \/ FcuSyncing(fcu)
       PROVE  Sound
  BY <1>15 DEF FcuRefused, FcuSameHead, FcuKnownHead, FcuSyncing
<1>16. ASSUME NEW fcu \in ForkchoiceStates, FcuNewHead(fcu) PROVE Sound
  BY <1>16, EvictOldBlocksSound DEF FcuNewHead
<1>. QED
  BY <1>3, <1>4, <1>5, <1>6, <1>7, <1>8, <1>9, <1>10, <1>11, <1>12, <1>13, <1>14, <1>15, <1>16
     DEF Next, EngineStep, ClientMessage

-----------------------------------------------------------------------------
(* The buffer keeps its promises inside the engine.                        *)

\* The buffer is sound in every state the engine reaches.
LEMMA EngineBufferInduction == Spec => []BufferInv
<1>1. Init => BufferInv
  BY EmptyBufferSound DEF Init, TreeInit, BufferInit, BufferInv
<1>2. BufferInv /\ [Next]_vars => BufferInv'
  BY BufferStep DEF BufferInv
<1>. QED  BY <1>1, <1>2, PTL DEF Spec

\* The engine, whatever it does with the buffer, never makes an index of the
\* buffer disagree with the buffered blocks.
THEOREM EngineBufferIndexed == Spec => []BufferIndexed
<1>1. BufferInv => BufferIndexed
  BY DEF BufferInv, SoundBuffer, BufferIndexed
<1>. QED  BY <1>1, EngineBufferInduction, PTL

\* The engine never buffers more blocks than the limit.
THEOREM EngineBufferBounded == Spec => []BufferBounded
<1>1. BufferInv => BufferBounded
  BY DEF BufferInv, SoundBuffer, BufferBounded
<1>. QED  BY <1>1, EngineBufferInduction, PTL

-----------------------------------------------------------------------------
(* Type correctness.                                                       *)

\* Requests name known blocks, or the zero hash (the parent of genesis).
LEMMA RequestsType ==
    ASSUME NEW requests \in Downloads, NEW h \in Hash \cup {Zero}, NEW buf
    PROVE  /\ DownloadBlock(requests, buf, h) \in Downloads
           /\ DownloadProof(requests, h) \in Downloads
           /\ h \in Hash => DownloadFinalized(requests, h) \in Downloads
           /\ DownloadBlock(requests, buf, h).finalized = requests.finalized
           /\ DownloadProof(requests, h).finalized = requests.finalized
           /\ DownloadFinalized(requests, h).finalized = requests.finalized \cup {h}
<1>1. /\ DownloadBlock(requests, buf, h) \in Downloads
      /\ DownloadBlock(requests, buf, h).finalized = requests.finalized
  BY DEF DownloadBlock, Downloads
<1>2. /\ DownloadProof(requests, h) \in Downloads
      /\ DownloadProof(requests, h).finalized = requests.finalized
  BY DEF DownloadProof, Downloads
<1>3. /\ h \in Hash => DownloadFinalized(requests, h) \in Downloads
      /\ DownloadFinalized(requests, h).finalized = requests.finalized \cup {h}
  BY DEF DownloadFinalized, Downloads
<1>. QED  BY <1>1, <1>2, <1>3

\* What download_missing_block adds to the requests.
LEMMA SyncRequestsType ==
    ASSUME TypeOK, SoundBuffer(block_buffer), NEW fcu \in ForkchoiceStates, fcu.head # Zero
    PROVE  /\ SyncRequests(fcu) \in Downloads
           /\ SyncRequests(fcu).finalized \in
                 {inflight.finalized, inflight.finalized \cup {fcu.finalized}}
           /\ fcu.finalized \notin Hash => SyncRequests(fcu).finalized = inflight.finalized
<1>. DEFINE start  == IF Missing(fcu.safe) THEN fcu.safe ELSE fcu.head
            target == LowestBufferedAncestorOr(block_buffer, start)
<1>1. /\ fcu.head \in Hash
      /\ fcu.safe \in Hash \cup {Zero}
      /\ fcu.finalized \in Hash \cup {Zero}
  BY MessagesAssumption
<1>2. start \in Hash
  BY <1>1 DEF Missing
<1>3. target \in Hash \cup {Zero}
  BY <1>2, LowestBufferedAncestorType, AncestryClosed
<1>4. inflight \in Downloads
  BY DEF TypeOK
<1>5. CASE Missing(fcu.finalized)
  BY <1>1, <1>4, <1>5, RequestsType DEF SyncRequests, Missing
<1>. HIDE DEF target
<1>6. CASE ~Missing(fcu.finalized)
  BY <1>3, <1>4, <1>6, RequestsType DEF SyncRequests, target
<1>. QED  BY <1>5, <1>6

\* Every answer the engine builds is one of Answers.
LEMMA AnswerType ==
    ASSUME NEW to \in {"payload", "forkchoice"}, NEW h \in Hash \cup {Zero}, NEW status \in Statuses
    PROVE  Answer(to, h, status) \in Answers
  BY DEF Answer, Answers

\* Answering, or not, the parked payload keeps the types.
LEMMA AnswerParkedType ==
    ASSUME TypeOK, NEW h \in Hash, NEW status \in Statuses, AnswerParked(h, status)
    PROVE  parked_payload' \in Hash \cup {None} /\ response' \in Answers \cup {None}
<1>1. Answer("payload", h, status) \in Answers
  BY AnswerType
<1>. QED  BY <1>1 DEF AnswerParked, TypeOK

\* Entering the loop of try_connect_buffered_blocks keeps the types.
LEMMA StartConnectingType ==
    ASSUME NEW buf, NEW h \in Hash, NEW handler \in Handlers, StartConnecting(buf, h, handler)
    PROVE  caller' \in Handlers \cup {None} /\ connecting' \in SUBSET Hash
  BY DEF StartConnecting, RemovedWithChildren, Reached

\* An insertion into the cache of invalid headers keeps its type.
LEMMA NoteInvalidType ==
    ASSUME NEW invalid \in [Hash -> Hash \cup {None}], NEW h \in Hash, NEW e \in Hash
    PROVE  NoteInvalid(invalid, h, e) \in [Hash -> Hash \cup {None}]
  BY DEF NoteInvalid

\* The part of the state on_download_outcome may change, and its type.
DownloadTypes ==
    /\ chain_state' \in Chains
    /\ invalid_headers' \in [Hash -> Hash \cup {None}]
    /\ parked_payload' \in Hash \cup {None}
    /\ inflight' \in Downloads
    /\ caller' \in Handlers \cup {None}
    /\ connecting' \in SUBSET Hash
    /\ response' \in Answers \cup {None}

\* The rest of on_download_outcome keeps the types of what it changes.
LEMMA UnlockedType ==
    ASSUME TypeOK, NEW h \in Hash, NEW buf, SoundBuffer(buf), Unlocked(h, buf)
    PROVE  DownloadTypes
<1>. DEFINE removed == BufferRemoveBlock(buf, h)
<1>0. SoundBuffer(removed)
  BY RemoveBlockSound
<1>. HIDE DEF removed
<1>s. "VALID" \in Statuses /\ "INVALID" \in Statuses /\ "SYNCING" \in Statuses /\ "ERROR" \in Statuses
  BY DEF Statuses
<1>t. /\ chain_state \in Chains
      /\ invalid_headers \in [Hash -> Hash \cup {None}]
      /\ parked_payload \in Hash \cup {None}
      /\ inflight \in Downloads
      /\ caller \in Handlers \cup {None}
      /\ connecting \in SUBSET Hash
  BY DEF TypeOK
<1>1. CASE /\ block_buffer' = buf
           /\ response' = None
           /\ UNCHANGED <<chain_state, invalid_headers, parked_payload, inflight, caller, connecting>>
  BY <1>1, <1>t DEF DownloadTypes
<1>2. CASE DownloadedInvalidAncestor(h, removed)
  <2>1. PICK k \in Hash : /\ invalid_headers[k] # None
                          /\ invalid_headers' = NoteInvalid(invalid_headers, h, invalid_headers[k])
    BY <1>2 DEF DownloadedInvalidAncestor, KnownInvalid
  <2>2. invalid_headers' \in [Hash -> Hash \cup {None}]
    BY <1>t, <2>1, NoteInvalidType
  <2>. QED  BY <1>2, <1>t, <1>s, <2>2, AnswerParkedType DEF DownloadedInvalidAncestor, DownloadTypes
<1>3. CASE DownloadedInserted(h, removed)
  <2>. DEFINE handler == [message |-> "download", hash |-> h, has_proof |-> TRUE]
  <2>0. handler \in Handlers
    BY DEF Handlers
  <2>. HIDE DEF handler
  <2>1. CASE /\ chain_state' = ChainInsertBlock(chain_state, h, TRUE)
             /\ StartConnecting(removed, h, handler)
             /\ response' = None
             /\ UNCHANGED <<invalid_headers, parked_payload, inflight>>
    BY <1>t, <2>0, <2>1, ChainInsertBlockType, StartConnectingType DEF DownloadTypes
  <2>2. CASE /\ AnswerParked(h, "VALID") \/ AnswerParked(h, "ERROR")
             /\ UNCHANGED <<chain_state, invalid_headers, inflight, caller, connecting>>
    BY <1>t, <1>s, <2>2, AnswerParkedType DEF DownloadTypes
  <2>3. CASE /\ inflight' = DownloadBlock(inflight, block_buffer', MissingAncestor(removed, h))
             /\ AnswerParked(h, "SYNCING")
             /\ UNCHANGED <<chain_state, invalid_headers, caller, connecting>>
    <3>1. MissingAncestor(removed, h) \in Hash \cup {Zero}
      BY <1>0, LowestBufferedAncestorType, AncestryClosed
    <3>2. inflight' \in Downloads
      BY <1>t, <2>3, <3>1, RequestsType
    <3>. QED  BY <1>t, <1>s, <2>3, <3>2, AnswerParkedType DEF DownloadTypes
  <2>4. CASE /\ invalid_headers' = NoteInvalid(invalid_headers, h, h)
             /\ AnswerParked(h, "INVALID")
             /\ UNCHANGED <<chain_state, inflight, caller, connecting>>
    BY <1>t, <1>s, <2>4, AnswerParkedType, NoteInvalidType DEF DownloadTypes
  <2>. QED  BY <1>3, <2>1, <2>2, <2>3, <2>4 DEF DownloadedInserted, handler
<1>. QED  BY <1>1, <1>2, <1>3 DEF Unlocked, removed

\* Taking an outcome from the downloader keeps its type.
LEMMA NextOutcomeType ==
    ASSUME TypeOK, NEW kind \in Kinds, NEW h, NextOutcome(kind, h)
    PROVE  outcomes' \in Downloads
  BY DEF TypeOK, NextOutcome, Kinds, Downloads

\* Taking a message of the consensus client keeps the types.
LEMMA NextMessageType ==
    ASSUME TypeOK, NextMessage
    PROVE  messages' \in 0 .. MaxMessages /\ outcomes' \in Downloads /\ running' \in BOOLEAN
  BY MessagesAssumption DEF TypeOK, NextMessage

\* Answers to forkchoice updates, and the sync target they leave.
LEMMA AnswerForkchoiceType ==
    ASSUME TypeOK, NEW fcu \in ForkchoiceStates, NEW status \in Statuses,
           AnswerForkchoice(fcu, status), status = "SYNCING" => fcu.head # Zero
    PROVE  sync_target' \in Hash \cup {None} /\ response' \in Answers \cup {None}
<1>1. fcu.head \in Hash \cup {Zero}
  BY MessagesAssumption
<1>2. response' \in Answers
  BY <1>1, AnswerType DEF AnswerForkchoice
<1>3. CASE status = "SYNCING"
  BY <1>1, <1>2, <1>3 DEF AnswerForkchoice, TrackForkchoice
<1>4. CASE status \in {"VALID", "INVALID_ATTRIBUTES"}
  BY <1>2, <1>4 DEF AnswerForkchoice, TrackForkchoice
<1>5. CASE status \notin {"VALID", "INVALID_ATTRIBUTES", "SYNCING"}
  <2>1. sync_target' = sync_target
    BY <1>5 DEF AnswerForkchoice, TrackForkchoice
  <2>. QED  BY <1>2, <2>1 DEF TypeOK
<1>. QED  BY <1>3, <1>4, <1>5

\* Every step of the engine keeps the types.
LEMMA TypeStep ==
    ASSUME TypeOK, SoundBuffer(block_buffer), [Next]_vars
    PROVE  TypeOK'
<1>. SUFFICES ASSUME Next
              PROVE  TypeOK'
  BY DEF vars, treeVars, engineVars, TypeOK
<1>b. block_buffer' \in Buffers
  BY BufferStep DEF SoundBuffer
<1>t. /\ chain_state \in Chains
      /\ canonical_head \in Hash
      /\ sync_target \in Hash \cup {None}
      /\ invalid_headers \in [Hash -> Hash \cup {None}]
      /\ parked_payload \in Hash \cup {None}
      /\ inflight \in Downloads
      /\ outcomes \in Downloads
      /\ caller \in Handlers \cup {None}
      /\ connecting \in SUBSET Hash
      /\ response \in Answers \cup {None}
      /\ messages \in 0 .. MaxMessages
      /\ running \in BOOLEAN
  BY DEF TypeOK
<1>s. /\ "VALID" \in Statuses /\ "INVALID" \in Statuses /\ "SYNCING" \in Statuses
      /\ "INVALID_STATE" \in Statuses /\ "INVALID_ATTRIBUTES" \in Statuses /\ "ERROR" \in Statuses
      /\ \A fcu : AppliedStatus(fcu) \in Statuses
  BY DEF Statuses, AppliedStatus
<1>p. \A h \in Hash, status \in Statuses : Answer("payload", h, status) \in Answers
  BY AnswerType
<1>c. caller # None => caller.hash \in Hash /\ caller.message \in {"payload", "download"}
  BY <1>t DEF Handlers
<1>1. ASSUME NEW h \in Hash, ConnectValid(h) PROVE TypeOK'
  <2>. DEFINE inserted == ChainInsertBlock(chain_state, h, TRUE)
  <2>1. inserted \in Chains
    BY <1>t, ChainInsertBlockType
  <2>. HIDE DEF inserted
  <2>2. /\ HeadAfter(inserted, canonical_head, h) \in Hash
        /\ ChainAfter(inserted, canonical_head, h) \in Chains
    BY <1>t, <2>1, HeadAfterType
  <2>3. canonical_head' \in Hash /\ chain_state' \in Chains
    BY <1>t, <1>1, <2>1, <2>2 DEF ConnectValid, inserted
  <2>. QED  BY <1>1, <1>b, <1>t, <2>3 DEF ConnectValid, NextToConnect, TypeOK
<1>2. ASSUME NEW h \in Hash, ConnectDisconnected(h) PROVE TypeOK'
  BY <1>2, <1>b, <1>t DEF ConnectDisconnected, NextToConnect, TypeOK
<1>3. ASSUME NEW h \in Hash, ConnectInvalid(h) PROVE TypeOK'
  BY <1>3, <1>b, <1>t, NoteInvalidType DEF ConnectInvalid, NextToConnect, TypeOK
<1>4. ASSUME NEW h \in Hash, ConnectFatal(h) PROVE TypeOK'
  <2>1. parked_payload' \in Hash \cup {None} /\ response' \in Answers \cup {None}
    <3>1. caller.hash \in Hash
      BY <1>4, <1>c DEF ConnectFatal, NextToConnect
    <3>. QED  BY <1>4, <1>p, <1>s, <1>t, <3>1, AnswerParkedType DEF ConnectFatal
  <2>. QED  BY <1>4, <1>b, <1>t, <2>1 DEF ConnectFatal, NextToConnect, TypeOK
<1>5. CASE FinishConnecting
  <2>1. caller.hash \in Hash
    BY <1>5, <1>c DEF FinishConnecting
  <2>2. canonical_head' \in Hash /\ chain_state' \in Chains
    BY <1>5, <1>t, <2>1, HeadAfterType DEF FinishConnecting
  <2>3. inflight' \in Downloads
    BY <1>5, <1>t, <2>1, RequestsType DEF FinishConnecting
  <2>4. parked_payload' \in Hash \cup {None} /\ response' \in Answers \cup {None}
    BY <1>5, <1>p, <1>s, <1>t, <2>1, AnswerParkedType DEF FinishConnecting
  <2>. QED  BY <1>5, <1>b, <1>t, <2>2, <2>3, <2>4 DEF FinishConnecting, TypeOK
<1>6. ASSUME NEW h \in Hash, OnProof(h) PROVE TypeOK'
  <2>1. DownloadTypes
    BY <1>6, InsertProofSound, UnlockedType DEF OnProof
  <2>2. outcomes' \in Downloads
    BY <1>6, NextOutcomeType DEF OnProof, Kinds
  <2>. QED  BY <1>6, <1>b, <1>t, <2>1, <2>2 DEF OnProof, DownloadTypes, TypeOK
<1>7. ASSUME NEW h \in Hash, OnFullBlock(h) PROVE TypeOK'
  <2>1. DownloadTypes
    BY <1>7, InsertBlockSound, UnlockedType DEF OnFullBlock
  <2>2. outcomes' \in Downloads
    BY <1>7, NextOutcomeType DEF OnFullBlock, Kinds
  <2>. QED  BY <1>7, <1>b, <1>t, <2>1, <2>2 DEF OnFullBlock, DownloadTypes, TypeOK
<1>8. ASSUME NEW h \in Hash, OnUnrecoverableFullBlock(h) \/ OnUnrecoverableFinalizedBlock(h)
      PROVE  TypeOK'
  <2>1. outcomes' \in Downloads
    BY <1>8, NextOutcomeType DEF OnUnrecoverableFullBlock, OnUnrecoverableFinalizedBlock, Kinds
  <2>. QED  BY <1>8, <1>b, <1>t, <2>1
            DEF OnUnrecoverableFullBlock, OnUnrecoverableFinalizedBlock, treeVars, TypeOK
<1>9. ASSUME NEW f \in Hash, OnFinalizedBlock(f) PROVE TypeOK'
  <2>. DEFINE marked == InsertCanonicalHashes(chain_state, {f} \cup FinalizedAncestors(f))
  <2>1. {f} \cup FinalizedAncestors(f) \in SUBSET Hash
    BY AncestryClosed DEF FinalizedAncestors
  <2>2. marked \in Chains
    BY <1>t, <2>1, OnChainUpdateType DEF InsertCanonicalHashes
  <2>. HIDE DEF marked
  <2>3. chain_state' \in Chains
    BY <1>9, <2>2, ChainInsertBlockType DEF OnFinalizedBlock, marked
  <2>4. outcomes' \in Downloads
    BY <1>9, NextOutcomeType DEF OnFinalizedBlock, Kinds
  <2>5. parked_payload' \in Hash \cup {None} /\ response' \in Answers \cup {None}
    BY <1>9, <1>s, <1>t, AnswerParkedType DEF OnFinalizedBlock
  <2>. QED  BY <1>9, <1>b, <1>t, <2>3, <2>4, <2>5 DEF OnFinalizedBlock, TypeOK
<1>10. CASE PollDownloader
  <2>1. PICK ready \in [finalized : Completable("finalized"), full : Completable("full"),
                        proof : Completable("proof")] :
            /\ outcomes' = ready
            /\ inflight' = [k \in Kinds |-> inflight[k] \ ready[k]]
    BY <1>10 DEF PollDownloader
  <2>2. /\ inflight["finalized"] \in SUBSET Hash
        /\ inflight["full"] \in SUBSET (Hash \cup {Zero})
        /\ inflight["proof"] \in SUBSET (Hash \cup {Zero})
    BY <1>t DEF Downloads
  <2>3. outcomes' \in Downloads
    BY <2>1, <2>2 DEF Completable, Downloads
  <2>4. inflight' \in Downloads
    BY <2>1, <2>2 DEF Kinds, Downloads
  <2>. QED  BY <1>10, <1>b, <1>t, <2>3, <2>4 DEF PollDownloader, treeVars, TypeOK
<1>11. CASE ParkedTimeout
  <2>1. response' \in Answers
    BY <1>11, <1>p, <1>s, <1>t DEF ParkedTimeout
  <2>. QED  BY <1>11, <1>b, <1>t, <2>1 DEF ParkedTimeout, treeVars, TypeOK
<1>12. ASSUME NEW h \in Hash, ForgetInvalidHeader(h) PROVE TypeOK'
  BY <1>12, <1>b, <1>t DEF ForgetInvalidHeader, TypeOK
<1>13. ASSUME NEW h \in Hash,
              NewPayloadMalformed(h) \/ NewPayloadInvalidAncestor(h) \/ NewPayloadValid(h)
              \/ NewPayloadDisconnected(h) \/ NewPayloadNoProof(h)
              \/ NewPayloadInvalid(h) \/ NewPayloadFatal(h)
       PROVE  TypeOK'
  <2>0. SoundBuffer(WithoutProof(h)) /\ HasProof(h) \in BOOLEAN
    BY RemoveProofSound DEF WithoutProof, HasProof
  <2>1. messages' \in 0 .. MaxMessages /\ outcomes' \in Downloads /\ running' \in BOOLEAN
    BY <1>13, NextMessageType
       DEF NewPayloadMalformed, NewPayloadInvalidAncestor, NewPayloadValid, NewPayloadDisconnected,
           NewPayloadNoProof, NewPayloadInvalid, NewPayloadFatal, NewPayload
  <2>2. canonical_head' \in Hash /\ sync_target' \in Hash \cup {None}
    BY <1>13, <1>t
       DEF NewPayloadMalformed, NewPayloadInvalidAncestor, NewPayloadValid, NewPayloadDisconnected,
           NewPayloadNoProof, NewPayloadInvalid, NewPayloadFatal, NewPayload
  <2>3. CASE NewPayloadMalformed(h) \/ NewPayloadFatal(h)
    BY <1>b, <1>p, <1>s, <1>t, <2>1, <2>2, <2>3 DEF NewPayloadMalformed, NewPayloadFatal, TypeOK
  <2>4. CASE NewPayloadInvalidAncestor(h)
    <3>1. PICK k \in Hash : /\ invalid_headers[k] # None
                            /\ invalid_headers' = NoteInvalid(invalid_headers, h, invalid_headers[k])
      BY <2>4 DEF NewPayloadInvalidAncestor, PayloadRefused, KnownInvalid
    <3>2. invalid_headers' \in [Hash -> Hash \cup {None}]
      BY <1>t, <3>1, NoteInvalidType
    <3>. QED  BY <1>b, <1>p, <1>s, <1>t, <2>1, <2>2, <2>4, <3>2 DEF NewPayloadInvalidAncestor, TypeOK
  <2>5. CASE NewPayloadValid(h)
    <3>. DEFINE handler == [message |-> "payload", hash |-> h, has_proof |-> HasProof(h)]
    <3>1. handler \in Handlers
      BY <2>0 DEF Handlers
    <3>. HIDE DEF handler
    <3>2. caller' \in Handlers \cup {None} /\ connecting' \in SUBSET Hash
      BY <2>5, <3>1, StartConnectingType DEF NewPayloadValid, handler
    <3>3. ChainInsertBlock(chain_state, h, TRUE) \in Chains
      BY <1>t, ChainInsertBlockType
    <3>4. chain_state' \in Chains
      BY <1>t, <2>5, <3>3 DEF NewPayloadValid
    <3>. QED  BY <1>b, <1>t, <2>1, <2>2, <2>5, <3>2, <3>4 DEF NewPayloadValid, TypeOK
  <2>6. CASE NewPayloadDisconnected(h)
    <3>1. MissingAncestor(WithoutProof(h), h) \in Hash \cup {Zero}
      BY <2>0, LowestBufferedAncestorType, AncestryClosed
    <3>2. inflight' \in Downloads
      BY <1>t, <2>6, <3>1, RequestsType DEF NewPayloadDisconnected
    <3>. QED  BY <1>b, <1>p, <1>s, <1>t, <2>1, <2>2, <2>6, <3>2 DEF NewPayloadDisconnected, TypeOK
  <2>7. CASE NewPayloadNoProof(h)
    <3>1. inflight' \in Downloads
      BY <1>t, <2>7, RequestsType DEF NewPayloadNoProof
    <3>. QED  BY <1>b, <1>t, <2>1, <2>2, <2>7, <3>1 DEF NewPayloadNoProof, TypeOK
  <2>8. CASE NewPayloadInvalid(h)
    <3>1. invalid_headers' \in [Hash -> Hash \cup {None}]
      BY <1>t, <2>8, NoteInvalidType DEF NewPayloadInvalid
    <3>. QED  BY <1>b, <1>p, <1>s, <1>t, <2>1, <2>2, <2>8, <3>1 DEF NewPayloadInvalid, TypeOK
  <2>. QED  BY <1>13, <2>3, <2>4, <2>5, <2>6, <2>7, <2>8
<1>14. ASSUME NEW fcu \in ForkchoiceStates,
              FcuRefused(fcu) \/ FcuSameHead(fcu) \/ FcuNewHead(fcu)
              \/ FcuKnownHead(fcu) \/ FcuSyncing(fcu)
       PROVE  TypeOK'
  <2>0. fcu.head \in Hash \cup {Zero}
    BY MessagesAssumption
  <2>1. messages' \in 0 .. MaxMessages /\ outcomes' \in Downloads /\ running' \in BOOLEAN
    BY <1>14, NextMessageType
       DEF FcuRefused, FcuSameHead, FcuNewHead, FcuKnownHead, FcuSyncing, ForkchoiceUpdated
  <2>2. UNCHANGED <<invalid_headers, parked_payload, caller, connecting>>
    BY <1>14 DEF FcuRefused, FcuSameHead, FcuNewHead, FcuKnownHead, FcuSyncing, ForkchoiceUpdated
  <2>3. sync_target' \in Hash \cup {None} /\ response' \in Answers \cup {None}
    <3>1. PICK status \in Statuses :
              AnswerForkchoice(fcu, status) /\ (status = "SYNCING" => fcu.head # Zero)
      BY <1>14, <1>s
         DEF FcuRefused, FcuSameHead, FcuNewHead, FcuKnownHead, FcuSyncing, Processable, AppliedStatus
    <3>. QED  BY <3>1, AnswerForkchoiceType
  <2>4. CASE FcuRefused(fcu) \/ FcuSameHead(fcu) \/ FcuKnownHead(fcu)
    BY <1>b, <1>t, <2>1, <2>2, <2>3, <2>4 DEF FcuRefused, FcuSameHead, FcuKnownHead, TypeOK
  <2>5. CASE FcuNewHead(fcu)
    <3>. DEFINE updated == CanonicalChainUpdate(chain_state, canonical_head, fcu.head)
    <3>1. fcu.head \in Hash
      BY <2>0, <2>5 DEF FcuNewHead, Processable
    <3>2. updated \in Chains
      BY <1>t, <2>5, <3>1, MakeCanonicalType DEF FcuNewHead
    <3>. HIDE DEF updated
    <3>3. chain_state' \in Chains
      BY <2>5, <3>2, RemoveBlocksType DEF FcuNewHead, updated
    <3>. QED  BY <1>b, <1>t, <2>1, <2>2, <2>3, <2>5, <3>1, <3>3 DEF FcuNewHead, TypeOK
  <2>6. CASE FcuSyncing(fcu)
    <3>1. inflight' \in Downloads
      BY <2>6, SyncRequestsType DEF FcuSyncing, Processable
    <3>. QED  BY <1>b, <1>t, <2>1, <2>2, <2>3, <2>6, <3>1 DEF FcuSyncing, TypeOK
  <2>. QED  BY <1>14, <2>4, <2>5, <2>6
<1>. QED
  BY <1>1, <1>2, <1>3, <1>4, <1>5, <1>6, <1>7, <1>8, <1>9, <1>10, <1>11, <1>12, <1>13, <1>14
     DEF Next, EngineStep, ClientMessage

\* The engine starts in a state of the right type.
LEMMA InitTypeOK == ASSUME Init PROVE TypeOK
<1>1. block_buffer \in Buffers
  BY EmptyBufferSound DEF Init, TreeInit, BufferInit, SoundBuffer
<1>2. chain_state \in Chains
  BY GenesisChainType DEF Init, TreeInit, ChainInit
<1>3. canonical_head \in Hash /\ sync_target = None /\ invalid_headers = [h \in Hash |-> None]
  BY BlocksAssumption DEF Init, TreeInit
<1>4. NoDownloads \in Downloads
  BY DEF NoDownloads, Downloads
<1>. QED  BY <1>1, <1>2, <1>3, <1>4, MessagesAssumption DEF Init, TypeOK

\* Every variable of the engine keeps its type, for every tree of blocks and
\* every set of messages.
THEOREM EngineTypeCorrect == Spec => []TypeOK
<1>1. Init => TypeOK
  BY InitTypeOK
<1>2. TypeOK /\ BufferInv /\ [Next]_vars => TypeOK'
  BY TypeStep DEF BufferInv
<1>. QED  BY <1>1, <1>2, EngineBufferInduction, PTL DEF Spec

-----------------------------------------------------------------------------
(* Validity.                                                               *)

\* insert_block returns Valid only for a block with a valid ancestry, as long
\* as that holds of the blocks already stored.
LEMMA InsertValidSound ==
    ASSUME TypeOK, NoInvalidBlockAdmitted, NEW h \in Hash, NEW has_proof \in BOOLEAN,
           "Valid" \in InsertResults(chain_state, h, has_proof)
    PROVE  ~Tainted(h)
<1>1. /\ h \notin FailsConsensus
      /\ Parent[h] \in chain_state.blocks_by_hash
      /\ "Valid" \in Verdicts[h]
  BY DEF InsertResults
<1>2. Parent[h] \in Hash
  BY <1>1 DEF TypeOK, Chains
<1>3. Ancestry[h] = {h} \cup Ancestry[Parent[h]]
  BY <1>2, AncestryStep
<1>4. Ancestry[Parent[h]] \cap Bad = {}
  BY <1>1 DEF NoInvalidBlockAdmitted, Tainted
<1>5. h \notin Bad
  BY <1>1 DEF Bad
<1>. QED  BY <1>3, <1>4, <1>5 DEF Tainted

\* insert_block returns Invalid only for a block that was rejected.
Rejected(e) == e \in FailsConsensus \/ "Invalid" \in Verdicts[e]

\* A block for which insert_block returns a validation error was rejected by
\* validate_block or by the verifier.
LEMMA InsertInvalidSound ==
    ASSUME NEW h, NEW has_proof \in BOOLEAN, "Invalid" \in InsertResults(chain_state, h, has_proof)
    PROVE  Rejected(h)
  BY DEF InsertResults, Rejected

\* Blocks that are stored without verification come from the consensus client.
FinalizedTrusted == \A f \in inflight.finalized \cup outcomes.finalized : ~Tainted(f)

\* A step that stores no block but valid ones keeps the stored blocks valid.
LEMMA StoredBlocksStep ==
    ASSUME TypeOK, SoundBuffer(block_buffer), NoInvalidBlockAdmitted, FinalizedTrusted, [Next]_vars
    PROVE  NoInvalidBlockAdmitted'
<1>. DEFINE blocks == chain_state.blocks_by_hash
<1>t. chain_state \in Chains /\ canonical_head \in Hash
  BY DEF TypeOK
<1>i. \A h \in Hash : /\ ChainInsertBlock(chain_state, h, TRUE) \in Chains
                      /\ ChainInsertBlock(chain_state, h, TRUE).blocks_by_hash = blocks \cup {h}
  BY <1>t, ChainInsertBlockType
<1>. SUFFICES \/ chain_state'.blocks_by_hash \subseteq blocks
              \/ \E h \in Hash : ~Tainted(h) /\ chain_state'.blocks_by_hash = blocks \cup {h}
  BY DEF NoInvalidBlockAdmitted, Tainted
<1>. DEFINE Goal == \/ chain_state'.blocks_by_hash \subseteq blocks
                    \/ \E h \in Hash : ~Tainted(h) /\ chain_state'.blocks_by_hash = blocks \cup {h}
<1>1. CASE UNCHANGED chain_state
  BY <1>1
<1>2. ASSUME NEW h \in Hash, ConnectValid(h) PROVE Goal
  <2>. DEFINE inserted == ChainInsertBlock(chain_state, h, TRUE)
  <2>1. ~Tainted(h)
    BY <1>2, InsertValidSound DEF ConnectValid
  <2>2. inserted \in Chains /\ inserted.blocks_by_hash = blocks \cup {h}
    BY <1>i
  <2>. HIDE DEF inserted
  <2>3. ChainAfter(inserted, canonical_head, h).blocks_by_hash = inserted.blocks_by_hash
    BY <1>t, <2>2, HeadAfterType
  <2>4. chain_state' \in {inserted, ChainAfter(inserted, canonical_head, h)}
    BY <1>2 DEF ConnectValid, inserted
  <2>. QED  BY <2>1, <2>2, <2>3, <2>4
<1>3. CASE FinishConnecting
  <2>1. caller.hash \in Hash
    BY <1>3 DEF FinishConnecting, TypeOK, Handlers
  <2>2. ChainAfter(chain_state, canonical_head, caller.hash).blocks_by_hash = blocks
    BY <1>t, <2>1, HeadAfterType
  <2>3. chain_state' \in {chain_state, ChainAfter(chain_state, canonical_head, caller.hash)}
    BY <1>3 DEF FinishConnecting
  <2>. QED  BY <2>2, <2>3
<1>4. ASSUME NEW h \in Hash, NEW buf, Unlocked(h, buf) PROVE Goal
  <2>1. CASE UNCHANGED chain_state
    BY <2>1
  <2>2. CASE /\ "Valid" \in InsertResults(chain_state, h, TRUE)
             /\ chain_state' = ChainInsertBlock(chain_state, h, TRUE)
    BY <1>i, <2>2, InsertValidSound
  <2>. QED  BY <1>4, <2>1, <2>2 DEF Unlocked, DownloadedInvalidAncestor, DownloadedInserted
<1>5. ASSUME NEW f \in Hash, OnFinalizedBlock(f) PROVE Goal
  <2>. DEFINE marked == InsertCanonicalHashes(chain_state, {f} \cup FinalizedAncestors(f))
  <2>1. f \in outcomes.finalized
    BY <1>5 DEF OnFinalizedBlock, NextOutcome
  <2>2. ~Tainted(f)
    BY <2>1 DEF FinalizedTrusted
  <2>3. {f} \cup FinalizedAncestors(f) \in SUBSET Hash
    BY AncestryClosed DEF FinalizedAncestors
  <2>4. marked \in Chains /\ marked.blocks_by_hash = blocks
    BY <1>t, <2>3, OnChainUpdateType DEF InsertCanonicalHashes
  <2>. HIDE DEF marked
  <2>5. ChainInsertBlock(marked, f, FALSE).blocks_by_hash = marked.blocks_by_hash \cup {f}
    BY <2>4, ChainInsertBlockType
  <2>. QED  BY <1>5, <2>2, <2>4, <2>5 DEF OnFinalizedBlock, marked
<1>6. ASSUME NEW h \in Hash, NewPayloadValid(h) PROVE Goal
  <2>1. CASE UNCHANGED chain_state
    BY <2>1
  <2>2. CASE /\ "Valid" \in InsertResults(chain_state, h, HasProof(h))
             /\ chain_state' = ChainInsertBlock(chain_state, h, TRUE)
    <3>1. HasProof(h) \in BOOLEAN
      BY DEF HasProof
    <3>. QED  BY <1>i, <2>2, <3>1, InsertValidSound
  <2>. QED  BY <1>6, <2>1, <2>2 DEF NewPayloadValid
<1>7. ASSUME NEW fcu \in ForkchoiceStates, FcuNewHead(fcu) PROVE Goal
  <2>. DEFINE updated == CanonicalChainUpdate(chain_state, canonical_head, fcu.head)
  <2>1. fcu.head \in Hash
    BY <1>7, MessagesAssumption DEF FcuNewHead, Processable
  <2>2. updated \in Chains /\ updated.blocks_by_hash = blocks
    BY <1>t, <1>7, <2>1, MakeCanonicalType DEF FcuNewHead
  <2>. HIDE DEF updated
  <2>3. RemoveBlocksOnFinalized(updated, fcu.finalized).blocks_by_hash \subseteq blocks
    BY <2>2, RemoveBlocksType
  <2>4. chain_state' \in {updated, RemoveBlocksOnFinalized(updated, fcu.finalized)}
    BY <1>7 DEF FcuNewHead, updated
  <2>. QED  BY <2>2, <2>3, <2>4
<1>8. \/ UNCHANGED chain_state
      \/ \E h \in Hash : ConnectValid(h) \/ OnFinalizedBlock(h) \/ NewPayloadValid(h)
      \/ \E h \in Hash :
            \E buf \in {BufferInsertProof(block_buffer, h), BufferInsertBlock(block_buffer, h)} :
               Unlocked(h, buf)
      \/ FinishConnecting
      \/ \E fcu \in ForkchoiceStates : FcuNewHead(fcu)
  BY DEF Next, EngineStep, ClientMessage, vars, treeVars, ConnectDisconnected,
         ConnectInvalid, ConnectFatal, OnProof, OnFullBlock, OnUnrecoverableFullBlock,
         OnUnrecoverableFinalizedBlock, PollDownloader, ParkedTimeout, ForgetInvalidHeader,
         NewPayloadMalformed, NewPayloadInvalidAncestor, NewPayloadDisconnected, NewPayloadNoProof,
         NewPayloadInvalid, NewPayloadFatal, FcuRefused, FcuSameHead, FcuKnownHead, FcuSyncing
<1>. QED  BY <1>1, <1>2, <1>3, <1>4, <1>5, <1>6, <1>7, <1>8

\* An entry for a block and a rejected ancestor of it keeps the cache sound.
LEMMA NoteInvalidSound ==
    ASSUME TypeOK, InvalidHeadersSound, NEW h \in Hash, NEW e \in Ancestry[h], Rejected(e),
           invalid_headers' = NoteInvalid(invalid_headers, h, e)
    PROVE  InvalidHeadersSound'
  BY DEF TypeOK, InvalidHeadersSound, NoteInvalid, Rejected

\* Every step keeps the cache of invalid headers sound.  A block is refused
\* for an ancestor of it: the entry found under that ancestor names a rejected
\* block that is an ancestor of both.
LEMMA InvalidHeadersStep ==
    ASSUME TypeOK, SoundBuffer(block_buffer), InvalidHeadersSound, [Next]_vars
    PROVE  InvalidHeadersSound'
<1>1. ASSUME UNCHANGED invalid_headers PROVE InvalidHeadersSound'
  BY <1>1 DEF InvalidHeadersSound
<1>2. ASSUME NEW h \in Hash, NEW has_proof \in BOOLEAN,
             "Invalid" \in InsertResults(chain_state, h, has_proof),
             invalid_headers' = NoteInvalid(invalid_headers, h, h)
      PROVE  InvalidHeadersSound'
  <2>1. Rejected(h)
    BY <1>2, InsertInvalidSound
  <2>2. h \in Ancestry[h]
    BY AncestryClosed
  <2>. QED  BY <1>2, <2>1, <2>2, NoteInvalidSound
<1>3. ASSUME NEW h \in Hash, NEW k \in Ancestry[h] \cup {Zero}, KnownInvalid(invalid_headers, k),
             invalid_headers' = NoteInvalid(invalid_headers, h, invalid_headers[k])
      PROVE  InvalidHeadersSound'
  <2>1. k \in Hash /\ invalid_headers[k] # None /\ k \in Ancestry[h]
    BY <1>3, BlocksAssumption DEF KnownInvalid
  <2>2. invalid_headers[k] \in Ancestry[k] /\ Rejected(invalid_headers[k])
    BY <2>1 DEF InvalidHeadersSound, Rejected
  <2>3. invalid_headers[k] \in Ancestry[h]
    BY <2>1, <2>2, AncestryTransitive
  <2>. QED  BY <1>3, <2>2, <2>3, NoteInvalidSound
<1>4. ASSUME NEW h \in Hash, NEW buf, SoundBuffer(buf), Unlocked(h, buf)
      PROVE  InvalidHeadersSound'
  <2>. DEFINE removed == BufferRemoveBlock(buf, h)
  <2>1. SoundBuffer(removed)
    BY <1>4, RemoveBlockSound
  <2>2. LowestBufferedAncestorOr(removed, h) \in Ancestry[h] \cup {Zero}
    BY <2>1, LowestBufferedAncestorType
  <2>. HIDE DEF removed
  <2>3. CASE DownloadedInvalidAncestor(h, removed)
    BY <1>3, <2>2, <2>3 DEF DownloadedInvalidAncestor
  <2>4. CASE DownloadedInserted(h, removed)
    BY <1>1, <1>2, <2>4 DEF DownloadedInserted
  <2>5. CASE UNCHANGED invalid_headers
    BY <1>1, <2>5
  <2>. QED  BY <1>4, <2>3, <2>4, <2>5 DEF Unlocked, removed
<1>5. ASSUME NEW h \in Hash, ConnectInvalid(h) PROVE InvalidHeadersSound'
  BY <1>2, <1>5 DEF ConnectInvalid
<1>6. ASSUME NEW h \in Hash, OnProof(h) PROVE InvalidHeadersSound'
  BY <1>4, <1>6, InsertProofSound DEF OnProof
<1>7. ASSUME NEW h \in Hash, OnFullBlock(h) PROVE InvalidHeadersSound'
  BY <1>4, <1>7, InsertBlockSound DEF OnFullBlock
<1>8. ASSUME NEW h \in Hash, ForgetInvalidHeader(h) PROVE InvalidHeadersSound'
  BY <1>8 DEF ForgetInvalidHeader, InvalidHeadersSound, TypeOK
<1>9. ASSUME NEW h \in Hash, NewPayloadInvalidAncestor(h) PROVE InvalidHeadersSound'
  <2>1. SoundBuffer(WithoutProof(h))
    BY RemoveProofSound DEF WithoutProof
  <2>2. PayloadCheck(WithoutProof(h), h) \in Ancestry[h] \cup {Zero}
    BY <2>1, LowestBufferedAncestorType
  <2>. QED  BY <1>3, <1>9, <2>2 DEF NewPayloadInvalidAncestor, PayloadRefused
<1>10. ASSUME NEW h \in Hash, NewPayloadInvalid(h) PROVE InvalidHeadersSound'
  <2>1. HasProof(h) \in BOOLEAN
    BY DEF HasProof
  <2>. QED  BY <1>2, <1>10, <2>1 DEF NewPayloadInvalid
<1>11. \/ UNCHANGED invalid_headers
       \/ \E h \in Hash : \/ ConnectInvalid(h) \/ OnProof(h) \/ OnFullBlock(h) \/ ForgetInvalidHeader(h)
                          \/ NewPayloadInvalidAncestor(h) \/ NewPayloadInvalid(h)
  BY DEF Next, EngineStep, ClientMessage, vars, treeVars, ConnectValid,
         ConnectDisconnected, ConnectFatal, FinishConnecting, OnUnrecoverableFullBlock,
         OnUnrecoverableFinalizedBlock, OnFinalizedBlock, PollDownloader, ParkedTimeout,
         NewPayloadMalformed, NewPayloadValid, NewPayloadDisconnected, NewPayloadNoProof,
         NewPayloadFatal, FcuRefused, FcuSameHead, FcuNewHead, FcuKnownHead, FcuSyncing,
         ForkchoiceUpdated
<1>. QED  BY <1>1, <1>5, <1>6, <1>7, <1>8, <1>9, <1>10, <1>11

\* The outcomes change only when the downloader is polled and when the engine
\* takes one of them.
LEMMA OutcomesCases ==
    ASSUME [Next]_vars
    PROVE  \/ PollDownloader
           \/ UNCHANGED outcomes
           \/ \E kind \in Kinds, h \in Hash : NextOutcome(kind, h)
  BY DEF Next, EngineStep, ClientMessage, vars, engineVars, ConnectValid,
         ConnectDisconnected, ConnectInvalid, ConnectFatal, NextToConnect, FinishConnecting,
         OnProof, OnFullBlock, OnUnrecoverableFullBlock, OnFinalizedBlock,
         OnUnrecoverableFinalizedBlock, ParkedTimeout, ForgetInvalidHeader, NewPayloadMalformed,
         NewPayloadInvalidAncestor, NewPayloadValid, NewPayloadDisconnected, NewPayloadNoProof,
         NewPayloadInvalid, NewPayloadFatal, NewPayload, NextMessage, FcuRefused, FcuSameHead,
         FcuNewHead, FcuKnownHead, FcuSyncing, ForkchoiceUpdated, Kinds

\* A payload requests no finalized block.
LEMMA PayloadRequests ==
    ASSUME TypeOK, SoundBuffer(block_buffer), NEW h \in Hash,
           \/ NewPayloadMalformed(h) \/ NewPayloadInvalidAncestor(h) \/ NewPayloadValid(h)
           \/ NewPayloadDisconnected(h) \/ NewPayloadNoProof(h)
           \/ NewPayloadInvalid(h) \/ NewPayloadFatal(h)
    PROVE  inflight'.finalized = inflight.finalized
<1>t. inflight \in Downloads
  BY DEF TypeOK
<1>1. CASE NewPayloadDisconnected(h)
  <2>. DEFINE missing == MissingAncestor(WithoutProof(h), h)
              requests == DownloadBlock(inflight, block_buffer', missing)
  <2>1. missing \in Hash \cup {Zero}
    BY RemoveProofSound, LowestBufferedAncestorType, AncestryClosed DEF WithoutProof
  <2>. HIDE DEF missing
  <2>2. requests \in Downloads /\ requests.finalized = inflight.finalized
    BY <1>t, <2>1, RequestsType
  <2>3. inflight' \in {requests, DownloadProof(requests, h)}
    BY <1>1 DEF NewPayloadDisconnected, missing
  <2>. HIDE DEF requests
  <2>. QED  BY <2>2, <2>3, RequestsType
<1>2. CASE NewPayloadNoProof(h)
  BY <1>t, <1>2, RequestsType DEF NewPayloadNoProof
<1>. QED  BY <1>1, <1>2 DEF NewPayloadMalformed, NewPayloadInvalidAncestor, NewPayloadValid,
              NewPayloadInvalid, NewPayloadFatal

\* Finalized blocks are requested by forkchoice updates only.
LEMMA FinalizedRequests ==
    ASSUME TypeOK, SoundBuffer(block_buffer), [Next]_vars
    PROVE  \/ PollDownloader
           \/ \E fcu \in ForkchoiceStates : FcuSyncing(fcu)
           \/ inflight'.finalized = inflight.finalized
<1>t. inflight \in Downloads
  BY DEF TypeOK
<1>1. ASSUME NEW h \in Hash, NEW buf, SoundBuffer(buf), Unlocked(h, buf)
      PROVE  inflight'.finalized = inflight.finalized
  <2>. DEFINE removed == BufferRemoveBlock(buf, h)
  <2>1. SoundBuffer(removed)
    BY <1>1, RemoveBlockSound
  <2>2. MissingAncestor(removed, h) \in Hash \cup {Zero}
    BY <2>1, LowestBufferedAncestorType, AncestryClosed
  <2>. HIDE DEF removed
  <2>3. \/ UNCHANGED inflight
        \/ inflight' = DownloadBlock(inflight, block_buffer', MissingAncestor(removed, h))
    BY <1>1 DEF Unlocked, DownloadedInvalidAncestor, DownloadedInserted, removed
  <2>. DEFINE missing == MissingAncestor(removed, h)
  <2>4. DownloadBlock(inflight, block_buffer', missing).finalized = inflight.finalized
    BY <1>t, <2>2, RequestsType
  <2>. QED  BY <2>3, <2>4
<1>2. ASSUME NEW h \in Hash, OnProof(h) \/ OnFullBlock(h)
      PROVE  inflight'.finalized = inflight.finalized
  BY <1>1, <1>2, InsertProofSound, InsertBlockSound DEF OnProof, OnFullBlock
<1>3. CASE FinishConnecting
  <2>1. caller.hash \in Hash
    BY <1>3 DEF FinishConnecting, TypeOK, Handlers
  <2>2. inflight' \in {inflight, DownloadProof(inflight, caller.hash)}
    BY <1>3 DEF FinishConnecting
  <2>. QED  BY <1>t, <2>1, <2>2, RequestsType
<1>4. ASSUME NEW h \in Hash, NewPayloadDisconnected(h) \/ NewPayloadNoProof(h)
      PROVE  inflight'.finalized = inflight.finalized
  BY <1>4, PayloadRequests
<1>5. \/ UNCHANGED inflight
      \/ PollDownloader
      \/ FinishConnecting
      \/ \E h \in Hash : \/ OnProof(h) \/ OnFullBlock(h)
                         \/ NewPayloadDisconnected(h) \/ NewPayloadNoProof(h)
      \/ \E fcu \in ForkchoiceStates : FcuSyncing(fcu)
  BY DEF Next, EngineStep, ClientMessage, vars, engineVars, ConnectValid,
         ConnectDisconnected, ConnectInvalid, ConnectFatal, NextToConnect,
         OnUnrecoverableFullBlock, OnFinalizedBlock, OnUnrecoverableFinalizedBlock,
         ParkedTimeout, ForgetInvalidHeader, NewPayloadMalformed, NewPayloadInvalidAncestor,
         NewPayloadValid, NewPayloadInvalid, NewPayloadFatal, FcuRefused, FcuSameHead,
         FcuNewHead, FcuKnownHead
<1>. QED  BY <1>2, <1>3, <1>4, <1>5

\* Only blocks that the consensus client named as finalized are downloaded as
\* finalized blocks.
LEMMA FinalizedTrustedStep ==
    ASSUME TypeOK, SoundBuffer(block_buffer), FinalizedTrusted, [Next]_vars
    PROVE  FinalizedTrusted'
<1>. DEFINE trusted == {f \in Hash : ~Tainted(f)}
<1>t. inflight \in Downloads /\ outcomes \in Downloads
  BY DEF TypeOK
<1>h. inflight.finalized \subseteq trusted /\ outcomes.finalized \subseteq trusted
  BY <1>t DEF FinalizedTrusted, Downloads
<1>. SUFFICES inflight'.finalized \subseteq trusted /\ outcomes'.finalized \subseteq trusted
  BY DEF FinalizedTrusted, Tainted
<1>. HIDE DEF trusted
<1>1. outcomes'.finalized \subseteq trusted
  <2>1. CASE PollDownloader
    BY <1>h, <2>1 DEF PollDownloader, Completable
  <2>2. ASSUME NEW kind \in Kinds, NEW h, NextOutcome(kind, h)
        PROVE  outcomes'.finalized \subseteq trusted
    BY <1>h, <1>t, <2>2 DEF NextOutcome, Downloads, Kinds
  <2>3. CASE UNCHANGED outcomes
    BY <1>h, <2>3
  <2>. QED  BY <2>1, <2>2, <2>3, OutcomesCases
<1>2. inflight'.finalized \subseteq trusted
  <2>1. ASSUME NEW fcu \in ForkchoiceStates, FcuSyncing(fcu)
        PROVE  inflight'.finalized \subseteq trusted
    <3>1. inflight' = SyncRequests(fcu) /\ fcu.head # Zero
      BY <2>1 DEF FcuSyncing, Processable
    <3>2. fcu.finalized \in Hash => fcu.finalized \in trusted
      BY TrustedBlocksAssumption DEF trusted
    <3>3. /\ SyncRequests(fcu).finalized \subseteq inflight.finalized \cup {fcu.finalized}
          /\ fcu.finalized \notin Hash => SyncRequests(fcu).finalized = inflight.finalized
      BY <3>1, SyncRequestsType
    <3>. QED  BY <1>h, <3>1, <3>2, <3>3
  <2>2. CASE PollDownloader
    BY <1>h, <2>2 DEF PollDownloader, Kinds
  <2>. QED  BY <1>h, <2>1, <2>2, FinalizedRequests
<1>. QED  BY <1>1, <1>2

\* The inductive invariant of validity.
ValidityInv == TypeOK /\ BufferInv /\ NoInvalidBlockAdmitted /\ InvalidHeadersSound /\ FinalizedTrusted

\* The inductive invariant behind the two validity theorems.
LEMMA ValidityInduction == Spec => []ValidityInv
<1>1. Init => ValidityInv
  <2>. SUFFICES ASSUME Init PROVE NoInvalidBlockAdmitted /\ InvalidHeadersSound /\ FinalizedTrusted
                                  /\ TypeOK /\ BufferInv
    BY DEF ValidityInv
  <2>1. NoInvalidBlockAdmitted
    BY GenesisChainType, TrustedBlocksAssumption DEF Init, TreeInit, ChainInit, NoInvalidBlockAdmitted
  <2>2. InvalidHeadersSound
    BY DEF Init, TreeInit, InvalidHeadersSound
  <2>3. FinalizedTrusted
    BY DEF Init, NoDownloads, FinalizedTrusted
  <2>. QED  BY <2>1, <2>2, <2>3, InitTypeOK, EmptyBufferSound
            DEF Init, TreeInit, BufferInit, BufferInv
<1>2. ValidityInv /\ [Next]_vars => ValidityInv'
  BY TypeStep, BufferStep, StoredBlocksStep, InvalidHeadersStep, FinalizedTrustedStep
     DEF ValidityInv, BufferInv
<1>. QED  BY <1>1, <1>2, PTL DEF Spec

\* Whatever the order in which payloads, blocks and proofs arrive, and however
\* often blocks are buffered, evicted and connected, the engine stores no
\* block that is invalid or has an invalid ancestor, provided that genesis and
\* the blocks the consensus client finalizes are valid.
THEOREM InvalidBlocksNeverAdmitted == Spec => []NoInvalidBlockAdmitted
<1>1. ValidityInv => NoInvalidBlockAdmitted
  BY DEF ValidityInv
<1>. QED  BY <1>1, ValidityInduction, PTL

\* Every entry of the cache of invalid headers names a block that was rejected
\* and from which the block it is stored under descends.
THEOREM InvalidHeadersStaySound == Spec => []InvalidHeadersSound
<1>1. ValidityInv => InvalidHeadersSound
  BY DEF ValidityInv
<1>. QED  BY <1>1, ValidityInduction, PTL

-----------------------------------------------------------------------------
(* The walk of latest_valid_hash_for_invalid_payload.  Its definition is    *)
(* recursive, so it is first shown to have a solution.                      *)

\* What the recursive definition of the walk says, step by step.
WalkEquation(walk, chain, invalid) ==
    walk = [x \in Hash |->
              IF invalid[x] = None
              THEN IF x \in chain.blocks_by_hash THEN x ELSE None
              ELSE IF Parent[invalid[x]] \in Hash THEN walk[Parent[invalid[x]]] ELSE None]

\* The blocks that the walk from x visits: the least set that contains x and
\* where the walk goes on from each of its members.
Jumps(S, invalid) ==
    \A x \in S : invalid[x] # None /\ Parent[invalid[x]] \in Hash => Parent[invalid[x]] \in S
Visited(invalid, x) ==
    {y \in Hash : \A S \in SUBSET Hash : x \in S /\ Jumps(S, invalid) => y \in S}

\* The definition has a solution: the validated block without an entry that the
\* walk visits, if there is one.
LEMMA WalkExists ==
    ASSUME NEW chain, NEW invalid
    PROVE  \E w : WalkEquation(w, chain, invalid)
<1> DEFINE Ends(x) == {y \in Visited(invalid, x) : invalid[y] = None /\ y \in chain.blocks_by_hash}
           walk == [x \in Hash |-> IF Ends(x) = {} THEN None ELSE CHOOSE y \in Ends(x) : TRUE]
<1>1. ASSUME NEW x \in Hash, invalid[x] = None
      PROVE  Ends(x) = IF x \in chain.blocks_by_hash THEN {x} ELSE {}
  <2>1. {x} \in SUBSET Hash /\ x \in {x} /\ Jumps({x}, invalid)
    BY <1>1 DEF Jumps
  <2>2. Visited(invalid, x) = {x}
    BY <2>1 DEF Visited
  <2>. QED  BY <2>2, <1>1
<1>2. ASSUME NEW x \in Hash, invalid[x] # None, Parent[invalid[x]] \notin Hash
      PROVE  Ends(x) = {}
  <2>1. {x} \in SUBSET Hash /\ x \in {x} /\ Jumps({x}, invalid)
    BY <1>2 DEF Jumps
  <2>2. Visited(invalid, x) = {x}
    BY <2>1 DEF Visited
  <2>. QED  BY <2>2, <1>2
<1>3. ASSUME NEW x \in Hash, invalid[x] # None, Parent[invalid[x]] \in Hash
      PROVE  Ends(x) = Ends(Parent[invalid[x]])
  <2> DEFINE p == Parent[invalid[x]]
  <2>1. Visited(invalid, p) \subseteq Visited(invalid, x)
    BY <1>3 DEF Visited, Jumps
  <2>2. ASSUME NEW y \in Visited(invalid, x), y # x
        PROVE  y \in Visited(invalid, p)
    <3>1. SUFFICES ASSUME NEW S \in SUBSET Hash, p \in S, Jumps(S, invalid)
                   PROVE  y \in S
      BY DEF Visited
    <3>2. S \cup {x} \in SUBSET Hash /\ x \in S \cup {x} /\ Jumps(S \cup {x}, invalid)
      BY <3>1 DEF Jumps
    <3>3. y \in S \cup {x}
      BY <3>2 DEF Visited
    <3>. QED  BY <3>3, <2>2
  <2>. QED  BY <2>1, <2>2, <1>3
<1> HIDE DEF Ends
<1>4. ASSUME NEW x \in Hash
      PROVE  walk[x] = IF invalid[x] = None
                       THEN IF x \in chain.blocks_by_hash THEN x ELSE None
                       ELSE IF Parent[invalid[x]] \in Hash THEN walk[Parent[invalid[x]]] ELSE None
  <2>1. CASE invalid[x] = None
    <3>1. CASE x \in chain.blocks_by_hash
      <4>1. Ends(x) = {x}  BY <1>1, <2>1, <3>1
      <4>2. (CHOOSE y \in Ends(x) : TRUE) = x  BY <4>1
      <4>. QED  BY <4>1, <4>2, <2>1, <3>1
    <3>2. CASE x \notin chain.blocks_by_hash
      BY <1>1, <2>1, <3>2
    <3>. QED  BY <3>1, <3>2
  <2>2. CASE invalid[x] # None /\ Parent[invalid[x]] \in Hash
    <3>1. Ends(x) = Ends(Parent[invalid[x]])
      BY <1>3, <2>2
    <3>2. walk[x] = walk[Parent[invalid[x]]]
      BY <3>1, <2>2
    <3> HIDE DEF walk
    <3>. QED  BY <3>2, <2>2
  <2>3. CASE invalid[x] # None /\ Parent[invalid[x]] \notin Hash
    BY <1>2, <2>3
  <2>. QED  BY <2>1, <2>2, <2>3
<1>5. WalkEquation(walk, chain, invalid)
  <2> HIDE DEF walk
  <2>1. walk = [x \in Hash |-> walk[x]]
    BY DEF walk
  <2>. QED  BY <1>4, <2>1 DEF WalkEquation
<1>. QED  BY <1>5

\* latest_valid_hash_for_invalid_payload ends at a validated block, and skips
\* only blocks that descend from a rejected one, or it ends where nothing is known.
LEMMA WalkSound ==
    ASSUME InvalidHeadersSound, invalid_headers \in [Hash -> Hash \cup {None}],
           chain_state.blocks_by_hash \subseteq Hash,
           NEW walk, WalkEquation(walk, chain_state, invalid_headers), NEW p \in Hash
    PROVE  /\ walk[p] # None =>
                 /\ walk[p] \in Ancestry[p] \cap chain_state.blocks_by_hash
                 /\ \A x \in LineAbove(p, Number[walk[p]]) : Ancestry[x] \cap Rejectable # {}
           /\ walk[p] = None =>
                 \/ invalid_headers[p] = None /\ p \notin chain_state.blocks_by_hash
                 \/ \E r \in Ancestry[p] \cap Rejectable : NothingKnownBelow(r)
<1> DEFINE Ended(x) ==
             walk[x] = None =>
                 \/ invalid_headers[x] = None /\ x \notin chain_state.blocks_by_hash
                 \/ \E r \in Ancestry[x] \cap Rejectable : NothingKnownBelow(r)
           Right(x) ==
             /\ Ended(x)
             /\ walk[x] # None =>
                 /\ walk[x] \in Ancestry[x] \cap chain_state.blocks_by_hash
                 /\ \A y \in LineAbove(x, Number[walk[x]]) : Ancestry[y] \cap Rejectable # {}
           Wrong == {x \in Ancestry[p] : ~Right(x)}
<1>1. ASSUME NEW x \in Hash, \A y \in Ancestry[x] \ {x} : Right(y)
      PROVE  Right(x)
  <2>1. CASE invalid_headers[x] = None
    <3>1. walk[x] = IF x \in chain_state.blocks_by_hash THEN x ELSE None
      BY <2>1 DEF WalkEquation
    <3>2. LineAbove(x, Number[x]) = {}
      BY AncestryNumber DEF LineAbove
    <3>3. Ended(x)
      BY <2>1, <3>1, BlocksAssumption
    <3>. QED  BY <3>1, <3>2, <3>3, AncestryClosed
  <2>2. CASE invalid_headers[x] # None
    <3> DEFINE e == invalid_headers[x]
               q == Parent[e]
    <3>1. e \in Ancestry[x] /\ e \in Hash /\ e \in Rejectable
      BY <2>2, VerifierAssumption DEF InvalidHeadersSound, Rejectable
    <3>2. CASE q \notin Hash
      <4>1. walk[x] = None
        BY <2>2, <3>2 DEF WalkEquation
      <4>2. NothingKnownBelow(e)
        BY <3>2 DEF NothingKnownBelow, KnownInvalid
      <4>. QED  BY <3>1, <4>1, <4>2
    <3>3. CASE q \in Hash
      <4>1. walk[x] = walk[q]
        BY <2>2, <3>3 DEF WalkEquation
      <4>2. Ancestry[e] = {e} \cup Ancestry[q] /\ Ancestry[e] \subseteq Ancestry[x]
            /\ q \in Ancestry[q]
        BY <3>1, <3>3, AncestryStep, AncestryTransitive, AncestryClosed
      <4>3. q # x
        <5>1. Number[q] < Number[e] /\ Number[e] <= Number[x]
              /\ Number[e] \in Nat /\ Number[x] \in Nat /\ Number[q] \in Nat
          <6>1. e # Genesis
            BY <3>3, BlocksAssumption
          <6>2. Number[e] = Number[q] + 1 /\ Number[q] \in Nat
            BY <6>1, <3>1, <3>3, BlocksAssumption
          <6>. QED  BY <6>2, <3>1, AncestryNumber
        <5>. QED  BY <5>1
      <4>4. Right(q)
        BY <4>2, <4>3, <1>1
      <4>5. ASSUME walk[x] # None
            PROVE  /\ walk[x] \in Ancestry[x] \cap chain_state.blocks_by_hash
                   /\ \A y \in LineAbove(x, Number[walk[x]]) : Ancestry[y] \cap Rejectable # {}
        <5>1. walk[x] \in Ancestry[x] \cap chain_state.blocks_by_hash
          BY <4>1, <4>2, <4>4, <4>5
        <5>2. ASSUME NEW y \in LineAbove(x, Number[walk[x]])
              PROVE  Ancestry[y] \cap Rejectable # {}
          <6>1. y \in Ancestry[x] /\ Number[y] > Number[walk[x]]
            BY DEF LineAbove
          <6>2. CASE e \in Ancestry[y]
            BY <6>2, <3>1
          <6>3. CASE e \notin Ancestry[y]
            <7>1. y \in Ancestry[e]
              BY <6>1, <6>3, <3>1, AncestryLinear
            <7>2. y # e
              BY <6>3, <3>1, AncestryClosed
            <7>3. y \in LineAbove(q, Number[walk[q]])
              BY <7>1, <7>2, <4>1, <4>2, <6>1 DEF LineAbove
            <7>. QED  BY <7>3, <4>1, <4>4, <4>5
          <6>. QED  BY <6>2, <6>3
        <5>. QED  BY <5>1, <5>2
      <4>6. Ended(x)
        <5>1. SUFFICES ASSUME walk[x] = None
              PROVE  \E r \in Ancestry[x] \cap Rejectable : NothingKnownBelow(r)
          OBVIOUS
        <5>2. CASE invalid_headers[q] = None /\ q \notin chain_state.blocks_by_hash
          BY <3>1, <5>2 DEF NothingKnownBelow, KnownInvalid
        <5>3. CASE \E r \in Ancestry[q] \cap Rejectable : NothingKnownBelow(r)
          BY <4>2, <5>3
        <5>. QED  BY <4>1, <4>4, <5>1, <5>2, <5>3
      <4>. QED  BY <4>5, <4>6
    <3>. QED  BY <3>2, <3>3
  <2>. QED  BY <2>1, <2>2
<1>2. Wrong = {}
  <2>1. SUFFICES ASSUME Wrong # {} PROVE FALSE
    OBVIOUS
  <2> HIDE DEF Right
  <2>2. PICK x \in Wrong : \A y \in Wrong : Number[x] <= Number[y]
    <3>1. Wrong \in SUBSET Ancestry[p]  OBVIOUS
    <3> HIDE DEF Wrong
    <3>. QED  BY <3>1, <2>1, HighestOnWalk
  <2>3. x \in Hash /\ x \in Ancestry[p] /\ Ancestry[x] \subseteq Ancestry[p] /\ ~Right(x)
    BY AncestryTransitive
  <2>4. ASSUME NEW y \in Ancestry[x] \ {x} PROVE Right(y)
    <3>1. Number[y] < Number[x] /\ Number[y] \in Nat /\ Number[x] \in Nat
      BY <2>3, AncestryNumber
    <3>2. y \notin Wrong
      BY <3>1, <2>2
    <3>. QED  BY <3>2, <2>3
  <2>. QED  BY <2>3, <2>4, <1>1
<1>3. Right(p)
  BY <1>2, AncestryClosed
<1>. QED  BY <1>3

\* The answer for a block known to be invalid.
LEMMA LatestValidHashFromCache ==
    ASSUME InvalidHeadersSound, invalid_headers \in [Hash -> Hash \cup {None}],
           chain_state.blocks_by_hash \subseteq Hash
    PROVE  LatestValidHashSound
<1>0. SUFFICES ASSUME NEW h \in Hash, invalid_headers[h] # None
      PROVE  LET v == PrepareInvalidResponse(chain_state, invalid_headers, h)
                 p == Parent[invalid_headers[h]]
             IN  /\ v # Zero => LatestValidAncestor(v, h)
                 /\ v = Zero => \/ p \in chain_state.blocks_by_hash \cap PowBlocks
                                \/ \E r \in Ancestry[h] \cap Rejectable : NothingKnownBelow(r)
  BY DEF LatestValidHashSound, KnownInvalid
<1> DEFINE walk == CHOOSE w : WalkEquation(w, chain_state, invalid_headers)
           e == invalid_headers[h]
           q == Parent[e]
           v == PrepareInvalidResponse(chain_state, invalid_headers, h)
<1>1. WalkEquation(walk, chain_state, invalid_headers)
  BY WalkExists
<1>2. LatestValidHash(chain_state, invalid_headers, q) =
         IF q \notin Hash THEN None
         ELSE IF q \in chain_state.blocks_by_hash THEN q
         ELSE walk[q]
  BY DEF LatestValidHash, WalkEquation
<1>3. LatestValidHash(chain_state, invalid_headers, Zero) = None
  BY BlocksAssumption DEF LatestValidHash
<1> HIDE DEF walk
<1>4. e \in Ancestry[h] /\ e \in Hash /\ e \in Rejectable
  BY <1>0, VerifierAssumption DEF InvalidHeadersSound, Rejectable
<1>5. q \in Hash => /\ Ancestry[e] = {e} \cup Ancestry[q] /\ Ancestry[e] \subseteq Ancestry[h]
                    /\ q \in Ancestry[q]
  BY <1>4, AncestryStep, AncestryTransitive, AncestryClosed
<1>6. q \in Hash => /\ walk[q] # None =>
                          /\ walk[q] \in Ancestry[q] \cap chain_state.blocks_by_hash
                          /\ \A x \in LineAbove(q, Number[walk[q]]) : Ancestry[x] \cap Rejectable # {}
                    /\ walk[q] = None =>
                          \/ invalid_headers[q] = None /\ q \notin chain_state.blocks_by_hash
                          \/ \E r \in Ancestry[q] \cap Rejectable : NothingKnownBelow(r)
  BY <1>1, WalkSound
<1>7. ASSUME v # Zero
      PROVE  LatestValidAncestor(v, h)
  <2>1. v = LatestValidHash(chain_state, invalid_headers, q) /\ v # None
    BY <1>3, <1>7 DEF PrepareInvalidResponse
  <2>2. q \in Hash
    BY <1>2, <2>1
  <2>3. /\ v \in Ancestry[q] \cap chain_state.blocks_by_hash
        /\ \A x \in LineAbove(q, Number[v]) : Ancestry[x] \cap Rejectable # {}
    <3>1. CASE q \in chain_state.blocks_by_hash
      <4>1. v = q
        BY <1>2, <2>1, <2>2, <3>1
      <4>2. LineAbove(q, Number[q]) = {}
        BY <2>2, AncestryNumber DEF LineAbove
      <4>. QED  BY <4>1, <4>2, <1>5, <2>2, <3>1
    <3>2. CASE q \notin chain_state.blocks_by_hash
      <4>1. v = walk[q]
        BY <1>2, <2>1, <2>2, <3>2
      <4> HIDE DEF v, q
      <4>. QED  BY <4>1, <2>1, <2>2, <1>6
    <3>. QED  BY <3>1, <3>2
  <2>4. ASSUME NEW x \in LineAbove(h, Number[v])
        PROVE  Ancestry[x] \cap Rejectable # {}
    <3>1. x \in Ancestry[h] /\ Number[x] > Number[v]
      BY DEF LineAbove
    <3>2. CASE e \in Ancestry[x]
      BY <3>2, <1>4
    <3>3. CASE e \notin Ancestry[x]
      <4>1. x \in Ancestry[e] /\ x # e
        BY <3>1, <3>3, <1>4, AncestryLinear, AncestryClosed
      <4>2. x \in LineAbove(q, Number[v])
        BY <4>1, <1>5, <2>2, <3>1 DEF LineAbove
      <4>. QED  BY <4>2, <2>3
    <3>. QED  BY <3>2, <3>3
  <2>5. v \in Ancestry[h] \cap chain_state.blocks_by_hash
    BY <1>5, <2>2, <2>3
  <2> HIDE DEF v
  <2>. QED  BY <2>4, <2>5 DEF LatestValidAncestor
<1>8. ASSUME v = Zero, q \notin chain_state.blocks_by_hash \cap PowBlocks
      PROVE  \E r \in Ancestry[h] \cap Rejectable : NothingKnownBelow(r)
  <2> DEFINE valid == LatestValidHash(chain_state, invalid_headers, q)
  <2>1. valid = None \/ valid = Zero
    BY <1>8 DEF PrepareInvalidResponse
  <2> HIDE DEF v, valid
  <2>2. CASE q \notin Hash
    <3>1. NothingKnownBelow(e)
      BY <2>2 DEF NothingKnownBelow, KnownInvalid
    <3>. QED  BY <1>4, <3>1
  <2>3. CASE q \in Hash
    <3>1. valid = IF q \in chain_state.blocks_by_hash THEN q ELSE walk[q]
      BY <1>2, <2>3 DEF valid
    <3>2. q \notin chain_state.blocks_by_hash
      BY <2>1, <2>3, <3>1, BlocksAssumption
    <3>3. walk[q] = None
      <4>1. walk[q] # None => walk[q] \in Hash
        BY <1>6, <2>3
      <4>. QED  BY <2>1, <3>1, <3>2, <4>1, BlocksAssumption
    <3>4. CASE invalid_headers[q] = None
      <4>1. NothingKnownBelow(e)
        BY <3>2, <3>4 DEF NothingKnownBelow, KnownInvalid
      <4>. QED  BY <1>4, <4>1
    <3>5. CASE \E r \in Ancestry[q] \cap Rejectable : NothingKnownBelow(r)
      BY <1>5, <2>3, <3>5
    <3>. QED  BY <1>6, <2>3, <3>3, <3>4, <3>5
  <2>. QED  BY <2>2, <2>3
<1>. QED  BY <1>7, <1>8

\* Whatever entries were noted, forgotten and noted again, the latest valid hash
\* reported for a block known to be invalid is that of a validated ancestor, and
\* the blocks in between descend from a rejected one.
THEOREM LatestValidHashStaysSound == Spec => []LatestValidHashSound
<1>1. ValidityInv => LatestValidHashSound
  BY LatestValidHashFromCache DEF ValidityInv, TypeOK, Chains
<1>. QED  BY <1>1, ValidityInduction, PTL
-----------------------------------------------------------------------------
(* Ready blocks.  A block that is buffered with its proof, or that the     *)
(* loop of try_connect_buffered_blocks still has to insert, is not in the  *)
(* chain, and it does not stay in the buffer when its parent is.           *)

\* The blocks that are ready to be inserted as far as the buffer knows.
Ready(buf) == buf.blocks \cap buf.proofs

\* The inductive invariant: besides the property, the blocks of the loop have
\* left the buffer, and there are none when no handler runs the loop.
ReadyInv ==
    /\ ReadyBlocksNotStored
    /\ connecting \cap block_buffer.blocks = {}
    /\ caller = None => connecting = {}

-----------------------------------------------------------------------------
(* What the updates of the buffer do to blocks and proofs.                 *)

\* LinkBlock (insert_block after the eviction) adds the block and no proof.
LEMMA LinkBlockReady ==
    ASSUME NEW buf \in Buffers, NEW h \in Hash
    PROVE  LinkBlock(buf, h).blocks = buf.blocks \cup {h} /\ LinkBlock(buf, h).proofs = buf.proofs
  BY DEF LinkBlock, Buffers

\* insert_block adds the block and no proof.
LEMMA InsertBlockReady ==
    ASSUME NEW buf \in Buffers, NEW h \in Hash
    PROVE  /\ BufferInsertBlock(buf, h).blocks \subseteq buf.blocks \cup {h}
           /\ BufferInsertBlock(buf, h).proofs \subseteq buf.proofs
<1>. DEFINE d == Drop(buf, Evicted(buf.lru, h))
<1>1. d \in Buffers /\ d.blocks \subseteq buf.blocks /\ d.proofs \subseteq buf.proofs
  BY DropFields
<1>. HIDE DEF d
<1>2. LinkBlock(d, h).blocks = d.blocks \cup {h} /\ LinkBlock(d, h).proofs = d.proofs
  BY <1>1, LinkBlockReady
<1>. QED  BY <1>1, <1>2 DEF BufferInsertBlock, d

\* insert_proof adds the proof and no block, remove_proof takes it out.
LEMMA ProofReady ==
    ASSUME NEW buf \in Buffers, NEW h \in Hash
    PROVE  /\ BufferInsertProof(buf, h).blocks = buf.blocks
           /\ BufferInsertProof(buf, h).proofs = buf.proofs \cup {h}
           /\ BufferRemoveProof(buf, h).blocks = buf.blocks
           /\ BufferRemoveProof(buf, h).proofs = buf.proofs \ {h}
  BY DEF Buffers, BufferInsertProof, BufferRemoveProof

\* remove_block takes the block out when it is ready.
LEMMA RemoveBlockReady ==
    ASSUME NEW buf \in Buffers, NEW h
    PROVE  /\ BufferRemoveBlock(buf, h).blocks \subseteq buf.blocks
           /\ Ready(BufferRemoveBlock(buf, h)) \subseteq Ready(buf) \ {h}
<1>1. CASE Removable(buf, h)
  BY <1>1, DropFields DEF BufferRemoveBlock, Ready
<1>2. CASE ~Removable(buf, h)
  BY <1>2 DEF BufferRemoveBlock, Removable, Ready
<1>. QED  BY <1>1, <1>2

\* remove_block_with_children takes out of the buffer what it returns, and
\* returns ready blocks only.
LEMMA RemoveBlockWithChildrenReady ==
    ASSUME NEW buf \in Buffers, NEW h
    PROVE  /\ BufferRemoveBlockWithChildren(buf, h).blocks = buf.blocks \ RemovedWithChildren(buf, h)
           /\ Ready(BufferRemoveBlockWithChildren(buf, h)) \subseteq Ready(buf)
           /\ RemovedWithChildren(buf, h) \subseteq Ready(buf)
<1>. DEFINE S == RemovedWithChildren(buf, h)
            d == Drop(buf, S)
<1>1. S \subseteq Ready(buf)
  BY DEF RemovedWithChildren, Removable, Ready
<1>. HIDE DEF S
<1>2. d \in Buffers /\ d.blocks = buf.blocks \ S /\ d.proofs = buf.proofs \ S
  BY DropFields
<1>. HIDE DEF d
<1>3. \A U : Unlink(d, U).blocks = d.blocks /\ Unlink(d, U).proofs = d.proofs
  BY <1>2, UnlinkFields
<1>. QED  BY <1>1, <1>2, <1>3 DEF BufferRemoveBlockWithChildren, Ready, S, d

\* evict_old_blocks adds nothing.
LEMMA EvictOldBlocksReady ==
    ASSUME NEW buf \in Buffers, NEW n
    PROVE  /\ BufferEvictOldBlocks(buf, n).blocks \subseteq buf.blocks
           /\ Ready(BufferEvictOldBlocks(buf, n)) \subseteq Ready(buf)
<1>1. ASSUME NEW b \in Buffers, NEW S, NEW U
      PROVE  /\ Unlink(Drop(b, S), U).blocks \subseteq b.blocks
             /\ Unlink(Drop(b, S), U).proofs \subseteq b.proofs
  <2>. DEFINE d == Drop(b, S)
  <2>1. d \in Buffers /\ d.blocks \subseteq b.blocks /\ d.proofs \subseteq b.proofs
    BY DropFields
  <2>. HIDE DEF d
  <2>. QED  BY <2>1, UnlinkFields DEF d
<1>. DEFINE old  == UNION {buf.earliest_blocks[m] : m \in {k \in Heights : k <= n}}
            buf1 == Drop(buf, old)
<1>2. buf1 \in Buffers /\ buf1.blocks \subseteq buf.blocks /\ buf1.proofs \subseteq buf.proofs
  BY DropFields
<1>. DEFINE below == UNION {Reached(buf1.parent_to_child, p) : p \in old}
<1>3. BufferEvictOldBlocks(buf, n) = Unlink(Drop(buf1, below), old \cup below)
  BY DEF BufferEvictOldBlocks
<1>. HIDE DEF old, buf1, below
<1>. QED  BY <1>1, <1>2, <1>3 DEF Ready

\* Buffering a disconnected block makes no other block ready, and not even
\* that one when it comes without a proof.
LEMMA BufferDisconnectedReady ==
    ASSUME NEW buf \in Buffers, NEW h \in Hash, NEW has_proof \in BOOLEAN
    PROVE  /\ BufferDisconnected(buf, h, has_proof).blocks \subseteq buf.blocks \cup {h}
           /\ Ready(BufferDisconnected(buf, h, has_proof)) \subseteq Ready(buf) \cup {h}
<1>. DEFINE b == IF has_proof THEN BufferInsertProof(buf, h) ELSE buf
<1>1. b \in Buffers
  BY DEF Buffers, BufferInsertProof
<1>2. b.blocks = buf.blocks /\ b.proofs \subseteq buf.proofs \cup {h}
  BY ProofReady
<1>. HIDE DEF b
<1>. QED  BY <1>1, <1>2, InsertBlockReady DEF BufferDisconnected, Ready, b

-----------------------------------------------------------------------------
(* The steps of the engine.                                                *)

\* What is claimed of the next state.
ReadyStored ==
    /\ (connecting' \cup Ready(block_buffer')) \cap chain_state'.blocks_by_hash = {}
    /\ connecting' \cap block_buffer'.blocks = {}
    /\ caller' = None => connecting' = {}

\* The rest of on_download_outcome keeps the invariant when it starts from a
\* buffer in which h is the only block that may have become ready.
LEMMA UnlockedReady ==
    ASSUME TypeOK, ReadyInv, caller = None, NEW h \in Hash, NEW buf \in Buffers,
           Ready(buf) \subseteq Ready(block_buffer) \cup {h}, Unlocked(h, buf)
    PROVE  ReadyStored
<1>. DEFINE V == chain_state.blocks_by_hash
<1>1. connecting = {} /\ Ready(block_buffer) \cap V = {} /\ chain_state \in Chains
  BY DEF ReadyInv, ReadyBlocksNotStored, Ready, TypeOK
<1>2. CASE ~Removable(buf, h) /\ block_buffer' = buf /\ UNCHANGED <<chain_state, caller, connecting>>
  <2>1. Ready(buf) \subseteq Ready(block_buffer)
    BY <1>2 DEF Removable, Ready
  <2>. QED  BY <1>1, <1>2, <2>1 DEF ReadyStored
<1>. DEFINE b == BufferRemoveBlock(buf, h)
<1>3. Ready(b) \subseteq Ready(block_buffer) /\ h \notin Ready(b)
  BY RemoveBlockReady
<1>4. b \in Buffers
  BY DropFields DEF BufferRemoveBlock
<1>. HIDE DEF b
<1>5. CASE DownloadedInvalidAncestor(h, b)
  BY <1>1, <1>3, <1>5 DEF DownloadedInvalidAncestor, ReadyStored
<1>6. CASE DownloadedInserted(h, b)
  <2>1. CASE /\ chain_state' = ChainInsertBlock(chain_state, h, TRUE)
             /\ StartConnecting(b, h, [message |-> "download", hash |-> h, has_proof |-> TRUE])
    <3>1. chain_state'.blocks_by_hash = V \cup {h}
      BY <1>1, <2>1, ChainInsertBlockType
    <3>2. /\ connecting' \subseteq Ready(b)
          /\ Ready(block_buffer') \subseteq Ready(b)
          /\ connecting' \cap block_buffer'.blocks = {}
      BY <1>4, <2>1, RemoveBlockWithChildrenReady DEF StartConnecting
    <3>3. caller' # None
      <4>1. caller' \in Handlers
        BY <2>1 DEF StartConnecting, Handlers
      <4>. QED  BY <4>1, NoneAssumption
    <3>. QED  BY <1>1, <1>3, <3>1, <3>2, <3>3 DEF ReadyStored
  <2>2. CASE block_buffer' = b /\ UNCHANGED <<chain_state, caller, connecting>>
    BY <1>1, <1>3, <2>2 DEF ReadyStored
  <2>3. CASE /\ "Disconnected" \in InsertResults(chain_state, h, TRUE)
             /\ block_buffer' = BufferDisconnected(b, h, TRUE)
             /\ UNCHANGED <<chain_state, caller, connecting>>
    <3>1. h \notin V
      BY <2>3 DEF InsertResults
    <3>2. Ready(block_buffer') \subseteq Ready(b) \cup {h}
      BY <1>4, <2>3, BufferDisconnectedReady
    <3>. QED  BY <1>1, <1>3, <2>3, <3>1, <3>2 DEF ReadyStored
  <2>. QED  BY <1>6, <2>1, <2>2, <2>3 DEF DownloadedInserted
<1>. QED  BY <1>2, <1>5, <1>6 DEF Unlocked, b

\* Every step of the engine keeps the invariant.
LEMMA ReadyStep ==
    ASSUME TypeOK, SoundBuffer(block_buffer), ReadyInv, [Next]_vars
    PROVE  ReadyInv'
<1>. DEFINE V == chain_state.blocks_by_hash
<1>. SUFFICES ReadyStored
  BY DEF ReadyStored, ReadyInv, ReadyBlocksNotStored, Ready
<1>t. /\ chain_state \in Chains
      /\ block_buffer \in Buffers
      /\ canonical_head \in Hash
      /\ caller \in Handlers \cup {None}
  BY DEF TypeOK
<1>r. /\ connecting \cap V = {}
      /\ Ready(block_buffer) \cap V = {}
      /\ connecting \cap block_buffer.blocks = {}
      /\ caller = None => connecting = {}
  BY DEF ReadyInv, ReadyBlocksNotStored, Ready
<1>b. Ready(block_buffer) \subseteq block_buffer.blocks
  BY DEF Ready
<1>1. CASE UNCHANGED <<chain_state, block_buffer, connecting, caller>>
  BY <1>1, <1>r DEF ReadyStored
<1>2. ASSUME NEW h \in Hash, ConnectValid(h) PROVE ReadyStored
  <2>. DEFINE inserted == ChainInsertBlock(chain_state, h, TRUE)
  <2>1. inserted \in Chains /\ inserted.blocks_by_hash = V \cup {h}
    BY <1>t, ChainInsertBlockType
  <2>. HIDE DEF inserted
  <2>2. chain_state'.blocks_by_hash = V \cup {h}
    <3>1. ChainAfter(inserted, canonical_head, h).blocks_by_hash = V \cup {h}
      BY <1>t, <2>1, HeadAfterType
    <3>. QED  BY <1>2, <2>1, <3>1 DEF ConnectValid, inserted
  <2>3. h \in connecting /\ connecting' = connecting \ {h} /\ UNCHANGED <<block_buffer, caller>>
    BY <1>2 DEF ConnectValid, NextToConnect
  <2>. QED  BY <1>b, <1>r, <2>2, <2>3 DEF ReadyStored
<1>3. ASSUME NEW h \in Hash, ConnectDisconnected(h) PROVE ReadyStored
  <2>1. /\ h \notin V /\ h \in connecting
        /\ connecting' = connecting \ {h} /\ UNCHANGED <<chain_state, caller>>
    BY <1>3 DEF ConnectDisconnected, NextToConnect, InsertResults
  <2>2. /\ block_buffer'.blocks \subseteq block_buffer.blocks \cup {h}
        /\ Ready(block_buffer') \subseteq Ready(block_buffer) \cup {h}
    BY <1>3, <1>t, BufferDisconnectedReady DEF ConnectDisconnected
  <2>. QED  BY <1>r, <2>1, <2>2 DEF ReadyStored
<1>4. ASSUME NEW h \in Hash, ConnectInvalid(h) \/ ConnectFatal(h) PROVE ReadyStored
  <2>1. /\ UNCHANGED <<block_buffer, chain_state>>
        /\ \/ connecting' = connecting \ {h} /\ UNCHANGED caller
           \/ connecting' = {}
    BY <1>4 DEF ConnectInvalid, ConnectFatal
  <2>. QED  BY <1>r, <2>1 DEF ReadyStored
<1>5. CASE FinishConnecting
  <2>1. caller.hash \in Hash
    BY <1>5, <1>t DEF FinishConnecting, Handlers
  <2>2. chain_state'.blocks_by_hash = V
    <3>1. ChainAfter(chain_state, canonical_head, caller.hash).blocks_by_hash = V
      BY <1>t, <2>1, HeadAfterType
    <3>. QED  BY <1>5, <3>1 DEF FinishConnecting
  <2>3. connecting' = {} /\ UNCHANGED block_buffer
    BY <1>5 DEF FinishConnecting
  <2>. QED  BY <1>r, <2>2, <2>3 DEF ReadyStored
<1>6. ASSUME NEW h \in Hash, OnProof(h) PROVE ReadyStored
  <2>. DEFINE buf == BufferInsertProof(block_buffer, h)
  <2>1. buf \in Buffers
    BY InsertProofSound DEF SoundBuffer
  <2>2. Ready(buf) \subseteq Ready(block_buffer) \cup {h}
    BY <1>t, ProofReady DEF Ready
  <2>. HIDE DEF buf
  <2>3. caller = None /\ Unlocked(h, buf)
    BY <1>6 DEF OnProof, NextOutcome, Awake, buf
  <2>. QED  BY <2>1, <2>2, <2>3, UnlockedReady
<1>7. ASSUME NEW h \in Hash, OnFullBlock(h) PROVE ReadyStored
  <2>. DEFINE buf == BufferInsertBlock(block_buffer, h)
  <2>1. buf \in Buffers
    BY InsertBlockSound DEF SoundBuffer
  <2>2. Ready(buf) \subseteq Ready(block_buffer) \cup {h}
    BY <1>t, InsertBlockReady DEF Ready
  <2>. HIDE DEF buf
  <2>3. caller = None /\ Unlocked(h, buf)
    BY <1>7 DEF OnFullBlock, NextOutcome, Awake, buf
  <2>. QED  BY <2>1, <2>2, <2>3, UnlockedReady
<1>8. ASSUME NEW f \in Hash, OnFinalizedBlock(f) PROVE ReadyStored
  <2>. DEFINE marked == InsertCanonicalHashes(chain_state, {f} \cup FinalizedAncestors(f))
  <2>1. {f} \cup FinalizedAncestors(f) \in SUBSET Hash
    BY AncestryClosed DEF FinalizedAncestors
  <2>2. marked \in Chains /\ marked.blocks_by_hash = V
    BY <1>t, <2>1, OnChainUpdateType DEF InsertCanonicalHashes
  <2>. HIDE DEF marked
  <2>3. chain_state'.blocks_by_hash = V \cup {f}
    BY <1>8, <2>2, ChainInsertBlockType DEF OnFinalizedBlock, marked
  <2>4. Ready(block_buffer') \subseteq Ready(block_buffer) \ {f}
    BY <1>8, <1>t, RemoveBlockReady DEF OnFinalizedBlock
  <2>5. connecting' = {}
    BY <1>8, <1>r DEF OnFinalizedBlock, NextOutcome, Awake
  <2>. QED  BY <1>r, <2>3, <2>4, <2>5 DEF ReadyStored
<1>9. ASSUME NEW h \in Hash,
             NewPayloadMalformed(h) \/ NewPayloadInvalidAncestor(h) \/ NewPayloadValid(h)
             \/ NewPayloadDisconnected(h) \/ NewPayloadNoProof(h)
             \/ NewPayloadInvalid(h) \/ NewPayloadFatal(h)
      PROVE  ReadyStored
  <2>. DEFINE buf == WithoutProof(h)
  <2>1. /\ buf \in Buffers
        /\ buf.blocks = block_buffer.blocks
        /\ buf.proofs = block_buffer.proofs \ {h}
    BY <1>t, RemoveProofSound, ProofReady DEF WithoutProof, SoundBuffer
  <2>2. Ready(buf) \subseteq Ready(block_buffer) \ {h}
    BY <2>1 DEF Ready
  <2>. HIDE DEF buf
  <2>3. connecting = {}
    BY <1>9, <1>r DEF NewPayloadMalformed, NewPayloadInvalidAncestor, NewPayloadValid,
         NewPayloadDisconnected, NewPayloadNoProof, NewPayloadInvalid, NewPayloadFatal,
         NewPayload, NextMessage, Awake
  <2>4. CASE NewPayloadMalformed(h) \/ NewPayloadInvalidAncestor(h)
             \/ NewPayloadInvalid(h) \/ NewPayloadFatal(h)
    <3>1. block_buffer' = buf /\ UNCHANGED <<chain_state, caller, connecting>>
      BY <2>4 DEF NewPayloadMalformed, NewPayloadInvalidAncestor, NewPayloadInvalid,
           NewPayloadFatal, buf
    <3>. QED  BY <1>r, <2>2, <2>3, <3>1 DEF ReadyStored
  <2>5. CASE NewPayloadValid(h)
    <3>1. chain_state'.blocks_by_hash \subseteq V \cup {h}
      BY <1>t, <2>5, ChainInsertBlockType DEF NewPayloadValid
    <3>2. /\ connecting' = RemovedWithChildren(buf, h)
          /\ block_buffer' = BufferRemoveBlockWithChildren(buf, h)
          /\ caller' = [message |-> "payload", hash |-> h, has_proof |-> HasProof(h)]
      BY <2>5 DEF NewPayloadValid, StartConnecting, buf
    <3>3. /\ connecting' \subseteq Ready(buf)
          /\ Ready(block_buffer') \subseteq Ready(buf)
          /\ connecting' \cap block_buffer'.blocks = {}
      BY <2>1, <3>2, RemoveBlockWithChildrenReady
    <3>4. caller' # None
      <4>1. caller' \in Handlers
        BY <3>2 DEF Handlers, HasProof
      <4>. QED  BY <4>1, NoneAssumption
    <3>. QED  BY <1>r, <2>2, <3>1, <3>3, <3>4 DEF ReadyStored
  <2>6. CASE NewPayloadDisconnected(h)
    <3>1. h \notin V /\ UNCHANGED <<chain_state, caller, connecting>>
      BY <2>6 DEF NewPayloadDisconnected, InsertResults
    <3>2. Ready(block_buffer') \subseteq Ready(buf) \cup {h}
      <4>1. HasProof(h) \in BOOLEAN
        BY DEF HasProof
      <4>. QED  BY <2>1, <2>6, <4>1, BufferDisconnectedReady DEF NewPayloadDisconnected, buf
    <3>. QED  BY <1>r, <2>2, <2>3, <3>1, <3>2 DEF ReadyStored
  <2>7. CASE NewPayloadNoProof(h)
    <3>1. block_buffer' = BufferInsertBlock(buf, h) /\ UNCHANGED <<chain_state, caller, connecting>>
      BY <2>7 DEF NewPayloadNoProof, buf
    <3>2. /\ block_buffer'.blocks \subseteq buf.blocks \cup {h}
          /\ block_buffer'.proofs \subseteq buf.proofs
      BY <2>1, <3>1, InsertBlockReady
    <3>3. Ready(block_buffer') \subseteq Ready(block_buffer)
      BY <2>1, <3>2 DEF Ready
    <3>. QED  BY <1>r, <2>3, <3>1, <3>3 DEF ReadyStored
  <2>. QED  BY <1>9, <2>4, <2>5, <2>6, <2>7
<1>10. ASSUME NEW fcu \in ForkchoiceStates, FcuNewHead(fcu) PROVE ReadyStored
  <2>. DEFINE updated == CanonicalChainUpdate(chain_state, canonical_head, fcu.head)
  <2>1. fcu.head \in Hash
    BY <1>10, <1>t DEF FcuNewHead, HasNewHead, Chains
  <2>2. updated \in Chains /\ updated.blocks_by_hash = V
    BY <1>10, <1>t, <2>1, MakeCanonicalType DEF FcuNewHead
  <2>. HIDE DEF updated
  <2>3. chain_state'.blocks_by_hash \subseteq V
    <3>1. chain_state' = updated \/ chain_state' = RemoveBlocksOnFinalized(updated, fcu.finalized)
      BY <1>10 DEF FcuNewHead, updated
    <3>. QED  BY <2>2, <3>1, RemoveBlocksType
  <2>4. Ready(block_buffer') \subseteq Ready(block_buffer)
    <3>1. \/ block_buffer' = block_buffer
          \/ block_buffer' = BufferEvictOldBlocks(block_buffer, Number[fcu.finalized])
      BY <1>10 DEF FcuNewHead
    <3>. QED  BY <1>t, <3>1, EvictOldBlocksReady
  <2>5. connecting' = {}
    BY <1>10, <1>r DEF FcuNewHead, ForkchoiceUpdated, NextMessage, Awake
  <2>. QED  BY <1>r, <2>3, <2>4, <2>5 DEF ReadyStored
<1>11. CASE UNCHANGED vars
  BY <1>1, <1>11 DEF vars, treeVars, engineVars
<1>12. ASSUME NEW h \in Hash,
              OnUnrecoverableFullBlock(h) \/ OnUnrecoverableFinalizedBlock(h)
              \/ ForgetInvalidHeader(h)
       PROVE  ReadyStored
  BY <1>1, <1>12
     DEF OnUnrecoverableFullBlock, OnUnrecoverableFinalizedBlock, ForgetInvalidHeader, treeVars
<1>13. CASE PollDownloader \/ ParkedTimeout
  BY <1>1, <1>13 DEF PollDownloader, ParkedTimeout, treeVars
<1>14. ASSUME NEW fcu \in ForkchoiceStates,
              FcuRefused(fcu) \/ FcuSameHead(fcu) \/ FcuKnownHead(fcu) \/ FcuSyncing(fcu)
       PROVE  ReadyStored
  BY <1>1, <1>14 DEF FcuRefused, FcuSameHead, FcuKnownHead, FcuSyncing, ForkchoiceUpdated
<1>. QED
  BY <1>2, <1>3, <1>4, <1>5, <1>6, <1>7, <1>8, <1>9, <1>10, <1>11, <1>12, <1>13, <1>14
     DEF Next, EngineStep, ClientMessage

-----------------------------------------------------------------------------
(* The theorem.                                                            *)

\* The invariant holds in every state.
LEMMA ReadyInduction == Spec => []ReadyInv
<1>1. Init => ReadyInv
  <2>1. ASSUME Init
        PROVE  connecting = {} /\ block_buffer.blocks = {}
    BY <2>1 DEF Init, TreeInit, BufferInit, EmptyBuffer
  <2>. QED  BY <2>1 DEF ReadyInv, ReadyBlocksNotStored
<1>2. TypeOK /\ BufferInv /\ ReadyInv /\ [Next]_vars => ReadyInv'
  BY ReadyStep DEF BufferInv
<1>. QED  BY <1>1, <1>2, EngineTypeCorrect, EngineBufferInduction, PTL DEF Spec

\* The engine never holds a validated block for insertion: no order of
\* payloads, duplicate downloads and finalized blocks leaves a block of the
\* chain in the buffer with its proof, or in the loop of
\* try_connect_buffered_blocks, so insert_block never meets one there.
THEOREM ReadyBlocksNeverStored == Spec => []ReadyBlocksNotStored
<1>1. ReadyInv => ReadyBlocksNotStored
  BY DEF ReadyInv
<1>. QED  BY <1>1, ReadyInduction, PTL

-----------------------------------------------------------------------------
(* No ready block is left behind in the buffer.                            *)

\* try_connect_buffered_blocks finds the block c below its parent.
Linked(buf, c) == c \in buf.parent_to_child[Parent[c]]
ReadyLinked(buf) == \A c \in Ready(buf) : Linked(buf, c)

\* The parents of the ready blocks are not in S.
ReadyAwait(buf, S) == \A c \in Ready(buf) : Parent[c] \notin S

\* The inductive invariant: the loop will find every ready block from its
\* parent, and the parent is neither validated nor about to be.
StrandInv ==
    /\ ReadyLinked(block_buffer)
    /\ ReadyAwait(block_buffer, chain_state.blocks_by_hash \cup connecting)

\* on_downloaded_finalized_block stores its block without looking for
\* children in the buffer.  The hypothesis of the theorem: no block that is
\* ready by then is a child of it.
NoReadyChild(f) == \A c \in Ready(block_buffer) : Parent[c] # f
FinalizedBeforeChildren == [][\A f \in Hash : OnFinalizedBlock(f) => NoReadyChild(f)]_vars

\* Taking blocks out of the buffer leaves the links of the others.
LEMMA DropLinked ==
    ASSUME NEW buf \in Buffers, NEW S, NEW c \in Hash \ S, Linked(buf, c)
    PROVE  Linked(Drop(buf, S), c)
<1>1. Parent[c] \in Hash \cup {Zero}
  BY BlocksAssumption
<1>. QED  BY <1>1, DropFields DEF Linked

\* LinkBlock links the block, and leaves the links of the others.
LEMMA LinkBlockLinks ==
    ASSUME NEW buf \in Buffers, NEW h \in Hash
    PROVE  LinkBlock(buf, h).parent_to_child =
               [buf.parent_to_child EXCEPT ![Parent[h]] = @ \cup {h}]
  BY BlocksAssumption DEF LinkBlock, Buffers

LEMMA LinkBlockLinked ==
    ASSUME NEW buf \in Buffers, NEW h \in Hash, \A c \in Ready(buf) \ {h} : Linked(buf, c)
    PROVE  ReadyLinked(LinkBlock(buf, h))
<1>. DEFINE b == LinkBlock(buf, h)
<1>1. b.blocks = buf.blocks \cup {h} /\ b.proofs = buf.proofs
  BY LinkBlockReady
<1>2. b.parent_to_child = [buf.parent_to_child EXCEPT ![Parent[h]] = @ \cup {h}]
  BY LinkBlockLinks
<1>3. /\ buf.parent_to_child \in [Hash \cup {Zero} -> SUBSET Hash]
      /\ buf.blocks \subseteq Hash
      /\ Parent \in [Hash -> Hash \cup {Zero}]
  BY BlocksAssumption DEF Buffers
<1>. HIDE DEF b
<1>4. ASSUME NEW c \in Ready(b) PROVE c \in b.parent_to_child[Parent[c]]
  BY <1>1, <1>2, <1>3 DEF Ready, Linked
<1>. QED  BY <1>4 DEF ReadyLinked, Linked, b

\* So does insert_block, which may drop one block before.
LEMMA InsertBlockLinked ==
    ASSUME NEW buf \in Buffers, NEW h \in Hash, \A c \in Ready(buf) \ {h} : Linked(buf, c)
    PROVE  ReadyLinked(BufferInsertBlock(buf, h))
<1>. DEFINE evicted == Evicted(buf.lru, h)
            d == Drop(buf, evicted)
<1>1. d \in Buffers /\ d.blocks = buf.blocks \ evicted /\ d.proofs = buf.proofs \ evicted
  BY DropFields
<1>2. Ready(buf) \subseteq Hash
  BY DEF Ready, Buffers
<1>. HIDE DEF evicted
<1>3. \A c \in Ready(buf) \ ({h} \cup evicted) : Linked(d, c)
  BY <1>2, DropLinked
<1>. HIDE DEF d
<1>4. \A c \in Ready(d) \ {h} : Linked(d, c)
  BY <1>1, <1>3 DEF Ready
<1>. QED  BY <1>1, <1>4, LinkBlockLinked DEF BufferInsertBlock, d, evicted

\* Nor does buffering a disconnected block leave a ready block without a link.
LEMMA BufferDisconnectedLinked ==
    ASSUME NEW buf \in Buffers, NEW h \in Hash, NEW has_proof \in BOOLEAN, ReadyLinked(buf)
    PROVE  ReadyLinked(BufferDisconnected(buf, h, has_proof))
<1>. DEFINE b == IF has_proof THEN BufferInsertProof(buf, h) ELSE buf
<1>1. b \in Buffers /\ b.parent_to_child = buf.parent_to_child
  BY DEF Buffers, BufferInsertProof
<1>2. Ready(b) \subseteq Ready(buf) \cup {h}
  BY ProofReady DEF Ready
<1>. HIDE DEF b
<1>3. \A c \in Ready(b) \ {h} : Linked(b, c)
  BY <1>1, <1>2 DEF ReadyLinked, Linked
<1>. QED  BY <1>1, <1>3, InsertBlockLinked DEF BufferDisconnected, b

\* remove_block leaves the links of the others.
LEMMA RemoveBlockLinked ==
    ASSUME NEW buf \in Buffers, NEW h, \A c \in Ready(buf) \ {h} : Linked(buf, c)
    PROVE  ReadyLinked(BufferRemoveBlock(buf, h))
<1>1. CASE Removable(buf, h)
  <2>. DEFINE d == Drop(buf, {h})
  <2>0. d.blocks = buf.blocks \ {h} /\ d.proofs = buf.proofs \ {h}
    BY DropFields
  <2>. HIDE DEF d
  <2>1. Ready(d) = Ready(buf) \ {h} /\ Ready(buf) \subseteq Hash
    BY <2>0 DEF Ready, Buffers
  <2>. QED  BY <1>1, <2>1, DropLinked DEF BufferRemoveBlock, ReadyLinked, d
<1>2. CASE ~Removable(buf, h)
  BY <1>2 DEF BufferRemoveBlock, Removable, Ready, ReadyLinked
<1>. QED  BY <1>1, <1>2

\* remove_block_with_children takes the links of the blocks it visits away,
\* and no ready block needs them any more: it takes those as well.
LEMMA RemoveBlockWithChildrenLinked ==
    ASSUME NEW buf \in Buffers, NEW p \in Hash, ReadyLinked(buf)
    PROVE  /\ ReadyLinked(BufferRemoveBlockWithChildren(buf, p))
           /\ ReadyAwait(BufferRemoveBlockWithChildren(buf, p), {p} \cup RemovedWithChildren(buf, p))
<1>. DEFINE S == RemovedWithChildren(buf, p)
            U == {p} \cup Reached(buf.parent_to_child, p)
            d == Drop(buf, S)
            b == Unlink(d, U)
<1>1. d \in Buffers /\ Ready(d) = Ready(buf) \ S
  BY DropFields DEF Ready
<1>2. S \subseteq U
  BY DEF RemovedWithChildren
<1>3. ASSUME NEW c \in Ready(d)
      PROVE  /\ c \in d.parent_to_child[Parent[c]]
             /\ Parent[c] \notin U
             /\ Parent[c] \in Hash \cup {Zero}
  <2>1. c \in Hash /\ c \in Ready(buf) /\ c \notin S /\ c \in buf.parent_to_child[Parent[c]]
    BY <1>1 DEF Ready, Buffers, ReadyLinked, Linked
  <2>2. c \in d.parent_to_child[Parent[c]] /\ Parent[c] \in Hash \cup {Zero}
    <3>. HIDE DEF S
    <3>. QED  BY <2>1, DropLinked, BlocksAssumption DEF Linked
  <2>3. ASSUME Parent[c] \in U PROVE FALSE
    <3>1. c \in Reached(buf.parent_to_child, p)
      BY <2>1, <2>3, ReachedStep
    <3>. QED  BY <2>1, <3>1 DEF RemovedWithChildren, Removable, Ready
  <2>. QED  BY <2>2, <2>3
<1>. HIDE DEF d, S, U
<1>4. /\ Ready(b) = Ready(d)
      /\ \A q \in Hash \cup {Zero} : q \notin U => b.parent_to_child[q] = d.parent_to_child[q]
  BY <1>1, UnlinkFields DEF Ready
<1>. HIDE DEF b
<1>5. ReadyLinked(b) /\ ReadyAwait(b, {p} \cup S)
  <2>1. p \in U
    BY DEF U
  <2>. QED  BY <1>2, <1>3, <1>4, <2>1 DEF ReadyLinked, ReadyAwait, Linked
<1>. QED  BY <1>5 DEF BufferRemoveBlockWithChildren, S, U, d, b

\* evict_old_blocks takes a block with every block linked below it.
LEMMA EvictOldBlocksLinked ==
    ASSUME NEW buf, SoundBuffer(buf), NEW n \in Heights, ReadyLinked(buf)
    PROVE  ReadyLinked(BufferEvictOldBlocks(buf, n))
<1>. DEFINE links == buf.parent_to_child
            gone == OldBlocks(buf, n) \cup BelowOld(buf, n)
            b == BufferEvictOldBlocks(buf, n)
<1>1. buf \in Buffers /\ EarliestExact(buf) /\ LinksSound(buf)
  BY DEF SoundBuffer, Indexed
<1>2. /\ Ready(b) = Ready(buf) \ gone
      /\ \A q \in (Hash \cup {Zero}) \ gone : b.parent_to_child[q] = links[q] \ gone
  BY <1>1, EvictOldBlocksFields DEF Ready
<1>. HIDE DEF b
<1>. SUFFICES ASSUME NEW c \in Ready(b)
              PROVE  c \in b.parent_to_child[Parent[c]]
  BY DEF ReadyLinked, Linked, b
<1>3. c \in Hash /\ c \notin gone /\ c \in links[Parent[c]] /\ Parent[c] \in Hash \cup {Zero}
  <2>. HIDE DEF gone
  <2>. QED  BY <1>1, <1>2, BlocksAssumption DEF Ready, Buffers, ReadyLinked, Linked
<1>4. ASSUME Parent[c] \in gone PROVE FALSE
  <2>1. Parent[c] \in buf.blocks
    <3>1. CASE Parent[c] \in OldBlocks(buf, n)
      BY <3>1 DEF OldBlocks
    <3>2. CASE Parent[c] \in BelowOld(buf, n)
      <4>. DEFINE old == OldBlocks(buf, n)
                  d == Drop(buf, old)
                  q == Parent[c]
      <4>1. PICK p \in old : q \in Reached(d.parent_to_child, p)
        BY <3>2 DEF BelowOld
      <4>2. q \in Hash /\ p \in Ancestry[q] /\ q # p
        BY <4>1 DEF Reached
      <4>3. q \in LineAbove(q, Number[p])
        BY <4>2, AncestryNumber, AncestryClosed DEF LineAbove
      <4>4. q \in d.parent_to_child[Parent[q]] /\ Parent[q] \in Hash \cup {Zero}
        BY <4>1, <4>2, <4>3, BlocksAssumption DEF Reached
      <4>5. q \in links[Parent[q]]
        BY <1>1, <4>4, DropFields
      <4>. QED  BY <1>1, <4>4, <4>5 DEF LinksSound
    <3>. QED  BY <1>4, <3>1, <3>2
  <2>2. Parent[c] \in Hash
    BY <1>1, <2>1 DEF Buffers
  <2>3. c \in Reached(links, Parent[c])
    BY <1>3, <2>2, ReachedStep
  <2>. QED  BY <1>3, <1>4, <2>1, <2>3, BelowOldBlock, BelowEvictedBlock
<1>. HIDE DEF gone
<1>. QED  BY <1>2, <1>3, <1>4

\* What is claimed of the next state.
StrandKept ==
    /\ ReadyLinked(block_buffer')
    /\ ReadyAwait(block_buffer', chain_state'.blocks_by_hash \cup connecting')

\* The loop of try_connect_buffered_blocks, started for h with the buffer b
\* when h is the block that has been validated.
LEMMA StartConnectingStrand ==
    ASSUME StrandInv, NEW h \in Hash, NEW b \in Buffers, NEW handler,
           ReadyLinked(b), Ready(b) \subseteq Ready(block_buffer),
           StartConnecting(b, h, handler),
           chain_state'.blocks_by_hash \subseteq chain_state.blocks_by_hash \cup {h}
    PROVE  StrandKept
<1>1. /\ connecting' = RemovedWithChildren(b, h)
      /\ block_buffer' = BufferRemoveBlockWithChildren(b, h)
  BY DEF StartConnecting
<1>2. /\ ReadyLinked(block_buffer')
      /\ ReadyAwait(block_buffer', {h} \cup connecting')
  BY <1>1, RemoveBlockWithChildrenLinked
<1>3. Ready(block_buffer') \subseteq Ready(block_buffer)
  BY <1>1, RemoveBlockWithChildrenReady
<1>. QED  BY <1>2, <1>3 DEF StrandKept, StrandInv, ReadyAwait

\* The rest of on_download_outcome keeps the invariant when it starts from a
\* buffer in which h is the only block that may have become ready.
LEMMA UnlockedStrand ==
    ASSUME TypeOK, ReadyInv, StrandInv, caller = None, NEW h \in Hash, NEW buf \in Buffers,
           Ready(buf) \subseteq Ready(block_buffer) \cup {h},
           \A c \in Ready(buf) \ {h} : Linked(buf, c),
           Unlocked(h, buf)
    PROVE  StrandKept
<1>. DEFINE V == chain_state.blocks_by_hash
<1>1. /\ connecting = {} /\ chain_state \in Chains
      /\ \A c \in Ready(block_buffer) : Parent[c] \notin V
  BY DEF ReadyInv, StrandInv, ReadyAwait, TypeOK
<1>2. CASE ~Removable(buf, h) /\ block_buffer' = buf /\ UNCHANGED <<chain_state, caller, connecting>>
  <2>1. h \notin Ready(buf)
    BY <1>2 DEF Removable, Ready
  <2>. QED  BY <1>1, <1>2, <2>1 DEF StrandKept, ReadyLinked, ReadyAwait
<1>. DEFINE b == BufferRemoveBlock(buf, h)
<1>3. Ready(b) \subseteq Ready(block_buffer) /\ ReadyLinked(b)
  BY RemoveBlockReady, RemoveBlockLinked
<1>4. b \in Buffers
  BY DropFields DEF BufferRemoveBlock
<1>. HIDE DEF b
<1>5. CASE DownloadedInvalidAncestor(h, b)
  BY <1>1, <1>3, <1>5 DEF DownloadedInvalidAncestor, StrandKept, ReadyAwait
<1>6. CASE DownloadedInserted(h, b)
  <2>1. CASE /\ chain_state' = ChainInsertBlock(chain_state, h, TRUE)
             /\ StartConnecting(b, h, [message |-> "download", hash |-> h, has_proof |-> TRUE])
    <3>1. chain_state'.blocks_by_hash = V \cup {h}
      BY <1>1, <2>1, ChainInsertBlockType
    <3>. QED  BY <1>3, <1>4, <2>1, <3>1, StartConnectingStrand
  <2>2. CASE block_buffer' = b /\ UNCHANGED <<chain_state, caller, connecting>>
    BY <1>1, <1>3, <2>2 DEF StrandKept, ReadyAwait
  <2>3. CASE /\ "Disconnected" \in InsertResults(chain_state, h, TRUE)
             /\ block_buffer' = BufferDisconnected(b, h, TRUE)
             /\ UNCHANGED <<chain_state, caller, connecting>>
    <3>1. Parent[h] \notin V
      BY <2>3, VerifierAssumption DEF InsertResults, VerifyResults
    <3>2. Ready(block_buffer') \subseteq Ready(b) \cup {h} /\ ReadyLinked(block_buffer')
      BY <1>3, <1>4, <2>3, BufferDisconnectedReady, BufferDisconnectedLinked
    <3>. QED  BY <1>1, <1>3, <2>3, <3>1, <3>2 DEF StrandKept, ReadyAwait
  <2>. QED  BY <1>6, <2>1, <2>2, <2>3 DEF DownloadedInserted
<1>. QED  BY <1>2, <1>5, <1>6 DEF Unlocked, b

\* Every step of the engine keeps the invariant, unless it stores a finalized
\* block that has a ready child.
LEMMA StrandStep ==
    ASSUME TypeOK, SoundBuffer(block_buffer), ReadyInv, StrandInv, [Next]_vars,
           \A f \in Hash : OnFinalizedBlock(f) => NoReadyChild(f)
    PROVE  StrandInv'
<1>. DEFINE V == chain_state.blocks_by_hash
<1>. SUFFICES StrandKept
  BY DEF StrandKept, StrandInv, ReadyLinked, ReadyAwait, Linked, Ready
<1>t. /\ chain_state \in Chains
      /\ block_buffer \in Buffers
      /\ canonical_head \in Hash
      /\ caller \in Handlers \cup {None}
  BY DEF TypeOK
<1>r. /\ caller = None => connecting = {}
      /\ ReadyLinked(block_buffer)
      /\ \A c \in Ready(block_buffer) : Parent[c] \notin V /\ Parent[c] \notin connecting
  BY DEF ReadyInv, StrandInv, ReadyAwait
<1>1. CASE UNCHANGED <<chain_state, block_buffer, connecting, caller>>
  BY <1>1, <1>r DEF StrandKept, ReadyAwait
<1>2. ASSUME NEW h \in Hash, ConnectValid(h) PROVE StrandKept
  <2>. DEFINE inserted == ChainInsertBlock(chain_state, h, TRUE)
  <2>1. inserted \in Chains /\ inserted.blocks_by_hash = V \cup {h}
    BY <1>t, ChainInsertBlockType
  <2>. HIDE DEF inserted
  <2>2. chain_state'.blocks_by_hash = V \cup {h}
    <3>1. ChainAfter(inserted, canonical_head, h).blocks_by_hash = V \cup {h}
      BY <1>t, <2>1, HeadAfterType
    <3>. QED  BY <1>2, <2>1, <3>1 DEF ConnectValid, inserted
  <2>3. h \in connecting /\ connecting' = connecting \ {h} /\ UNCHANGED block_buffer
    BY <1>2 DEF ConnectValid, NextToConnect
  <2>. QED  BY <1>r, <2>2, <2>3 DEF StrandKept, ReadyAwait
<1>3. ASSUME NEW h \in Hash, ConnectDisconnected(h) PROVE StrandKept
  <2>1. /\ h \in connecting
        /\ connecting' = connecting \ {h} /\ UNCHANGED chain_state
        /\ block_buffer' = BufferDisconnected(block_buffer, h, TRUE)
        /\ Ancestry[h] \cap connecting = {h}
    BY <1>3 DEF ConnectDisconnected, NextToConnect
  <2>2. Ready(block_buffer') \subseteq Ready(block_buffer) \cup {h} /\ ReadyLinked(block_buffer')
    BY <1>r, <1>t, <2>1, BufferDisconnectedReady, BufferDisconnectedLinked
  <2>3. Parent[h] \notin V
    BY <1>3, VerifierAssumption DEF ConnectDisconnected, InsertResults, VerifyResults
  <2>4. Parent[h] \notin connecting'
    <3>1. CASE Parent[h] \in Hash
      BY <2>1, <3>1, AncestryClosed DEF ParentClosed
    <3>2. CASE Parent[h] \notin Hash
      BY <2>1, <3>2 DEF TypeOK
    <3>. QED  BY <3>1, <3>2
  <2>. QED  BY <1>r, <2>1, <2>2, <2>3, <2>4 DEF StrandKept, ReadyAwait
<1>4. ASSUME NEW h \in Hash, ConnectInvalid(h) \/ ConnectFatal(h) PROVE StrandKept
  <2>1. UNCHANGED <<block_buffer, chain_state>> /\ connecting' \subseteq connecting
    BY <1>4 DEF ConnectInvalid, ConnectFatal
  <2>. QED  BY <1>r, <2>1 DEF StrandKept, ReadyAwait
<1>5. CASE FinishConnecting
  <2>1. caller.hash \in Hash
    BY <1>5, <1>t DEF FinishConnecting, Handlers
  <2>2. chain_state'.blocks_by_hash = V
    <3>1. ChainAfter(chain_state, canonical_head, caller.hash).blocks_by_hash = V
      BY <1>t, <2>1, HeadAfterType
    <3>. QED  BY <1>5, <3>1 DEF FinishConnecting
  <2>3. connecting' = connecting /\ UNCHANGED block_buffer
    BY <1>5 DEF FinishConnecting
  <2>. QED  BY <1>r, <2>2, <2>3 DEF StrandKept, ReadyAwait
<1>6. ASSUME NEW h \in Hash, OnProof(h) PROVE StrandKept
  <2>. DEFINE buf == BufferInsertProof(block_buffer, h)
  <2>1. buf \in Buffers /\ buf.parent_to_child = block_buffer.parent_to_child
    BY <1>t DEF BufferInsertProof, Buffers
  <2>2. Ready(buf) \subseteq Ready(block_buffer) \cup {h}
    BY <1>t, ProofReady DEF Ready
  <2>. HIDE DEF buf
  <2>3. \A c \in Ready(buf) \ {h} : Linked(buf, c)
    BY <1>r, <2>1, <2>2 DEF ReadyLinked, Linked
  <2>4. caller = None /\ Unlocked(h, buf)
    BY <1>6 DEF OnProof, NextOutcome, Awake, buf
  <2>. QED  BY <2>1, <2>2, <2>3, <2>4, UnlockedStrand
<1>7. ASSUME NEW h \in Hash, OnFullBlock(h) PROVE StrandKept
  <2>. DEFINE buf == BufferInsertBlock(block_buffer, h)
  <2>1. buf \in Buffers
    BY InsertBlockSound DEF SoundBuffer
  <2>2. Ready(buf) \subseteq Ready(block_buffer) \cup {h}
    BY <1>t, InsertBlockReady DEF Ready
  <2>3. ReadyLinked(buf)
    BY <1>r, <1>t, InsertBlockLinked DEF ReadyLinked
  <2>. HIDE DEF buf
  <2>4. caller = None /\ Unlocked(h, buf)
    BY <1>7 DEF OnFullBlock, NextOutcome, Awake, buf
  <2>. QED  BY <2>1, <2>2, <2>3, <2>4, UnlockedStrand DEF ReadyLinked
<1>8. ASSUME NEW f \in Hash, OnFinalizedBlock(f) PROVE StrandKept
  <2>. DEFINE marked == InsertCanonicalHashes(chain_state, {f} \cup FinalizedAncestors(f))
  <2>1. {f} \cup FinalizedAncestors(f) \in SUBSET Hash
    BY AncestryClosed DEF FinalizedAncestors
  <2>2. marked \in Chains /\ marked.blocks_by_hash = V
    BY <1>t, <2>1, OnChainUpdateType DEF InsertCanonicalHashes
  <2>. HIDE DEF marked
  <2>3. chain_state'.blocks_by_hash = V \cup {f}
    BY <1>8, <2>2, ChainInsertBlockType DEF OnFinalizedBlock, marked
  <2>4. Ready(block_buffer') \subseteq Ready(block_buffer) /\ ReadyLinked(block_buffer')
    BY <1>8, <1>r, <1>t, RemoveBlockReady, RemoveBlockLinked DEF OnFinalizedBlock, ReadyLinked
  <2>5. connecting' = {}
    BY <1>8, <1>r DEF OnFinalizedBlock, NextOutcome, Awake
  <2>6. \A c \in Ready(block_buffer) : Parent[c] # f
    BY <1>8 DEF NoReadyChild
  <2>. QED  BY <1>r, <2>3, <2>4, <2>5, <2>6 DEF StrandKept, ReadyAwait
<1>9. ASSUME NEW h \in Hash,
             NewPayloadMalformed(h) \/ NewPayloadInvalidAncestor(h) \/ NewPayloadValid(h)
             \/ NewPayloadDisconnected(h) \/ NewPayloadNoProof(h)
             \/ NewPayloadInvalid(h) \/ NewPayloadFatal(h)
      PROVE  StrandKept
  <2>. DEFINE buf == WithoutProof(h)
  <2>1. /\ buf \in Buffers
        /\ buf.parent_to_child = block_buffer.parent_to_child
    BY <1>t DEF WithoutProof, BufferRemoveProof, Buffers
  <2>2. Ready(buf) \subseteq Ready(block_buffer)
    BY <1>t, ProofReady DEF Ready, WithoutProof
  <2>. HIDE DEF buf
  <2>3. connecting = {}
    BY <1>9, <1>r DEF NewPayloadMalformed, NewPayloadInvalidAncestor, NewPayloadValid,
         NewPayloadDisconnected, NewPayloadNoProof, NewPayloadInvalid, NewPayloadFatal,
         NewPayload, NextMessage, Awake
  <2>l. ReadyLinked(buf)
    BY <1>r, <2>1, <2>2 DEF ReadyLinked, Linked
  <2>4. CASE NewPayloadMalformed(h) \/ NewPayloadInvalidAncestor(h)
             \/ NewPayloadInvalid(h) \/ NewPayloadFatal(h)
    <3>1. block_buffer' = buf /\ UNCHANGED <<chain_state, caller, connecting>>
      BY <2>4 DEF NewPayloadMalformed, NewPayloadInvalidAncestor, NewPayloadInvalid,
           NewPayloadFatal, buf
    <3>. QED  BY <1>r, <2>2, <2>l, <3>1 DEF StrandKept, ReadyAwait
  <2>5. CASE NewPayloadValid(h)
    <3>1. chain_state'.blocks_by_hash \subseteq V \cup {h}
      BY <1>t, <2>5, ChainInsertBlockType DEF NewPayloadValid
    <3>2. StartConnecting(buf, h, [message |-> "payload", hash |-> h, has_proof |-> HasProof(h)])
      BY <2>5 DEF NewPayloadValid, buf
    <3>. QED  BY <2>1, <2>2, <2>l, <3>1, <3>2, StartConnectingStrand
  <2>6. CASE NewPayloadDisconnected(h)
    <3>1. Parent[h] \notin V /\ UNCHANGED <<chain_state, caller, connecting>>
      BY <2>6, VerifierAssumption DEF NewPayloadDisconnected, InsertResults, VerifyResults
    <3>2. Ready(block_buffer') \subseteq Ready(buf) \cup {h} /\ ReadyLinked(block_buffer')
      <4>1. HasProof(h) \in BOOLEAN
        BY DEF HasProof
      <4>. QED  BY <2>1, <2>6, <2>l, <4>1, BufferDisconnectedReady, BufferDisconnectedLinked
                DEF NewPayloadDisconnected, buf
    <3>. QED  BY <1>r, <2>2, <2>3, <3>1, <3>2 DEF StrandKept, ReadyAwait
  <2>7. CASE NewPayloadNoProof(h)
    <3>1. block_buffer' = BufferInsertBlock(buf, h) /\ UNCHANGED <<chain_state, caller, connecting>>
      BY <2>7 DEF NewPayloadNoProof, buf
    <3>2. /\ Parent[h] \in V
          /\ h \notin block_buffer.proofs
      BY <2>7, VerifierAssumption DEF NewPayloadNoProof, InsertResults, VerifyResults, HasProof
    <3>3. Ready(block_buffer') \subseteq Ready(block_buffer) /\ ReadyLinked(block_buffer')
      <4>1. h \notin buf.proofs
        BY <1>t, ProofReady DEF buf, WithoutProof
      <4>2. block_buffer'.blocks \subseteq buf.blocks \cup {h} /\ block_buffer'.proofs \subseteq buf.proofs
        BY <2>1, <3>1, InsertBlockReady
      <4>3. Ready(block_buffer') \subseteq Ready(buf)
        BY <4>1, <4>2 DEF Ready
      <4>4. ReadyLinked(block_buffer')
        BY <2>1, <2>l, <3>1, InsertBlockLinked DEF ReadyLinked
      <4>. QED  BY <2>2, <4>3, <4>4
    <3>. QED  BY <1>r, <3>1, <3>3 DEF StrandKept, ReadyAwait
  <2>. QED  BY <1>9, <2>4, <2>5, <2>6, <2>7
<1>10. ASSUME NEW fcu \in ForkchoiceStates, FcuNewHead(fcu) PROVE StrandKept
  <2>. DEFINE updated == CanonicalChainUpdate(chain_state, canonical_head, fcu.head)
  <2>1. fcu.head \in Hash
    BY <1>10, <1>t DEF FcuNewHead, HasNewHead, Chains
  <2>2. updated \in Chains /\ updated.blocks_by_hash = V
    BY <1>10, <1>t, <2>1, MakeCanonicalType DEF FcuNewHead
  <2>. HIDE DEF updated
  <2>3. chain_state'.blocks_by_hash \subseteq V
    <3>1. chain_state' = updated \/ chain_state' = RemoveBlocksOnFinalized(updated, fcu.finalized)
      BY <1>10 DEF FcuNewHead, updated
    <3>. QED  BY <2>2, <3>1, RemoveBlocksType
  <2>4. Ready(block_buffer') \subseteq Ready(block_buffer) /\ ReadyLinked(block_buffer')
    <3>1. \/ block_buffer' = block_buffer
          \/ /\ block_buffer' = BufferEvictOldBlocks(block_buffer, Number[fcu.finalized])
             /\ fcu.finalized \in chain_state'.blocks_by_hash
      BY <1>10 DEF FcuNewHead
    <3>2. fcu.finalized \in chain_state'.blocks_by_hash => Number[fcu.finalized] \in Heights
      BY <1>t, <2>3 DEF Chains, Heights
    <3>. QED  BY <1>r, <1>t, <3>1, <3>2, EvictOldBlocksReady, EvictOldBlocksLinked
  <2>5. connecting' = {}
    BY <1>10, <1>r DEF FcuNewHead, ForkchoiceUpdated, NextMessage, Awake
  <2>. QED  BY <1>r, <2>3, <2>4, <2>5 DEF StrandKept, ReadyAwait
<1>11. CASE UNCHANGED vars
  BY <1>1, <1>11 DEF vars, treeVars, engineVars
<1>12. ASSUME NEW h \in Hash,
              OnUnrecoverableFullBlock(h) \/ OnUnrecoverableFinalizedBlock(h)
              \/ ForgetInvalidHeader(h)
       PROVE  StrandKept
  BY <1>1, <1>12
     DEF OnUnrecoverableFullBlock, OnUnrecoverableFinalizedBlock, ForgetInvalidHeader, treeVars
<1>13. CASE PollDownloader \/ ParkedTimeout
  BY <1>1, <1>13 DEF PollDownloader, ParkedTimeout, treeVars
<1>14. ASSUME NEW fcu \in ForkchoiceStates,
              FcuRefused(fcu) \/ FcuSameHead(fcu) \/ FcuKnownHead(fcu) \/ FcuSyncing(fcu)
       PROVE  StrandKept
  BY <1>1, <1>14 DEF FcuRefused, FcuSameHead, FcuKnownHead, FcuSyncing, ForkchoiceUpdated
<1>. QED
  BY <1>2, <1>3, <1>4, <1>5, <1>6, <1>7, <1>8, <1>9, <1>10, <1>11, <1>12, <1>13, <1>14
     DEF Next, EngineStep, ClientMessage

\* A buffered block that has its proof is never left behind: whatever arrives
\* in whatever order, and whatever is evicted, rejected or sent twice, its
\* parent is not validated while it waits.  The one gap of the code is
\* on_downloaded_finalized_block, which does not look for children: when no
\* finalized block arrives after a child of it is ready, no block is stranded.
THEOREM NoBlockStranded == Spec /\ FinalizedBeforeChildren => []NoStrandedBlock
<1>1. Init => StrandInv
  <2>1. ASSUME Init PROVE block_buffer.blocks = {}
    BY <2>1 DEF Init, TreeInit, BufferInit, EmptyBuffer
  <2>. QED  BY <2>1 DEF StrandInv, ReadyLinked, ReadyAwait, Ready
<1>2. /\ TypeOK /\ BufferInv /\ ReadyInv /\ StrandInv /\ [Next]_vars
      /\ [\A f \in Hash : OnFinalizedBlock(f) => NoReadyChild(f)]_vars
      => StrandInv'
  <2>. SUFFICES ASSUME TypeOK, BufferInv, ReadyInv, StrandInv, [Next]_vars,
                       [\A f \in Hash : OnFinalizedBlock(f) => NoReadyChild(f)]_vars
                PROVE  StrandInv'
    OBVIOUS
  <2>1. CASE \A f \in Hash : OnFinalizedBlock(f) => NoReadyChild(f)
    BY <2>1, StrandStep DEF BufferInv
  <2>2. CASE UNCHANGED vars
    BY <2>2 DEF StrandInv, ReadyLinked, ReadyAwait, Linked, Ready, vars, treeVars, engineVars
  <2>. QED  BY <2>1, <2>2
<1>3. StrandInv => NoStrandedBlock
  BY DEF StrandInv, ReadyAwait, NoStrandedBlock, Ready
<1>. QED
  BY <1>1, <1>2, <1>3, EngineTypeCorrect, EngineBufferInduction, ReadyInduction, PTL
     DEF Spec, FinalizedBeforeChildren

-----------------------------------------------------------------------------
(* What the synchronisation still needs is on the way.                     *)

\* Blocks and proofs that are there or on the way: validated, buffered, in
\* the loop of try_connect_buffered_blocks, requested or delivered.
BlocksHere ==
    chain_state.blocks_by_hash \cup block_buffer.blocks \cup connecting
        \cup inflight.full \cup outcomes.full
ProofsHere ==
    chain_state.blocks_by_hash \cup block_buffer.proofs \cup connecting
        \cup inflight.proof \cup outcomes.proof

\* The inductive invariant: the proof of every block that is there or on the
\* way is too, and so is the parent of every block that has both.
PendingInv ==
    /\ \A h \in BlocksHere \cap Hash : h \in ProofsHere \/ Tainted(h)
    /\ \A h \in Ready(block_buffer) \cup connecting : Parent[h] \in BlocksHere \/ Tainted(h)

\* Verification decides, and decides right: no good block is rejected for a
\* faulty proof, sent malformed or without a recoverable sender, and the
\* provider does not fail.
FaultFree ==
    /\ Rejectable \cup Unrecoverable \cup MalformedPayloads \subseteq Bad
    /\ \A h \in Hash : "Fatal" \notin Verdicts[h]

\* A buffer that can take another block without evicting one.
HasRoom(buf) == Cardinality(buf.blocks) < BufferLimit
BufferHasRoom == HasRoom(block_buffer)

\* No update names a validated block as finalized: nothing is pruned.
NothingPruned ==
    [][\A fcu \in ForkchoiceStates :
          FcuNewHead(fcu) => fcu.finalized \notin chain_state.blocks_by_hash]_vars

\* A child of a tainted block is tainted.
LEMMA TaintedChild ==
    ASSUME NEW h \in Hash, Parent[h] \in Hash, Tainted(Parent[h])
    PROVE  Tainted(h)
  BY AncestryStep DEF Tainted

\* A block refused for an entry of the cache is tainted, if only bad blocks
\* are rejected.
LEMMA RefusedTainted ==
    ASSUME FaultFree, InvalidHeadersSound, NEW h \in Hash, NEW k \in Ancestry[h] \cup {Zero},
           KnownInvalid(invalid_headers, k)
    PROVE  Tainted(h)
<1>1. k \in Hash /\ invalid_headers[k] # None /\ k \in Ancestry[h]
  BY BlocksAssumption DEF KnownInvalid
<1>2. invalid_headers[k] \in Ancestry[k] /\ Rejected(invalid_headers[k])
  BY <1>1 DEF InvalidHeadersSound, Rejected
<1>3. invalid_headers[k] \in Ancestry[h] /\ invalid_headers[k] \in Hash
  BY <1>1, <1>2, AncestryTransitive, AncestryClosed
<1>4. invalid_headers[k] \in Bad
  BY <1>2, <1>3 DEF FaultFree, Rejectable, Rejected
<1>. QED  BY <1>3, <1>4 DEF Tainted

\* So is a block that insert_block rejects.
LEMMA RejectedTainted ==
    ASSUME FaultFree, NEW h \in Hash, NEW has_proof \in BOOLEAN,
           "Invalid" \in InsertResults(chain_state, h, has_proof)
    PROVE  Tainted(h)
<1>1. Rejected(h)
  BY InsertInvalidSound
<1>2. h \in Ancestry[h]
  BY AncestryClosed
<1>. QED  BY <1>1, <1>2 DEF FaultFree, Rejectable, Rejected, Tainted

\* insert_block with room in the buffer loses nothing.
LEMMA InsertWithRoom ==
    ASSUME NEW buf, SoundBuffer(buf), HasRoom(buf), NEW h \in Hash
    PROVE  /\ BufferInsertBlock(buf, h).blocks = buf.blocks \cup {h}
           /\ BufferInsertBlock(buf, h).proofs = buf.proofs
<1>1. buf \in Buffers
  BY DEF SoundBuffer
<1>2. LruKeys(buf.lru) = buf.blocks
  BY <1>1 DEF SoundBuffer, Indexed, LruExact, LruKeys, Buffers
<1>3. Evicted(buf.lru, h) = {}
  <2>1. Cardinality(buf.blocks) \in Nat
    BY FS_CardinalityType DEF SoundBuffer
  <2>2. ~(Cardinality(LruKeys(buf.lru)) >= BufferLimit)
    BY <1>2, <2>1, BufferLimitAssumption DEF HasRoom
  <2>. QED  BY <2>2 DEF Evicted
<1>4. ASSUME NEW b, b = BufferInsertBlock(buf, h)
      PROVE  b.blocks = buf.blocks \cup {h} /\ b.proofs = buf.proofs
  <2>1. /\ b.blocks = (buf.blocks \ Evicted(buf.lru, h)) \cup {h}
        /\ b.proofs = buf.proofs \ Evicted(buf.lru, h)
    BY <1>1, <1>4, InsertBlockFields
  <2>. QED  BY <1>3, <2>1
<1>. QED  BY <1>4

\* Buffering a disconnected block with room in the buffer loses nothing.
LEMMA DisconnectedWithRoom ==
    ASSUME NEW buf, SoundBuffer(buf), HasRoom(buf), NEW h \in Hash, NEW has_proof \in BOOLEAN
    PROVE  /\ BufferDisconnected(buf, h, has_proof).blocks = buf.blocks \cup {h}
           /\ BufferDisconnected(buf, h, has_proof).proofs =
                 IF has_proof THEN buf.proofs \cup {h} ELSE buf.proofs
<1>. DEFINE b == IF has_proof THEN BufferInsertProof(buf, h) ELSE buf
<1>1. SoundBuffer(b)
  BY InsertProofSound
<1>2. b.blocks = buf.blocks /\ b.proofs = IF has_proof THEN buf.proofs \cup {h} ELSE buf.proofs
  BY ProofReady DEF SoundBuffer
<1>. HIDE DEF b
<1>3. HasRoom(b)
  BY <1>2 DEF HasRoom
<1>. QED  BY <1>1, <1>2, <1>3, InsertWithRoom DEF BufferDisconnected, b

\* A buffer with fewer blocks has room as well.
LEMMA RoomBelow ==
    ASSUME NEW a, NEW b, SoundBuffer(a), SoundBuffer(b), b.blocks \subseteq a.blocks, HasRoom(a)
    PROVE  HasRoom(b)
<1>1. Cardinality(b.blocks) <= Cardinality(a.blocks)
  BY FS_Subset DEF SoundBuffer
<1>2. Cardinality(b.blocks) \in Nat /\ Cardinality(a.blocks) \in Nat
  BY FS_CardinalityType DEF SoundBuffer
<1>. QED  BY <1>1, <1>2, BufferLimitAssumption DEF HasRoom

\* What download_block requests.
LEMMA DownloadBlockAdds ==
    ASSUME NEW requests \in Downloads, NEW h \in Hash \cup {Zero}, NEW buf
    PROVE  /\ DownloadBlock(requests, buf, h).full = requests.full \cup {h}
           /\ DownloadBlock(requests, buf, h).proof = requests.proof \cup ({h} \ buf.proofs)
  BY DEF DownloadBlock, Downloads

\* What a request for a proof adds.
LEMMA DownloadProofAdds ==
    ASSUME NEW requests \in Downloads, NEW h \in Hash \cup {Zero}
    PROVE  /\ DownloadProof(requests, h).full = requests.full
           /\ DownloadProof(requests, h).proof = requests.proof \cup {h}
  BY DEF DownloadProof, Downloads

\* The parent of a disconnected block is buffered or requested.
LEMMA ParentRequested ==
    ASSUME NEW requests \in Downloads, NEW buf, SoundBuffer(buf), NEW h \in Hash, NEW after
    PROVE  /\ DownloadBlock(requests, after, MissingAncestor(buf, h)) \in Downloads
           /\ Parent[h] \in buf.blocks
                 \cup DownloadBlock(requests, after, MissingAncestor(buf, h)).full
           /\ MissingAncestor(buf, h) \in Hash \cup {Zero}
<1>1. MissingAncestor(buf, h) \in Hash \cup {Zero}
  BY LowestBufferedAncestorType, AncestryClosed
<1>2. Parent[h] \notin buf.blocks => MissingAncestor(buf, h) = Parent[h]
  BY DEF MissingAncestor
<1>. DEFINE missing == MissingAncestor(buf, h)
<1>. HIDE DEF missing
<1>3. /\ DownloadBlock(requests, after, missing) \in Downloads
      /\ missing \in DownloadBlock(requests, after, missing).full
  BY <1>1, RequestsType, DownloadBlockAdds DEF missing
<1>. QED  BY <1>1, <1>2, <1>3 DEF missing

-----------------------------------------------------------------------------
(* The steps.                                                              *)

\* A step loses no block and no proof but tainted ones, a block that is new
\* on the way has its proof there or on the way, and so has a block that
\* becomes ready its parent.
PiecesKept ==
    /\ \A h \in BlocksHere : h \in BlocksHere' \/ (h \in Hash /\ Tainted(h))
    /\ \A h \in ProofsHere \cap Hash : h \in ProofsHere' \/ Tainted(h)
    /\ \A h \in BlocksHere' \cap Hash : h \in BlocksHere \/ h \in ProofsHere' \/ Tainted(h)
    /\ \A h \in Ready(block_buffer') \cup connecting' :
          \/ h \in Ready(block_buffer) \cup connecting
          \/ Parent[h] \in BlocksHere'
          \/ Tainted(h)

\* Such a step keeps the invariant.
LEMMA PiecesKeptSuffices ==
    ASSUME TypeOK, TypeOK', PendingInv, PiecesKept
    PROVE  PendingInv'
<1>1. ASSUME NEW h \in BlocksHere' \cap Hash PROVE h \in ProofsHere' \/ Tainted(h)
  BY DEF PendingInv, PiecesKept
<1>2. ASSUME NEW h \in Ready(block_buffer') \cup connecting' PROVE Parent[h] \in BlocksHere' \/ Tainted(h)
  <2>1. h \in Hash
    BY DEF TypeOK, Ready, Buffers
  <2>2. CASE Parent[h] \in BlocksHere
    BY <2>1, <2>2, TaintedChild DEF PiecesKept
  <2>3. CASE Parent[h] \notin BlocksHere
    BY <2>3 DEF PendingInv, PiecesKept
  <2>. QED  BY <2>2, <2>3
<1>. QED  BY <1>1, <1>2 DEF PendingInv, Tainted, Ready

\* on_download_outcome goes on with the buffer buf: no piece of buf is lost,
\* and if h becomes ready its parent is there or requested.
UnlockedKept(h, buf) ==
    LET stored == chain_state'.blocks_by_hash
    IN  /\ \A x \in chain_state.blocks_by_hash \cup buf.blocks :
              x \in stored \cup block_buffer'.blocks \cup connecting' \/ Tainted(x)
        /\ \A x \in chain_state.blocks_by_hash \cup buf.proofs :
              x \in stored \cup block_buffer'.proofs \cup connecting' \/ Tainted(x)
        /\ stored \cup block_buffer'.blocks \cup connecting'
              \subseteq chain_state.blocks_by_hash \cup buf.blocks
        /\ inflight.full \subseteq inflight'.full /\ inflight.proof \subseteq inflight'.proof
        /\ inflight'.full \ inflight.full \subseteq block_buffer'.proofs \cup inflight'.proof
        /\ Ready(block_buffer') \cup connecting' \subseteq Ready(buf)
        /\ h \in Ready(block_buffer') \cup connecting' =>
              Parent[h] \in block_buffer'.blocks \cup inflight'.full

\* The rest of on_download_outcome, when there is room for h to go back.
LEMMA UnlockedPending ==
    ASSUME TypeOK, FaultFree, InvalidHeadersSound, connecting = {},
           NEW h \in Hash, NEW buf, SoundBuffer(buf),
           Removable(buf, h) => HasRoom(BufferRemoveBlock(buf, h)),
           Unlocked(h, buf)
    PROVE  UnlockedKept(h, buf)
<1>. DEFINE V == chain_state.blocks_by_hash
<1>t. chain_state \in Chains /\ inflight \in Downloads /\ buf \in Buffers
  BY DEF TypeOK, SoundBuffer
<1>1. CASE ~Removable(buf, h) /\ block_buffer' = buf /\ UNCHANGED <<chain_state, inflight, connecting>>
  BY <1>1 DEF Removable, Ready, UnlockedKept
<1>. DEFINE b == BufferRemoveBlock(buf, h)
<1>2. CASE Removable(buf, h) /\ (DownloadedInvalidAncestor(h, b) \/ DownloadedInserted(h, b))
  <2>1. /\ b \in Buffers /\ b.blocks = buf.blocks \ {h} /\ b.proofs = buf.proofs \ {h}
    BY <1>t, <1>2, DropFields DEF BufferRemoveBlock
  <2>2. SoundBuffer(b)
    BY RemoveBlockSound
  <2>3. h \in buf.blocks /\ h \in buf.proofs
    BY <1>2 DEF Removable
  <2>. HIDE DEF b
  <2>4. ASSUME block_buffer' = b, UNCHANGED <<chain_state, inflight, connecting>>, h \in V \/ Tainted(h)
        PROVE  UnlockedKept(h, buf)
    BY <2>1, <2>3, <2>4 DEF Ready, UnlockedKept
  <2>5. CASE DownloadedInvalidAncestor(h, b)
    <3>1. LowestBufferedAncestorOr(b, h) = h
      BY <2>1 DEF LowestBufferedAncestorOr
    <3>2. h \in Ancestry[h]
      BY AncestryClosed
    <3>3. Tainted(h)
      BY <2>5, <3>1, <3>2, RefusedTainted DEF DownloadedInvalidAncestor
    <3>. QED  BY <2>4, <2>5, <3>3 DEF DownloadedInvalidAncestor
  <2>6. CASE /\ chain_state' = ChainInsertBlock(chain_state, h, TRUE)
             /\ StartConnecting(b, h, [message |-> "download", hash |-> h, has_proof |-> TRUE])
             /\ UNCHANGED inflight
    <3>1. chain_state'.blocks_by_hash = V \cup {h}
      BY <1>t, <2>6, ChainInsertBlockType
    <3>2. /\ connecting' = RemovedWithChildren(b, h)
          /\ block_buffer'.blocks = b.blocks \ RemovedWithChildren(b, h)
          /\ block_buffer'.proofs = b.proofs \ RemovedWithChildren(b, h)
      BY <2>1, <2>6, RemoveBlockWithChildrenFields DEF StartConnecting
    <3>3. RemovedWithChildren(b, h) \subseteq b.blocks \cap b.proofs
      BY DEF RemovedWithChildren, Removable
    <3>. QED  BY <2>1, <2>3, <2>6, <3>1, <3>2, <3>3 DEF Ready, UnlockedKept
  <2>7. CASE /\ "Disconnected" \in InsertResults(chain_state, h, TRUE)
             /\ block_buffer' = BufferDisconnected(b, h, TRUE)
             /\ inflight' = DownloadBlock(inflight, block_buffer', MissingAncestor(b, h))
             /\ UNCHANGED <<chain_state, connecting>>
    <3>. DEFINE missing == MissingAncestor(b, h)
    <3>1. block_buffer'.blocks = b.blocks \cup {h} /\ block_buffer'.proofs = b.proofs \cup {h}
      BY <1>2, <2>2, <2>7, DisconnectedWithRoom DEF b
    <3>2. missing \in Hash \cup {Zero} /\ Parent[h] \in b.blocks \cup inflight'.full
      BY <1>t, <2>2, <2>7, ParentRequested
    <3>. HIDE DEF missing
    <3>3. /\ inflight'.full = inflight.full \cup {missing}
          /\ inflight'.proof = inflight.proof \cup ({missing} \ block_buffer'.proofs)
      <4>1. inflight' = DownloadBlock(inflight, block_buffer', missing)
        BY <2>7 DEF missing
      <4>2. inflight \in Downloads
        BY <1>t
      <4>. QED  BY <3>2, <4>1, <4>2, DownloadBlockAdds
    <3>4. connecting' = {} /\ chain_state' = chain_state
      BY <2>7
    <3>. QED  BY <2>1, <2>3, <3>1, <3>2, <3>3, <3>4 DEF Ready, UnlockedKept
  <2>8. CASE "AlreadySeen" \in InsertResults(chain_state, h, TRUE) /\ block_buffer' = b
             /\ UNCHANGED <<chain_state, inflight, connecting>>
    <3>1. h \in V
      BY <2>8, VerifierAssumption DEF InsertResults, VerifyResults
    <3>. QED  BY <2>4, <2>8, <3>1
  <2>9. CASE "Invalid" \in InsertResults(chain_state, h, TRUE) /\ block_buffer' = b
             /\ UNCHANGED <<chain_state, inflight, connecting>>
    BY <2>4, <2>9, RejectedTainted
  <2>10. "Fatal" \notin InsertResults(chain_state, h, TRUE)
    BY DEF InsertResults, FaultFree
  <2>. QED  BY <1>2, <2>5, <2>6, <2>7, <2>8, <2>9, <2>10 DEF DownloadedInserted
<1>. QED  BY <1>1, <1>2 DEF Unlocked

\* on_download_outcome(h), with the block or the proof, loses no piece.
LEMMA DownloadPending ==
    ASSUME TypeOK, SoundBuffer(block_buffer), ReadyInv, InvalidHeadersSound, FaultFree,
           BufferHasRoom, NEW h \in Hash, OnProof(h) \/ OnFullBlock(h)
    PROVE  PiecesKept
<1>t. /\ block_buffer \in Buffers /\ inflight \in Downloads /\ outcomes \in Downloads
      /\ chain_state.blocks_by_hash \subseteq Hash /\ block_buffer.blocks \subseteq Hash
  BY DEF TypeOK, Chains, Buffers
<1>c. connecting = {}
  BY DEF OnProof, OnFullBlock, NextOutcome, Awake, ReadyInv
<1>1. ASSUME NEW buf, SoundBuffer(buf), Unlocked(h, buf),
             buf.blocks \ {h} \subseteq block_buffer.blocks, buf.proofs \ {h} \subseteq block_buffer.proofs,
             buf.blocks \cup outcomes'.full = block_buffer.blocks \cup outcomes.full,
             buf.proofs \cup outcomes'.proof = block_buffer.proofs \cup outcomes.proof
      PROVE  PiecesKept
  <2>1. ASSUME Removable(buf, h) PROVE HasRoom(BufferRemoveBlock(buf, h))
    <3>1. BufferRemoveBlock(buf, h).blocks = buf.blocks \ {h}
      BY <1>1, <2>1, DropFields DEF BufferRemoveBlock, SoundBuffer
    <3>. QED  BY <1>1, <3>1, RemoveBlockSound, RoomBelow DEF BufferHasRoom
  <2>2. UnlockedKept(h, buf)
    BY <1>1, <1>c, <2>1, UnlockedPending
  <2>3. \A x \in BlocksHere : x \in BlocksHere' \/ (x \in Hash /\ Tainted(x))
    BY <1>1, <1>c, <1>t, <2>2 DEF BlocksHere, UnlockedKept
  <2>4. \A x \in ProofsHere \cap Hash : x \in ProofsHere' \/ Tainted(x)
    BY <1>1, <1>c, <2>2 DEF ProofsHere, UnlockedKept
  <2>5. \A x \in BlocksHere' \cap Hash : x \in BlocksHere \/ x \in ProofsHere'
    BY <1>1, <1>c, <2>2 DEF BlocksHere, ProofsHere, UnlockedKept
  <2>6. Ready(buf) \subseteq Ready(block_buffer) \cup {h}
    BY <1>1, <2>2 DEF Ready
  <2>7. \A x \in Ready(block_buffer') \cup connecting' :
            x \in Ready(block_buffer) \cup connecting \/ Parent[x] \in BlocksHere'
    BY <2>2, <2>6 DEF BlocksHere, UnlockedKept
  <2>. QED  BY <2>3, <2>4, <2>5, <2>7 DEF PiecesKept
<1>2. CASE OnProof(h)
  <2>. DEFINE buf == BufferInsertProof(block_buffer, h)
  <2>1. SoundBuffer(buf) /\ buf.blocks = block_buffer.blocks /\ buf.proofs = block_buffer.proofs \cup {h}
    BY <1>t, InsertProofSound, ProofReady
  <2>2. Unlocked(h, buf)
    BY <1>2 DEF OnProof
  <2>. HIDE DEF buf
  <2>3. outcomes'.full = outcomes.full /\ outcomes'.proof = outcomes.proof \ {h} /\ h \in outcomes.proof
    BY <1>2, <1>t DEF OnProof, NextOutcome, Downloads
  <2>. QED  BY <1>1, <2>1, <2>2, <2>3
<1>3. CASE OnFullBlock(h)
  <2>. DEFINE buf == BufferInsertBlock(block_buffer, h)
  <2>1. SoundBuffer(buf) /\ buf.blocks = block_buffer.blocks \cup {h} /\ buf.proofs = block_buffer.proofs
    BY InsertBlockSound, InsertWithRoom DEF BufferHasRoom
  <2>2. Unlocked(h, buf)
    BY <1>3 DEF OnFullBlock
  <2>. HIDE DEF buf
  <2>3. outcomes'.full = outcomes.full \ {h} /\ outcomes'.proof = outcomes.proof /\ h \in outcomes.full
    BY <1>3, <1>t DEF OnFullBlock, NextOutcome, Downloads
  <2>. QED  BY <1>1, <2>1, <2>2, <2>3
<1>. QED  BY <1>2, <1>3

\* The steps of the loop lose no piece.
LEMMA ConnectPending ==
    ASSUME TypeOK, SoundBuffer(block_buffer), FaultFree, BufferHasRoom, NEW h \in Hash,
           \/ ConnectValid(h) \/ ConnectDisconnected(h) \/ ConnectInvalid(h) \/ ConnectFatal(h)
    PROVE  PiecesKept
<1>. DEFINE V == chain_state.blocks_by_hash
<1>t. chain_state \in Chains /\ block_buffer \in Buffers /\ canonical_head \in Hash
  BY DEF TypeOK
<1>1. h \in connecting /\ UNCHANGED <<inflight, outcomes>>
  BY DEF ConnectValid, ConnectDisconnected, ConnectInvalid, ConnectFatal, NextToConnect
<1>2. CASE ConnectValid(h)
  <2>. DEFINE inserted == ChainInsertBlock(chain_state, h, TRUE)
  <2>1. inserted \in Chains /\ inserted.blocks_by_hash = V \cup {h}
    BY <1>t, ChainInsertBlockType
  <2>. HIDE DEF inserted
  <2>2. chain_state'.blocks_by_hash = V \cup {h}
    <3>1. ChainAfter(inserted, canonical_head, h).blocks_by_hash = V \cup {h}
      BY <1>t, <2>1, HeadAfterType
    <3>. QED  BY <1>2, <2>1, <3>1 DEF ConnectValid, inserted
  <2>3. connecting' = connecting \ {h} /\ UNCHANGED block_buffer
    BY <1>2 DEF ConnectValid
  <2>. QED  BY <1>1, <2>2, <2>3 DEF PiecesKept, BlocksHere, ProofsHere
<1>3. CASE ConnectDisconnected(h)
  <2>1. connecting' = connecting \ {h} /\ UNCHANGED chain_state
    BY <1>3 DEF ConnectDisconnected
  <2>2. /\ block_buffer'.blocks = block_buffer.blocks \cup {h}
        /\ block_buffer'.proofs = block_buffer.proofs \cup {h}
    BY <1>3, DisconnectedWithRoom DEF ConnectDisconnected, BufferHasRoom
  <2>. QED  BY <1>1, <2>1, <2>2 DEF PiecesKept, BlocksHere, ProofsHere, Ready
<1>4. CASE ConnectInvalid(h)
  <2>1. connecting' = connecting \ {h} /\ UNCHANGED <<block_buffer, chain_state>>
    BY <1>4 DEF ConnectInvalid
  <2>2. Tainted(h)
    BY <1>4, RejectedTainted DEF ConnectInvalid
  <2>. QED  BY <1>1, <2>1, <2>2 DEF PiecesKept, BlocksHere, ProofsHere
<1>5. ~ConnectFatal(h)
  BY DEF ConnectFatal, InsertResults, FaultFree
<1>. QED  BY <1>2, <1>3, <1>4, <1>5

\* A payload loses no piece: the proof it takes out of the buffer is used, put
\* back, or that of a tainted block.
LEMMA PayloadPending ==
    ASSUME TypeOK, SoundBuffer(block_buffer), ReadyInv, InvalidHeadersSound, FaultFree,
           BufferHasRoom, NEW h \in Hash,
           \/ NewPayloadMalformed(h) \/ NewPayloadInvalidAncestor(h) \/ NewPayloadValid(h)
           \/ NewPayloadDisconnected(h) \/ NewPayloadNoProof(h)
           \/ NewPayloadInvalid(h) \/ NewPayloadFatal(h)
    PROVE  PiecesKept
<1>. DEFINE V == chain_state.blocks_by_hash
            buf == WithoutProof(h)
<1>t. chain_state \in Chains /\ block_buffer \in Buffers /\ inflight \in Downloads
  BY DEF TypeOK
<1>c. connecting = {} /\ outcomes' = outcomes
  BY DEF NewPayloadMalformed, NewPayloadInvalidAncestor, NewPayloadValid, NewPayloadDisconnected,
         NewPayloadNoProof, NewPayloadInvalid, NewPayloadFatal, NewPayload, NextMessage, Awake,
         ReadyInv
<1>p. HasProof(h) \in BOOLEAN
  BY DEF HasProof
<1>1. SoundBuffer(buf) /\ buf.blocks = block_buffer.blocks /\ buf.proofs = block_buffer.proofs \ {h}
  BY <1>t, RemoveProofSound, ProofReady DEF WithoutProof
<1>2. HasRoom(buf)
  BY <1>1 DEF HasRoom, BufferHasRoom
<1>3. ASSUME block_buffer' = buf, UNCHANGED <<chain_state, inflight, connecting>>, Tainted(h)
      PROVE  PiecesKept
  BY <1>1, <1>3, <1>c DEF PiecesKept, BlocksHere, ProofsHere, Ready
<1>4. CASE NewPayloadMalformed(h)
  <2>1. h \in Ancestry[h]
    BY AncestryClosed
  <2>2. Tainted(h)
    BY <1>4, <2>1 DEF NewPayloadMalformed, FaultFree, Tainted
  <2>. QED  BY <1>3, <1>4, <2>2 DEF NewPayloadMalformed
<1>5. CASE NewPayloadInvalidAncestor(h)
  <2>1. PayloadCheck(buf, h) \in Ancestry[h] \cup {Zero}
    BY <1>1, LowestBufferedAncestorType
  <2>2. Tainted(h)
    BY <1>5, <2>1, RefusedTainted DEF NewPayloadInvalidAncestor, PayloadRefused
  <2>. QED  BY <1>3, <1>5, <2>2 DEF NewPayloadInvalidAncestor
<1>6. CASE NewPayloadInvalid(h)
  <2>1. Tainted(h)
    BY <1>6, <1>p, RejectedTainted DEF NewPayloadInvalid
  <2>. QED  BY <1>3, <1>6, <2>1 DEF NewPayloadInvalid
<1>. HIDE DEF buf
<1>7. CASE NewPayloadValid(h)
  <2>1. chain_state'.blocks_by_hash = V \cup {h} /\ UNCHANGED inflight
    <3>1. "AlreadySeen" \in InsertResults(chain_state, h, HasProof(h)) => h \in V
      BY VerifierAssumption DEF InsertResults, VerifyResults
    <3>. QED  BY <1>7, <1>t, <3>1, ChainInsertBlockType DEF NewPayloadValid
  <2>2. /\ connecting' = RemovedWithChildren(buf, h)
        /\ block_buffer' = BufferRemoveBlockWithChildren(buf, h)
    BY <1>7 DEF NewPayloadValid, StartConnecting, buf
  <2>3. /\ block_buffer'.blocks = buf.blocks \ RemovedWithChildren(buf, h)
        /\ block_buffer'.proofs = buf.proofs \ RemovedWithChildren(buf, h)
    BY <1>1, <2>2, RemoveBlockWithChildrenFields DEF SoundBuffer
  <2>4. RemovedWithChildren(buf, h) \subseteq buf.blocks \cap buf.proofs
    BY DEF RemovedWithChildren, Removable
  <2>. QED  BY <1>1, <1>c, <2>1, <2>2, <2>3, <2>4 DEF PiecesKept, BlocksHere, ProofsHere, Ready
<1>8. CASE NewPayloadDisconnected(h)
  <2>. DEFINE missing == MissingAncestor(buf, h)
              requests == DownloadBlock(inflight, block_buffer', missing)
  <2>1. /\ block_buffer' = BufferDisconnected(buf, h, HasProof(h))
        /\ inflight' = IF HasProof(h) THEN requests ELSE DownloadProof(requests, h)
        /\ UNCHANGED <<chain_state, connecting>>
    BY <1>8 DEF NewPayloadDisconnected, buf
  <2>2. /\ block_buffer'.blocks = buf.blocks \cup {h}
        /\ block_buffer'.proofs = IF HasProof(h) THEN buf.proofs \cup {h} ELSE buf.proofs
    <3>1. CASE HasProof(h)
      <4>1. block_buffer' = BufferDisconnected(buf, h, TRUE)
        BY <1>p, <2>1, <3>1
      <4>. QED  BY <1>1, <1>2, <3>1, <4>1, DisconnectedWithRoom
    <3>2. CASE ~HasProof(h)
      <4>1. block_buffer' = BufferDisconnected(buf, h, FALSE)
        BY <1>p, <2>1, <3>2
      <4>. QED  BY <1>1, <1>2, <3>2, <4>1, DisconnectedWithRoom
    <3>. QED  BY <3>1, <3>2
  <2>3. /\ requests \in Downloads /\ missing \in Hash \cup {Zero}
        /\ Parent[h] \in buf.blocks \cup requests.full
    BY <1>1, <1>t, ParentRequested
  <2>. HIDE DEF missing
  <2>4. /\ requests.full = inflight.full \cup {missing}
        /\ requests.proof = inflight.proof \cup ({missing} \ block_buffer'.proofs)
    <3>1. ASSUME NEW after
          PROVE  /\ DownloadBlock(inflight, after, missing).full = inflight.full \cup {missing}
                 /\ DownloadBlock(inflight, after, missing).proof =
                       inflight.proof \cup ({missing} \ after.proofs)
      BY <1>t, <2>3, DownloadBlockAdds
    <3>. QED  BY <3>1
  <2>. HIDE DEF requests
  <2>5. /\ inflight'.full = requests.full
        /\ inflight'.proof = IF HasProof(h) THEN requests.proof ELSE requests.proof \cup {h}
    BY <2>1, <2>3, DownloadProofAdds
  <2>6. \A x \in BlocksHere : x \in BlocksHere'
    BY <1>1, <1>c, <2>1, <2>2, <2>4, <2>5 DEF BlocksHere
  <2>7. \A x \in ProofsHere : x \in ProofsHere'
    BY <1>1, <1>c, <2>1, <2>2, <2>4, <2>5 DEF ProofsHere
  <2>8. h \in ProofsHere' /\ missing \in ProofsHere'
    BY <2>2, <2>4, <2>5 DEF ProofsHere
  <2>9. \A x \in BlocksHere' : x \in BlocksHere \/ x \in {h, missing}
    BY <1>1, <1>c, <2>1, <2>2, <2>4, <2>5 DEF BlocksHere
  <2>10. Parent[h] \in BlocksHere'
    BY <2>2, <2>3, <2>5 DEF BlocksHere
  <2>11. \A x \in Ready(block_buffer') \cup connecting' : x \in Ready(block_buffer) \cup connecting \/ x = h
    BY <1>1, <2>1, <2>2 DEF Ready
  <2>. QED  BY <2>6, <2>7, <2>8, <2>9, <2>10, <2>11 DEF PiecesKept
<1>9. CASE NewPayloadNoProof(h)
  <2>1. /\ block_buffer' = BufferInsertBlock(buf, h)
        /\ inflight' = DownloadProof(inflight, h)
        /\ UNCHANGED <<chain_state, connecting>>
    BY <1>9 DEF NewPayloadNoProof, buf
  <2>2. block_buffer'.blocks = buf.blocks \cup {h} /\ block_buffer'.proofs = buf.proofs
    BY <1>1, <1>2, <2>1, InsertWithRoom
  <2>3. inflight'.full = inflight.full /\ inflight'.proof = inflight.proof \cup {h}
    BY <1>t, <2>1, DownloadProofAdds
  <2>. QED  BY <1>1, <1>c, <2>1, <2>2, <2>3 DEF PiecesKept, BlocksHere, ProofsHere, Ready
<1>10. ~NewPayloadFatal(h)
  BY DEF NewPayloadFatal, InsertResults, FaultFree
<1>. QED  BY <1>4, <1>5, <1>6, <1>7, <1>8, <1>9, <1>10

\* A forkchoice update loses no piece, if it prunes nothing.
LEMMA ForkchoicePending ==
    ASSUME TypeOK, SoundBuffer(block_buffer), NEW fcu \in ForkchoiceStates,
           FcuNewHead(fcu) => fcu.finalized \notin chain_state.blocks_by_hash,
           \/ FcuRefused(fcu) \/ FcuSameHead(fcu) \/ FcuNewHead(fcu)
           \/ FcuKnownHead(fcu) \/ FcuSyncing(fcu)
    PROVE  PiecesKept
<1>. DEFINE V == chain_state.blocks_by_hash
<1>t. chain_state \in Chains /\ inflight \in Downloads /\ canonical_head \in Hash
  BY DEF TypeOK
<1>c. UNCHANGED <<connecting, outcomes>>
  BY DEF FcuRefused, FcuSameHead, FcuNewHead, FcuKnownHead, FcuSyncing, ForkchoiceUpdated,
         NextMessage
<1>1. CASE FcuNewHead(fcu)
  <2>. DEFINE updated == CanonicalChainUpdate(chain_state, canonical_head, fcu.head)
  <2>1. fcu.head \in Hash
    BY <1>1, <1>t DEF FcuNewHead, HasNewHead, Chains
  <2>2. updated \in Chains /\ updated.blocks_by_hash = V
    BY <1>1, <1>t, <2>1, MakeCanonicalType DEF FcuNewHead
  <2>3. RemoveBlocksOnFinalized(updated, fcu.finalized) = updated
    BY <1>1, <2>2 DEF RemoveBlocksOnFinalized
  <2>. HIDE DEF updated
  <2>4. chain_state' = updated /\ UNCHANGED <<block_buffer, inflight>>
    BY <1>1, <2>2, <2>3 DEF FcuNewHead, updated
  <2>. QED  BY <1>c, <2>2, <2>4 DEF PiecesKept, BlocksHere, ProofsHere
<1>2. CASE FcuSyncing(fcu)
  <2>. DEFINE start  == IF Missing(fcu.safe) THEN fcu.safe ELSE fcu.head
              target == LowestBufferedAncestorOr(block_buffer, start)
  <2>1. /\ fcu.head \in Hash
        /\ fcu.safe \in Hash \cup {Zero}
        /\ fcu.finalized \in Hash \cup {Zero}
    BY <1>2, MessagesAssumption DEF FcuSyncing, Processable
  <2>2. start \in Hash
    BY <2>1 DEF Missing
  <2>3. target \in Hash \cup {Zero}
    BY <2>2, LowestBufferedAncestorType, AncestryClosed
  <2>. HIDE DEF start
  <2>4. UNCHANGED <<chain_state, block_buffer>> /\ inflight' = SyncRequests(fcu)
    BY <1>2 DEF FcuSyncing
  <2>5. inflight' \in {inflight, DownloadFinalized(inflight, fcu.finalized),
                       DownloadBlock(inflight, block_buffer, target)}
    BY <2>4 DEF SyncRequests, start
  <2>6. /\ DownloadFinalized(inflight, fcu.finalized).full = inflight.full
        /\ DownloadFinalized(inflight, fcu.finalized).proof = inflight.proof
    BY <1>t DEF DownloadFinalized, Downloads
  <2>. HIDE DEF target
  <2>7. \/ inflight'.full = inflight.full /\ inflight'.proof = inflight.proof
        \/ /\ inflight'.full = inflight.full \cup {target}
           /\ inflight'.proof = inflight.proof \cup ({target} \ block_buffer.proofs)
    BY <1>t, <2>3, <2>5, <2>6, DownloadBlockAdds
  <2>. QED  BY <1>c, <2>4, <2>7 DEF PiecesKept, BlocksHere, ProofsHere
<1>3. CASE FcuRefused(fcu) \/ FcuSameHead(fcu) \/ FcuKnownHead(fcu)
  <2>1. UNCHANGED <<chain_state, block_buffer, inflight>>
    BY <1>3 DEF FcuRefused, FcuSameHead, FcuKnownHead
  <2>. QED  BY <1>c, <2>1 DEF PiecesKept, BlocksHere, ProofsHere
<1>. QED  BY <1>1, <1>2, <1>3

\* A poll of the downloader moves requests to the outcomes, a finalized block
\* is stored, and a block without a recoverable sender is a bad one.
LEMMA OutcomePending ==
    ASSUME TypeOK, FaultFree,
           \/ PollDownloader
           \/ \E h \in Hash : \/ OnFinalizedBlock(h) \/ OnUnrecoverableFullBlock(h)
                              \/ OnUnrecoverableFinalizedBlock(h)
    PROVE  PiecesKept
<1>. DEFINE V == chain_state.blocks_by_hash
<1>t. /\ chain_state \in Chains /\ block_buffer \in Buffers
      /\ inflight \in Downloads /\ outcomes \in Downloads
  BY DEF TypeOK
<1>1. CASE PollDownloader
  <2>1. PICK ready \in [finalized : Completable("finalized"), full : Completable("full"),
                        proof : Completable("proof")] \ {NoDownloads} :
              /\ outcomes' = ready
              /\ inflight' = [k \in Kinds |-> inflight[k] \ ready[k]]
    BY <1>1 DEF PollDownloader
  <2>2. /\ inflight'.full = inflight.full \ ready.full
        /\ inflight'.proof = inflight.proof \ ready.proof
    BY <2>1 DEF Kinds
  <2>3. ready.full \subseteq inflight.full /\ ready.proof \subseteq inflight.proof
    BY <2>1 DEF Completable
  <2>4. outcomes.full = {} /\ outcomes.proof = {} /\ UNCHANGED <<chain_state, block_buffer, connecting>>
    BY <1>1 DEF PollDownloader, NoDownloads, treeVars
  <2>. QED  BY <2>1, <2>2, <2>3, <2>4 DEF PiecesKept, BlocksHere, ProofsHere
<1>2. ASSUME NEW f \in Hash, OnFinalizedBlock(f) PROVE PiecesKept
  <2>. DEFINE marked == InsertCanonicalHashes(chain_state, {f} \cup FinalizedAncestors(f))
  <2>1. {f} \cup FinalizedAncestors(f) \in SUBSET Hash
    BY AncestryClosed DEF FinalizedAncestors
  <2>2. marked \in Chains /\ marked.blocks_by_hash = V
    BY <1>t, <2>1, OnChainUpdateType DEF InsertCanonicalHashes
  <2>. HIDE DEF marked
  <2>3. chain_state'.blocks_by_hash = V \cup {f}
    BY <1>2, <2>2, ChainInsertBlockType DEF OnFinalizedBlock, marked
  <2>4. /\ block_buffer.blocks \ {f} \subseteq block_buffer'.blocks
        /\ block_buffer'.blocks \subseteq block_buffer.blocks
        /\ block_buffer.proofs \ {f} \subseteq block_buffer'.proofs
        /\ block_buffer'.proofs \subseteq block_buffer.proofs
    BY <1>2, <1>t, DropFields DEF OnFinalizedBlock, BufferRemoveBlock
  <2>5. /\ outcomes'.full = outcomes.full /\ outcomes'.proof = outcomes.proof
        /\ UNCHANGED <<inflight, connecting>>
    BY <1>2, <1>t DEF OnFinalizedBlock, NextOutcome, Downloads
  <2>. QED  BY <2>3, <2>4, <2>5 DEF PiecesKept, BlocksHere, ProofsHere, Ready
<1>3. ASSUME NEW h \in Hash, OnUnrecoverableFullBlock(h) PROVE PiecesKept
  <2>1. h \in Ancestry[h]
    BY AncestryClosed
  <2>2. Tainted(h)
    BY <1>3, <2>1 DEF OnUnrecoverableFullBlock, FaultFree, Tainted
  <2>3. outcomes'.full = outcomes.full \ {h} /\ outcomes'.proof = outcomes.proof
    BY <1>3, <1>t DEF OnUnrecoverableFullBlock, NextOutcome, Downloads
  <2>4. UNCHANGED <<chain_state, block_buffer, inflight, connecting>>
    BY <1>3 DEF OnUnrecoverableFullBlock, treeVars
  <2>. QED  BY <2>2, <2>3, <2>4 DEF PiecesKept, BlocksHere, ProofsHere
<1>4. ASSUME NEW f \in Hash, OnUnrecoverableFinalizedBlock(f) PROVE PiecesKept
  <2>1. outcomes'.full = outcomes.full /\ outcomes'.proof = outcomes.proof
    BY <1>4, <1>t DEF OnUnrecoverableFinalizedBlock, NextOutcome, Downloads
  <2>2. UNCHANGED <<chain_state, block_buffer, inflight, connecting>>
    BY <1>4 DEF OnUnrecoverableFinalizedBlock, treeVars
  <2>. QED  BY <2>1, <2>2 DEF PiecesKept, BlocksHere, ProofsHere
<1>. QED  BY <1>1, <1>2, <1>3, <1>4

\* The end of the loop loses no piece.
LEMMA FinishPending ==
    ASSUME TypeOK, FinishConnecting
    PROVE  PiecesKept
<1>. DEFINE V == chain_state.blocks_by_hash
            h == caller.hash
<1>t. chain_state \in Chains /\ inflight \in Downloads /\ canonical_head \in Hash
  BY DEF TypeOK
<1>1. h \in Hash
  BY DEF FinishConnecting, TypeOK, Handlers
<1>2. chain_state'.blocks_by_hash = V
  <2>1. ChainAfter(chain_state, canonical_head, h).blocks_by_hash = V
    BY <1>1, <1>t, HeadAfterType
  <2>. QED  BY <2>1 DEF FinishConnecting
<1>3. inflight' \in {inflight, DownloadProof(inflight, h)}
  BY DEF FinishConnecting
<1>4. inflight'.full = inflight.full /\ inflight.proof \subseteq inflight'.proof
  BY <1>1, <1>3, <1>t, DownloadProofAdds
<1>5. UNCHANGED <<block_buffer, outcomes, connecting>>
  BY DEF FinishConnecting
<1>. QED  BY <1>2, <1>4, <1>5 DEF PiecesKept, BlocksHere, ProofsHere

\* Every step of the engine keeps the invariant.
LEMMA PendingStep ==
    ASSUME ValidityInv, ReadyInv, BufferHasRoom, FaultFree, TypeOK', PendingInv, [Next]_vars,
           \A fcu \in ForkchoiceStates :
              FcuNewHead(fcu) => fcu.finalized \notin chain_state.blocks_by_hash
    PROVE  PendingInv'
<1>. SUFFICES PiecesKept
  BY PiecesKeptSuffices DEF ValidityInv
<1>t. TypeOK /\ SoundBuffer(block_buffer) /\ InvalidHeadersSound
  BY DEF ValidityInv, BufferInv
<1>1. CASE UNCHANGED <<chain_state, block_buffer, connecting, inflight, outcomes>>
  BY <1>1 DEF PiecesKept, BlocksHere, ProofsHere
<1>2. CASE UNCHANGED vars
  BY <1>1, <1>2 DEF vars, treeVars, engineVars
<1>3. CASE ParkedTimeout
  BY <1>1, <1>3 DEF ParkedTimeout, treeVars
<1>4. ASSUME NEW h \in Hash, ForgetInvalidHeader(h) PROVE PiecesKept
  BY <1>1, <1>4 DEF ForgetInvalidHeader
<1>. QED
  BY <1>2, <1>3, <1>4, <1>t, DownloadPending, ConnectPending, PayloadPending, ForkchoicePending,
     OutcomePending, FinishPending
     DEF Next, EngineStep, ClientMessage

\* Nothing the synchronisation needs is forgotten: for every order of
\* payloads, updates and downloads, the proof of a buffered block and the
\* parent of one that has its proof are there or requested.  This holds while
\* the buffer has room and on_finalized removes nothing, if verification makes
\* no mistake and does not fail.
THEOREM PiecesStayPending ==
    ASSUME FaultFree
    PROVE  Spec /\ []BufferHasRoom /\ NothingPruned => []PiecesPending
<1>1. Init => PendingInv
  <2>. SUFFICES ASSUME Init PROVE PendingInv
    OBVIOUS
  <2>1. block_buffer.blocks = {} /\ connecting = {} /\ inflight.full = {} /\ outcomes.full = {}
    BY DEF Init, TreeInit, BufferInit, EmptyBuffer, NoDownloads
  <2>. QED  BY <2>1 DEF PendingInv, BlocksHere, ProofsHere, Ready
<1>2. /\ ValidityInv /\ ReadyInv /\ BufferHasRoom /\ TypeOK' /\ PendingInv /\ [Next]_vars
      /\ [\A fcu \in ForkchoiceStates :
             FcuNewHead(fcu) => fcu.finalized \notin chain_state.blocks_by_hash]_vars
      => PendingInv'
  <2>. SUFFICES ASSUME ValidityInv, ReadyInv, BufferHasRoom, TypeOK', PendingInv, [Next]_vars,
                       [\A fcu \in ForkchoiceStates :
                           FcuNewHead(fcu) => fcu.finalized \notin chain_state.blocks_by_hash]_vars
                PROVE  PendingInv'
    OBVIOUS
  <2>1. CASE \A fcu \in ForkchoiceStates :
                FcuNewHead(fcu) => fcu.finalized \notin chain_state.blocks_by_hash
    BY <2>1, PendingStep
  <2>2. CASE UNCHANGED vars
    BY <2>2 DEF PendingInv, BlocksHere, ProofsHere, Ready, Tainted, vars, treeVars, engineVars
  <2>. QED  BY <2>1, <2>2
<1>3. TypeOK /\ ReadyInv /\ PendingInv => PiecesPending
  <2>. SUFFICES ASSUME TypeOK, ReadyInv, PendingInv, Settled
                PROVE  /\ \A h \in block_buffer.blocks \ block_buffer.proofs :
                             h \in chain_state.blocks_by_hash \/ Tainted(h) \/ h \in inflight.proof
                       /\ \A h \in block_buffer.blocks \cap block_buffer.proofs :
                             \/ Parent[h] \in chain_state.blocks_by_hash \cup block_buffer.blocks
                             \/ Tainted(h) \/ Parent[h] \in inflight.full
    BY DEF PiecesPending, ProofPending, AncestorPending
  <2>1. connecting = {} /\ outcomes.full = {} /\ outcomes.proof = {}
    BY DEF Settled, Awake, ReadyInv, NoDownloads
  <2>2. block_buffer.blocks \subseteq Hash
    BY DEF TypeOK, Buffers
  <2>. QED  BY <2>1, <2>2 DEF PendingInv, BlocksHere, ProofsHere, Ready
<1>. QED
  BY <1>1, <1>2, <1>3, ValidityInduction, EngineTypeCorrect, ReadyInduction, PTL
     DEF Spec, NothingPruned
=============================================================================
