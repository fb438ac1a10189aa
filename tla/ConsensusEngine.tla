-------------------------- MODULE ConsensusEngine --------------------------
(***************************************************************************)
(* The consensus engine (crates/engine/src/engine.rs): one task that takes *)
(* the outcomes of downloads first, then the timeout of the parked         *)
(* payload, then the next message of the consensus client, and runs the    *)
(* handler of the engine tree for it (crates/engine/src/tree/mod.rs).      *)
(*                                                                         *)
(* A handler is one step, except that the loop of                          *)
(* try_connect_buffered_blocks takes one step per block: caller then holds *)
(* the handler that runs the loop, connecting the blocks still to come,    *)
(* and no other step of the engine is possible.                            *)
(*                                                                         *)
(* The downloader (crates/engine/src/download/mod.rs) holds, per kind, the *)
(* hashes with a request in flight and the outcomes not taken yet.  The    *)
(* order of requests of one kind is not kept: any of them may be next.     *)
(***************************************************************************)
EXTENDS EngineTree

CONSTANTS
    Payloads,               \* blocks the consensus client sends with newPayload
    MalformedPayloads,      \* hashes it sends with a payload that is not well formed
    ForkchoiceStates,       \* the forkchoice updates it sends
    Unrecoverable,          \* blocks with a transaction whose sender is not recoverable
    MaxMessages,            \* bound on the number of messages it sends
    Persistent              \* whether it goes on beyond the bound, for ever

Attributes == {"none", "good", "bad"}

ASSUME MessagesAssumption ==
    /\ Payloads \subseteq Hash \ {Genesis}
    /\ MalformedPayloads \subseteq Hash \ {Genesis}
    /\ ForkchoiceStates \subseteq
          [ head : Hash \cup {Zero}, safe : Hash \cup {Zero},
            finalized : Hash \cup {Zero}, attributes : Attributes ]
    /\ Unrecoverable \subseteq Hash
    /\ MaxMessages \in Nat
    /\ Persistent \in BOOLEAN

VARIABLES
    parked_payload,     \* hash of the payload whose answer waits for its proof, or None
    inflight,           \* downloader: requests in flight, by kind
    outcomes,           \* downloader: finished downloads the engine has not taken
    caller,             \* the handler that is connecting buffered blocks, or None
    connecting,         \* the blocks it has taken out of the buffer and not inserted yet
    response,           \* the answer sent to the consensus client in this step, or None
    messages,           \* number of messages taken so far, up to MaxMessages
    running             \* FALSE when the engine task has ended with an error

engineVars == <<parked_payload, inflight, outcomes, caller, connecting, response, messages, running>>
vars == <<treeVars, engineVars>>

Kinds == {"finalized", "full", "proof"}
NoDownloads == [finalized |-> {}, full |-> {}, proof |-> {}]

Statuses == {"VALID", "INVALID", "SYNCING", "INVALID_STATE", "INVALID_ATTRIBUTES", "ERROR"}
Answer(to, h, status) == [to |-> to, hash |-> h, status |-> status]

Init ==
    /\ TreeInit
    /\ parked_payload = None
    /\ inflight = NoDownloads
    /\ outcomes = NoDownloads
    /\ caller = None
    /\ connecting = {}
    /\ response = None
    /\ messages = 0
    /\ running = TRUE

-----------------------------------------------------------------------------
(* Requests to the downloader.  A hash with a request in flight is not     *)
(* requested again.                                                        *)

DownloadProof(requests, h) == [requests EXCEPT !.proof = @ \cup {h}]

DownloadFinalized(requests, h) == [requests EXCEPT !.finalized = @ \cup {h}]

\* The event download_block(h): the block, and its proof unless it is buffered.
DownloadBlock(requests, buf, h) ==
    [requests EXCEPT !.full = @ \cup {h}, !.proof = @ \cup ({h} \ buf.proofs)]

\* What peers can deliver.  The headers of a finalized block are requested as
\* one range of AncestorWindow headers, and genesis has no proof.
Deliverable ==
    [ finalized |-> {h \in Hash : Number[h] >= AncestorWindow},
      full      |-> Hash,
      proof     |-> Hash \ {Genesis} ]

-----------------------------------------------------------------------------
(* EngineDownloader::poll.                                                 *)

Awake == running /\ caller = None

\* The sets of requests of one kind that may be found ready together.
Completable(kind) == SUBSET (inflight[kind] \cap Deliverable[kind])

\* Faulty variant: a request that is ready stays in flight.
PollDownloaderKept ==
    /\ Awake
    /\ outcomes = NoDownloads
    /\ \E ready \in [finalized : Completable("finalized"), full : Completable("full"),
                     proof : Completable("proof")] \ {NoDownloads} :
          outcomes' = ready
    /\ response' = None
    /\ UNCHANGED <<treeVars, parked_payload, inflight, caller, connecting, messages, running>>

\* All outcomes are taken: some of the requests in flight are ready.
PollDownloader ==
    /\ Awake
    /\ outcomes = NoDownloads
    /\ \E ready \in [finalized : Completable("finalized"), full : Completable("full"),
                     proof : Completable("proof")] \ {NoDownloads} :
          /\ outcomes' = ready
          /\ inflight' = [k \in Kinds |-> inflight[k] \ ready[k]]
    /\ response' = None
    /\ UNCHANGED <<treeVars, parked_payload, caller, connecting, messages, running>>

\* Outcomes of finalized blocks are taken first, those of proofs last.
NextOutcome(kind, h) ==
    /\ Awake
    /\ h \in outcomes[kind]
    /\ kind # "finalized" => outcomes.finalized = {}
    /\ kind = "proof" => outcomes.full = {}
    /\ outcomes' = [outcomes EXCEPT ![kind] = @ \ {h}]

-----------------------------------------------------------------------------
(* try_connect_buffered_blocks.                                            *)

\* Take the linked descendants of h that have a proof (and h itself, when it
\* is still there) out of the buffer, and go on with the loop.
StartConnecting(buf, h, handler) ==
    /\ caller' = handler
    /\ connecting' = RemovedWithChildren(buf, h)
    /\ block_buffer' = BufferRemoveBlockWithChildren(buf, h)

\* Faulty variant: the payload is unparked without an answer.
AnswerParkedSilently(h, status) ==
    /\ parked_payload' = IF parked_payload = h THEN None ELSE parked_payload
    /\ response' = None

AnswerParked(h, status) ==
    IF parked_payload = h
    THEN parked_payload' = None /\ response' = Answer("payload", h, status)
    ELSE response' = None /\ UNCHANGED parked_payload

\* The loop inserts parents before their children; any such order may occur.
\* None of its blocks is validated already (ReadyBlocksNotStored), so the
\* result of insert_block is never AlreadySeen.
NextToConnect(h) ==
    /\ running
    /\ caller # None
    /\ h \in connecting
    /\ Ancestry[h] \cap connecting = {h}
    /\ UNCHANGED <<sync_target, inflight, outcomes, messages, running>>

ConnectValid(h) ==
    /\ NextToConnect(h)
    /\ "Valid" \in InsertResults(chain_state, h, TRUE)
    /\ LET inserted == ChainInsertBlock(chain_state, h, TRUE)
       IN  IF sync_target = h
           THEN /\ canonical_head' = HeadAfter(inserted, canonical_head, h)
                /\ chain_state' = ChainAfter(inserted, canonical_head, h)
           ELSE chain_state' = inserted /\ UNCHANGED canonical_head
    /\ connecting' = connecting \ {h}
    /\ response' = None
    /\ UNCHANGED <<block_buffer, invalid_headers, parked_payload, caller>>

\* An ancestor turned out to be invalid: the block goes back to the buffer.
ConnectDisconnected(h) ==
    /\ NextToConnect(h)
    /\ "Disconnected" \in InsertResults(chain_state, h, TRUE)
    /\ block_buffer' = BufferDisconnected(block_buffer, h, TRUE)
    /\ connecting' = connecting \ {h}
    /\ response' = None
    /\ UNCHANGED <<chain_state, canonical_head, invalid_headers, parked_payload, caller>>

ConnectInvalid(h) ==
    /\ NextToConnect(h)
    /\ "Invalid" \in InsertResults(chain_state, h, TRUE)
    /\ invalid_headers' = NoteInvalid(invalid_headers, h, h)
    /\ connecting' = connecting \ {h}
    /\ response' = None
    /\ UNCHANGED <<block_buffer, chain_state, canonical_head, parked_payload, caller>>

\* The loop ends with the error and the blocks still to come are dropped.
ConnectFatal(h) ==
    /\ NextToConnect(h)
    /\ "Fatal" \in InsertResults(chain_state, h, TRUE)
    /\ connecting' = {}
    /\ caller' = None
    /\ IF caller.message = "payload"
       THEN response' = Answer("payload", caller.hash, "ERROR") /\ UNCHANGED parked_payload
       ELSE AnswerParked(caller.hash, "ERROR")
    /\ UNCHANGED <<block_buffer, chain_state, canonical_head, invalid_headers>>

\* The rest of the handler after the loop: make the block canonical when it
\* is the sync target, and answer.
FinishConnecting ==
    /\ running
    /\ caller # None
    /\ connecting = {}
    /\ LET h == caller.hash
           target == sync_target = h
       IN  /\ canonical_head' =
                  IF target THEN HeadAfter(chain_state, canonical_head, h) ELSE canonical_head
           /\ chain_state' =
                  IF target THEN ChainAfter(chain_state, canonical_head, h) ELSE chain_state
           /\ inflight' = IF target /\ caller.message = "payload" /\ ~caller.has_proof
                          THEN DownloadProof(inflight, h) ELSE inflight
           /\ IF caller.message = "payload"
              THEN response' = Answer("payload", h, "VALID") /\ UNCHANGED parked_payload
              ELSE AnswerParked(h, "VALID")
    /\ caller' = None
    /\ UNCHANGED <<block_buffer, sync_target, invalid_headers, outcomes, connecting, messages, running>>

-----------------------------------------------------------------------------
(* on_download_outcome.                                                    *)

\* The block h and its proof are both there: on_downloaded_block, with the
\* buffer buf from which h has been removed.  h itself is not buffered any
\* more, so the check for an invalid ancestor looks at h alone.
DownloadedInvalidAncestor(h, buf) ==
    /\ KnownInvalid(invalid_headers, LowestBufferedAncestorOr(buf, h))
    /\ invalid_headers' =
          NoteInvalid(invalid_headers, h, invalid_headers[LowestBufferedAncestorOr(buf, h)])
    /\ block_buffer' = buf
    /\ AnswerParked(h, "INVALID")
    /\ UNCHANGED <<chain_state, inflight, caller, connecting>>

DownloadedInserted(h, buf) ==
    /\ ~KnownInvalid(invalid_headers, LowestBufferedAncestorOr(buf, h))
    /\ \/ /\ "Valid" \in InsertResults(chain_state, h, TRUE)
          /\ chain_state' = ChainInsertBlock(chain_state, h, TRUE)
          /\ StartConnecting(buf, h, [message |-> "download", hash |-> h, has_proof |-> TRUE])
          /\ response' = None
          /\ UNCHANGED <<invalid_headers, parked_payload, inflight>>
       \/ /\ "AlreadySeen" \in InsertResults(chain_state, h, TRUE)
          /\ block_buffer' = buf
          /\ AnswerParked(h, "VALID")
          /\ UNCHANGED <<chain_state, invalid_headers, inflight, caller, connecting>>
       \/ /\ "Disconnected" \in InsertResults(chain_state, h, TRUE)
          /\ block_buffer' = BufferDisconnected(buf, h, TRUE)
          /\ inflight' = DownloadBlock(inflight, block_buffer', MissingAncestor(buf, h))
          /\ AnswerParked(h, "SYNCING")
          /\ UNCHANGED <<chain_state, invalid_headers, caller, connecting>>
       \/ /\ "Invalid" \in InsertResults(chain_state, h, TRUE)
          /\ block_buffer' = buf
          /\ invalid_headers' = NoteInvalid(invalid_headers, h, h)
          /\ AnswerParked(h, "INVALID")
          /\ UNCHANGED <<chain_state, inflight, caller, connecting>>
       \/ /\ "Fatal" \in InsertResults(chain_state, h, TRUE)
          /\ block_buffer' = buf
          /\ AnswerParked(h, "ERROR")
          /\ UNCHANGED <<chain_state, invalid_headers, inflight, caller, connecting>>

\* The rest of on_download_outcome once the block or the proof is in buf.
Unlocked(h, buf) ==
    \/ /\ ~Removable(buf, h)
       /\ block_buffer' = buf
       /\ response' = None
       /\ UNCHANGED <<chain_state, invalid_headers, parked_payload, inflight, caller, connecting>>
    \/ /\ Removable(buf, h)
       /\ \E b \in {BufferRemoveBlock(buf, h)} : DownloadedInvalidAncestor(h, b)
    \/ /\ Removable(buf, h)
       /\ \E b \in {BufferRemoveBlock(buf, h)} : DownloadedInserted(h, b)

OnProof(h) ==
    /\ NextOutcome("proof", h)
    /\ \E buf \in {BufferInsertProof(block_buffer, h)} : Unlocked(h, buf)
    /\ UNCHANGED <<canonical_head, sync_target, messages, running>>

OnFullBlock(h) ==
    /\ h \notin Unrecoverable
    /\ NextOutcome("full", h)
    /\ \E buf \in {BufferInsertBlock(block_buffer, h)} : Unlocked(h, buf)
    /\ UNCHANGED <<canonical_head, sync_target, messages, running>>

OnUnrecoverableFullBlock(h) ==
    /\ h \in Unrecoverable
    /\ NextOutcome("full", h)
    /\ response' = None
    /\ UNCHANGED <<treeVars, parked_payload, inflight, caller, connecting, messages, running>>

\* The downloaded headers below the finalized block f.
FinalizedAncestors(f) == {x \in Ancestry[f] \ {f} : Number[x] + AncestorWindow >= Number[f]}

\* f becomes the head without a proof, whatever the head was.  If it was
\* buffered with its proof it leaves the buffer as a block already seen.
OnFinalizedBlock(f) ==
    /\ f \notin Unrecoverable
    /\ NextOutcome("finalized", f)
    /\ canonical_head' = f
    /\ chain_state' = ChainInsertBlock(
                          InsertCanonicalHashes(chain_state, {f} \cup FinalizedAncestors(f)), f, FALSE)
    /\ block_buffer' = BufferRemoveBlock(block_buffer, f)
    /\ IF Removable(block_buffer, f)
       THEN AnswerParked(f, IF KnownInvalid(invalid_headers, f) THEN "INVALID" ELSE "VALID")
       ELSE response' = None /\ UNCHANGED parked_payload
    /\ UNCHANGED <<sync_target, invalid_headers, inflight, caller, connecting, messages, running>>

\* The engine task ends with a fatal error.
OnUnrecoverableFinalizedBlock(f) ==
    /\ f \in Unrecoverable
    /\ NextOutcome("finalized", f)
    /\ running' = FALSE
    /\ response' = None
    /\ UNCHANGED <<treeVars, parked_payload, inflight, caller, connecting, messages>>

-----------------------------------------------------------------------------
(* The parked payload.                                                     *)

ParkedTimeout ==
    /\ Awake
    /\ outcomes = NoDownloads
    /\ parked_payload # None
    /\ parked_payload' = None
    /\ response' = Answer("payload", parked_payload, "SYNCING")
    /\ UNCHANGED <<treeVars, inflight, outcomes, caller, connecting, messages, running>>

\* The cache of invalid headers drops an entry that was asked for 128 times,
\* or the oldest one when a 257th is inserted.
ForgetInvalidHeader(h) ==
    /\ Awake
    /\ invalid_headers[h] # None
    /\ invalid_headers' = [invalid_headers EXCEPT ![h] = None]
    /\ response' = None
    /\ UNCHANGED <<block_buffer, chain_state, canonical_head, sync_target, parked_payload, inflight,
                   outcomes, caller, connecting, messages, running>>

-----------------------------------------------------------------------------
(* NewPayload.                                                             *)

\* No outcome is waiting and no payload is parked: the next message.
NextMessage ==
    /\ Awake
    /\ outcomes = NoDownloads
    /\ parked_payload = None
    /\ \/ messages < MaxMessages /\ messages' = messages + 1
       \/ Persistent /\ messages = MaxMessages /\ messages' = messages
    /\ UNCHANGED <<outcomes, running>>

\* The buffered proof of the payload is taken out before anything else.
NewPayload(h) ==
    /\ h \in Payloads
    /\ NextMessage
    /\ UNCHANGED <<canonical_head, sync_target>>

HasProof(h) == h \in block_buffer.proofs
WithoutProof(h) == BufferRemoveProof(block_buffer, h)
PayloadRefused(h) == KnownInvalid(invalid_headers, PayloadCheck(WithoutProof(h), h))

NewPayloadMalformed(h) ==
    /\ h \in MalformedPayloads
    /\ NextMessage
    /\ block_buffer' = WithoutProof(h)
    /\ response' = Answer("payload", h, "INVALID")
    /\ UNCHANGED <<chain_state, canonical_head, sync_target, invalid_headers, parked_payload,
                   inflight, caller, connecting>>

NewPayloadInvalidAncestor(h) ==
    /\ NewPayload(h)
    /\ PayloadRefused(h)
    /\ invalid_headers' =
          NoteInvalid(invalid_headers, h, invalid_headers[PayloadCheck(WithoutProof(h), h)])
    /\ block_buffer' = WithoutProof(h)
    /\ response' = Answer("payload", h, "INVALID")
    /\ UNCHANGED <<chain_state, parked_payload, inflight, caller, connecting>>

\* Valid or AlreadySeen: the handler goes on with the loop.
NewPayloadValid(h) ==
    /\ NewPayload(h)
    /\ ~PayloadRefused(h)
    /\ \/ /\ "Valid" \in InsertResults(chain_state, h, HasProof(h))
          /\ chain_state' = ChainInsertBlock(chain_state, h, TRUE)
       \/ /\ "AlreadySeen" \in InsertResults(chain_state, h, HasProof(h))
          /\ UNCHANGED chain_state
    /\ StartConnecting(WithoutProof(h), h,
                       [message |-> "payload", hash |-> h, has_proof |-> HasProof(h)])
    /\ response' = None
    /\ UNCHANGED <<invalid_headers, parked_payload, inflight>>

NewPayloadDisconnected(h) ==
    /\ NewPayload(h)
    /\ ~PayloadRefused(h)
    /\ "Disconnected" \in InsertResults(chain_state, h, HasProof(h))
    /\ block_buffer' = BufferDisconnected(WithoutProof(h), h, HasProof(h))
    /\ LET requests == DownloadBlock(inflight, block_buffer', MissingAncestor(WithoutProof(h), h))
       IN  inflight' = IF HasProof(h) THEN requests ELSE DownloadProof(requests, h)
    /\ response' = Answer("payload", h, "SYNCING")
    /\ UNCHANGED <<chain_state, invalid_headers, parked_payload, caller, connecting>>

\* The answer waits for the proof.
NewPayloadNoProof(h) ==
    /\ NewPayload(h)
    /\ ~PayloadRefused(h)
    /\ "NoProof" \in InsertResults(chain_state, h, HasProof(h))
    /\ block_buffer' = BufferInsertBlock(WithoutProof(h), h)
    /\ inflight' = DownloadProof(inflight, h)
    /\ parked_payload' = h
    /\ response' = None
    /\ UNCHANGED <<chain_state, invalid_headers, caller, connecting>>

NewPayloadInvalid(h) ==
    /\ NewPayload(h)
    /\ ~PayloadRefused(h)
    /\ "Invalid" \in InsertResults(chain_state, h, HasProof(h))
    /\ invalid_headers' = NoteInvalid(invalid_headers, h, h)
    /\ block_buffer' = WithoutProof(h)
    /\ response' = Answer("payload", h, "INVALID")
    /\ UNCHANGED <<chain_state, parked_payload, inflight, caller, connecting>>

NewPayloadFatal(h) ==
    /\ NewPayload(h)
    /\ ~PayloadRefused(h)
    /\ "Fatal" \in InsertResults(chain_state, h, HasProof(h))
    /\ block_buffer' = WithoutProof(h)
    /\ response' = Answer("payload", h, "ERROR")
    /\ UNCHANGED <<chain_state, invalid_headers, parked_payload, inflight, caller, connecting>>

-----------------------------------------------------------------------------
(* ForkchoiceUpdated.                                                      *)

\* ForkchoiceStateTracker::set_latest.
TrackForkchoice(fcu, status) ==
    sync_target' = CASE status \in {"VALID", "INVALID_ATTRIBUTES"} -> None
                     [] status = "SYNCING" -> fcu.head
                     [] OTHER -> sync_target

AnswerForkchoice(fcu, status) ==
    /\ response' = Answer("forkchoice", fcu.head, status)
    /\ TrackForkchoice(fcu, status)

ForkchoiceUpdated(fcu) ==
    /\ NextMessage
    /\ UNCHANGED <<invalid_headers, parked_payload, caller, connecting>>

\* pre_validate_forkchoice_update finds nothing to object to.
Processable(fcu) ==
    /\ fcu.head # Zero
    /\ ~KnownInvalid(invalid_headers, LowestBufferedAncestorOr(block_buffer, fcu.head))

\* The status of an update that was applied.
AppliedStatus(fcu) == IF fcu.attributes = "bad" THEN "INVALID_ATTRIBUTES" ELSE "VALID"

FcuRefused(fcu) ==
    /\ ForkchoiceUpdated(fcu)
    /\ ~Processable(fcu)
    /\ AnswerForkchoice(fcu, IF fcu.head = Zero THEN "INVALID_STATE" ELSE "INVALID")
    /\ UNCHANGED <<block_buffer, chain_state, canonical_head, inflight>>

\* 1. The head does not change.
FcuSameHead(fcu) ==
    /\ ForkchoiceUpdated(fcu)
    /\ Processable(fcu)
    /\ fcu.head = canonical_head
    /\ AnswerForkchoice(fcu,
          IF ~ConsistentForkchoice(chain_state, fcu) THEN "INVALID_STATE"
          ELSE IF fcu.attributes # "none" /\ canonical_head \notin chain_state.blocks_by_hash
          THEN "ERROR"
          ELSE AppliedStatus(fcu))
    /\ UNCHANGED <<block_buffer, chain_state, canonical_head, inflight>>

\* 2. A new head.  It stays even when safe or finalized turn out not to be
\* on its chain; otherwise what finalization makes obsolete is removed.
FcuNewHead(fcu) ==
    /\ ForkchoiceUpdated(fcu)
    /\ Processable(fcu)
    /\ fcu.head # canonical_head
    /\ HasNewHead(chain_state, canonical_head, fcu.head)
    /\ canonical_head' = fcu.head
    /\ LET updated == CanonicalChainUpdate(chain_state, canonical_head, fcu.head)
       IN  \/ /\ ~ConsistentForkchoice(updated, fcu)
              /\ chain_state' = updated
              /\ AnswerForkchoice(fcu, "INVALID_STATE")
              /\ UNCHANGED block_buffer
           \/ /\ ConsistentForkchoice(updated, fcu)
              /\ chain_state' = RemoveBlocksOnFinalized(updated, fcu.finalized)
              /\ block_buffer' = IF fcu.finalized \in chain_state'.blocks_by_hash
                                 THEN BufferEvictOldBlocks(block_buffer, Number[fcu.finalized])
                                 ELSE block_buffer
              /\ AnswerForkchoice(fcu, AppliedStatus(fcu))
    /\ UNCHANGED inflight

\* Faulty variant: a validated block is not made the head.
FcuKnownHeadFirst(fcu) ==
    /\ ForkchoiceUpdated(fcu)
    /\ Processable(fcu)
    /\ fcu.head # canonical_head
    /\ fcu.head \in chain_state.blocks_by_hash
    /\ AnswerForkchoice(fcu, "VALID")
    /\ UNCHANGED <<block_buffer, chain_state, canonical_head, inflight>>

\* 3. No new head, but the block is validated.
FcuKnownHead(fcu) ==
    /\ ForkchoiceUpdated(fcu)
    /\ Processable(fcu)
    /\ fcu.head # canonical_head
    /\ ~HasNewHead(chain_state, canonical_head, fcu.head)
    /\ fcu.head \in chain_state.blocks_by_hash
    /\ AnswerForkchoice(fcu, "VALID")
    /\ UNCHANGED <<block_buffer, chain_state, canonical_head, inflight>>

\* 4. The block is missing.
Missing(h) == h # Zero /\ ~IsBlockPersistedOrBuffered(block_buffer, chain_state, h)

\* Faulty variant: the safe block stays the target when it is there already.
SyncRequestsSafe(fcu) ==
    LET target == LowestBufferedAncestorOr(block_buffer,
                      IF fcu.safe # Zero THEN fcu.safe ELSE fcu.head)
    IN  IF Missing(fcu.finalized) THEN DownloadFinalized(inflight, fcu.finalized)
        ELSE IF target # fcu.finalized
                /\ ~IsBlockPersistedOrBuffered(block_buffer, chain_state, target)
        THEN DownloadBlock(inflight, block_buffer, target)
        ELSE inflight

SyncRequests(fcu) ==
    LET target == LowestBufferedAncestorOr(block_buffer,
                      IF Missing(fcu.safe) THEN fcu.safe ELSE fcu.head)
    IN  IF Missing(fcu.finalized) THEN DownloadFinalized(inflight, fcu.finalized)
        ELSE IF target # fcu.finalized
                /\ ~IsBlockPersistedOrBuffered(block_buffer, chain_state, target)
        THEN DownloadBlock(inflight, block_buffer, target)
        ELSE inflight

FcuSyncing(fcu) ==
    /\ ForkchoiceUpdated(fcu)
    /\ Processable(fcu)
    /\ fcu.head \notin {canonical_head} \cup chain_state.blocks_by_hash
    /\ inflight' = SyncRequests(fcu)
    /\ AnswerForkchoice(fcu, "SYNCING")
    /\ UNCHANGED <<block_buffer, chain_state, canonical_head>>

-----------------------------------------------------------------------------
EngineStep ==
    \/ \E h \in Hash :
          \/ ConnectValid(h) \/ ConnectDisconnected(h)
          \/ ConnectInvalid(h) \/ ConnectFatal(h)
          \/ OnProof(h) \/ OnFullBlock(h) \/ OnUnrecoverableFullBlock(h)
          \/ OnFinalizedBlock(h) \/ OnUnrecoverableFinalizedBlock(h)
    \/ FinishConnecting

ClientMessage ==
    \/ \E h \in Hash :
          \/ NewPayloadMalformed(h) \/ NewPayloadInvalidAncestor(h) \/ NewPayloadValid(h)
          \/ NewPayloadDisconnected(h) \/ NewPayloadNoProof(h)
          \/ NewPayloadInvalid(h) \/ NewPayloadFatal(h)
    \/ \E fcu \in ForkchoiceStates :
          \/ FcuRefused(fcu) \/ FcuSameHead(fcu) \/ FcuNewHead(fcu)
          \/ FcuKnownHead(fcu) \/ FcuSyncing(fcu)

Next ==
    \/ EngineStep
    \/ PollDownloader
    \/ ParkedTimeout
    \/ ClientMessage
    \/ \E h \in Hash : ForgetInvalidHeader(h)

Spec == Init /\ [][Next]_vars

\* The task is polled while it has work, the timer of a parked payload fires,
\* and every request is answered in the end, as DownloadQueue says: it is
\* retried until a peer does, also when the same block is requested again and
\* again.
Fairness ==
    /\ WF_vars(EngineStep)
    /\ WF_vars(ParkedTimeout)
    /\ \A k \in Kinds : \A h \in Deliverable[k] : SF_vars(PollDownloader /\ h \in outcomes'[k])

FairSpec == Spec /\ Fairness
=============================================================================
