-------------------------- MODULE EngineProperties --------------------------
(***************************************************************************)
(* What the consensus engine promises, stated over the state of            *)
(* ConsensusEngine.                                                        *)
(***************************************************************************)
EXTENDS ConsensusEngine

Handlers == [message : {"payload", "download"}, hash : Hash, has_proof : BOOLEAN]
Answers == [to : {"payload", "forkchoice"}, hash : Hash \cup {Zero}, status : Statuses]
Downloads == [finalized : SUBSET Hash, full : SUBSET (Hash \cup {Zero}), proof : SUBSET (Hash \cup {Zero})]

\* The value that says that no handler runs the loop is not a handler.
ASSUME NoneAssumption == None \notin Handlers

\* Every variable of the engine, its tree and its downloader holds a value of
\* the shape the code gives it.
TypeOK ==
    /\ block_buffer \in Buffers
    /\ chain_state \in Chains
    /\ canonical_head \in Hash
    /\ sync_target \in Hash \cup {None}
    /\ invalid_headers \in [Hash -> Hash \cup {None}]
    /\ parked_payload \in Hash \cup {None}
    /\ inflight \in Downloads
    /\ outcomes \in Downloads
    /\ caller \in Handlers \cup {None}
    /\ connecting \subseteq Hash
    /\ response \in Answers \cup {None}
    /\ messages \in 0 .. MaxMessages
    /\ running \in BOOLEAN

-----------------------------------------------------------------------------
(* Validity.                                                               *)

\* Blocks that no verification accepts, and their descendants.
Bad == FailsConsensus \cup {h \in Hash : "Valid" \notin Verdicts[h]}
Tainted(h) == Ancestry[h] \cap Bad # {}

\* Blocks that verification may reject; a faulty proof can do that to a good one.
Rejectable == FailsConsensus \cup {h \in Hash : "Invalid" \in Verdicts[h]}

\* The genesis block, and the blocks the consensus client names as finalized,
\* are stored without being verified: they are taken to be valid.
ASSUME TrustedBlocksAssumption ==
    /\ ~Tainted(Genesis)
    /\ \A fcu \in ForkchoiceStates : fcu.finalized \in Hash => ~Tainted(fcu.finalized)

\* Whatever the order in which payloads, blocks and proofs arrive, and whatever
\* is buffered and connected later, insert_block never stores a block that is
\* invalid or has an invalid ancestor among the validated ones.
NoInvalidBlockAdmitted == \A h \in chain_state.blocks_by_hash : ~Tainted(h)

\* The invalid header cache only speaks of blocks that were rejected, and of
\* descendants of them: a block is never refused for an unrelated one.
InvalidHeadersSound ==
    \A h \in Hash : invalid_headers[h] # None =>
        /\ invalid_headers[h] \in Ancestry[h]
        /\ invalid_headers[h] \in FailsConsensus
              \/ "Invalid" \in Verdicts[invalid_headers[h]]

\* h is a validated block, and every block between it and its descendant x
\* descends from a rejected one: the two conditions on the latest valid hash that
\* are quoted above latest_valid_hash_for_invalid_payload.
LatestValidAncestor(h, x) ==
    /\ h \in Ancestry[x] \cap chain_state.blocks_by_hash
    /\ \A y \in LineAbove(x, Number[h]) : Ancestry[y] \cap Rejectable # {}

\* What is below the rejected block r is neither stored nor in the cache.
NothingKnownBelow(r) ==
    Parent[r] \notin chain_state.blocks_by_hash /\ ~KnownInvalid(invalid_headers, Parent[r])

\* The hash answered for a block known to be invalid is that of its latest valid
\* ancestor, or zero.  The zero hash is answered for a rejected block on a
\* proof-of-work block, and otherwise only where the walk cannot go on because
\* nothing is known below a rejected ancestor.
LatestValidHashSound ==
    \A h \in Hash : KnownInvalid(invalid_headers, h) =>
        LET v == PrepareInvalidResponse(chain_state, invalid_headers, h)
            p == Parent[invalid_headers[h]]
        IN  /\ v # Zero => LatestValidAncestor(v, h)
            /\ v = Zero => \/ p \in chain_state.blocks_by_hash \cap PowBlocks
                           \/ \E r \in Ancestry[h] \cap Rejectable : NothingKnownBelow(r)

\* The zero hash is answered "if the above conditions are satisfied by a PoW
\* block", and null "if client software cannot determine the ancestor"
\* (tree/mod.rs:809-812).  unwrap_or_default turns the second into the first.
ZeroHashMeansPow ==
    \A h \in Hash :
        /\ KnownInvalid(invalid_headers, h)
        /\ PrepareInvalidResponse(chain_state, invalid_headers, h) = Zero
        => \E p \in PowBlocks : LatestValidAncestor(p, h)

-----------------------------------------------------------------------------
(* The canonical chain.                                                    *)

\* The canonical hashes are those of the chain of the head: whatever commits,
\* reorganisations, rewinds and finalizations there were, no block of another
\* branch or above the head is left among them, and there is no gap between the
\* lowest of them and the head.
CanonicalSound ==
    LET canonical == chain_state.canonical_hashes_by_number
    IN  /\ \A n \in Heights : canonical[n] # None =>
              canonical[n] \in Ancestry[canonical_head] /\ Number[canonical[n]] = n
        /\ canonical[Number[canonical_head]] = canonical_head
        /\ \A m, n \in Heights :
              canonical[m] # None /\ m < n /\ n < Number[canonical_head] => canonical[n] # None

\* BLOCKHASH, executed on top of a validated block p, never sees a hash that
\* is not on the chain of p, and finds every hash of the window when p is
\* connected to the canonical chain through validated blocks.
BlockHashExact ==
    \A p \in chain_state.blocks_by_hash, n \in Heights :
        LET found == BlockHash(chain_state, p, n)
        IN  /\ found \subseteq {a \in Ancestry[p] : Number[a] = n}
            /\ /\ \E a \in ExecutedLine(chain_state, p) : IsHashCanonical(chain_state, a)
               /\ n <= Number[p]
               /\ Number[p] < n + AncestorWindow
               => found # {}

-----------------------------------------------------------------------------
(* Progress of the synchronisation, as invariants.                         *)

\* No handler is running and every finished download has been handled.
Settled == Awake /\ outcomes = NoDownloads

\* A block that is in the buffer with its proof, or was taken out of it to be
\* connected, is not validated yet: duplicate downloads, repeated payloads and
\* finalized blocks never make the engine insert a block twice.
ReadyBlocksNotStored ==
    (connecting \cup (block_buffer.blocks \cap block_buffer.proofs))
        \cap chain_state.blocks_by_hash = {}

\* A buffered block that has its proof waits for its parent: it is never left
\* behind in the buffer once its parent is validated.
NoStrandedBlock ==
    Settled => \A h \in block_buffer.blocks \cap block_buffer.proofs :
                  Parent[h] \notin chain_state.blocks_by_hash

\* A buffered block without a proof, unless it is validated or invalid, has
\* a proof on the way.
ProofPending ==
    Settled => \A h \in block_buffer.blocks \ block_buffer.proofs :
                  \/ h \in chain_state.blocks_by_hash
                  \/ Tainted(h)
                  \/ h \in inflight.proof

\* A buffered block with its proof, unless it is invalid, has its parent
\* buffered, validated or on the way.
AncestorPending ==
    Settled => \A h \in block_buffer.blocks \cap block_buffer.proofs :
                  \/ Parent[h] \in chain_state.blocks_by_hash \cup block_buffer.blocks
                  \/ Tainted(h)
                  \/ Parent[h] \in inflight.full

\* Nothing the synchronisation still needs is forgotten: what the blocks in
\* the buffer lack is on the way.
PiecesPending == ProofPending /\ AncestorPending

\* As soon as the sync target is validated it is the head.
SyncTargetBecomesHead ==
    Settled /\ sync_target \in chain_state.blocks_by_hash => canonical_head = sync_target

\* A payload whose answer waits for its proof is answered.
ParkedPayloadAnswered ==
    \A h \in Hash : parked_payload = h ~>
        response # None /\ response.to = "payload" /\ response.hash = h

\* A valid sync target becomes the head without another message of the
\* client, unless the client moves on, or named a safe block with it, which is
\* synced to first.
SyncCompletes ==
    \A h \in Hash :
        (\A fcu \in ForkchoiceStates : fcu.head = h => fcu.safe = Zero) =>
            (sync_target = h /\ ~Tainted(h) ~> canonical_head = h \/ sync_target # h)

\* The client sends each of its forkchoice updates again and again, and the
\* engine reads them: an update stays in the channel until no outcome is left.
ClientPersists ==
    \A fcu \in ForkchoiceStates :
        SF_vars(\/ FcuRefused(fcu) \/ FcuSameHead(fcu) \/ FcuNewHead(fcu)
                \/ FcuKnownHead(fcu) \/ FcuSyncing(fcu))

\* A client that repeats its forkchoice updates gets each of their heads, also
\* when the safe block they name is missing, and syncing to it comes first.
RepeatedUpdatesComplete ==
    ClientPersists =>
        \A fcu \in ForkchoiceStates : ~Tainted(fcu.head) => []<>(canonical_head = fcu.head)

-----------------------------------------------------------------------------
(* The engine and the consensus client.                                    *)

Api ==
    INSTANCE EngineApi
        WITH Acceptable <- Hash \ Bad,
             Failing    <- {h \in Hash : "Fatal" \in Verdicts[h]},
             validated  <- chain_state.blocks_by_hash,
             head       <- canonical_head,
             target     <- sync_target,
             finalizing <- inflight.finalized \cup outcomes.finalized

\* With everything but the validated blocks, the head and the answers hidden,
\* the engine does what EngineApi says: blocks are validated one at a time and
\* on validated parents, the head only moves to a block the client has named,
\* and the answer fits the state it is given in.
ImplementsEngineApi == Api!ApiSpec

-----------------------------------------------------------------------------
(* The engine and its downloader.                                          *)

Queue == INSTANCE DownloadQueue WITH Hash <- Hash \cup {Zero}

\* Whatever the engine does, its requests and the outcomes it takes follow the
\* contract that Downloader implements: it never loses or invents a request,
\* and takes the outcomes in the order of their kinds.  Fairness is the one
\* that Downloader provides.
FollowsDownloadQueue == Queue!QueueSpec
=============================================================================
