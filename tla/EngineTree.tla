----------------------------- MODULE EngineTree -----------------------------
(***************************************************************************)
(* The engine tree (crates/engine/src/tree/mod.rs): the state it keeps     *)
(* besides the buffer and the chain, and the decisions its handlers take.  *)
(* The handlers themselves are actions of ConsensusEngine, which calls     *)
(* them.                                                                   *)
(*                                                                         *)
(* invalid_headers[h] is the block whose BlockWithParent the cache holds   *)
(* under h: h itself when h was rejected, and the rejected ancestor when   *)
(* h was refused because it descends from it.                              *)
(***************************************************************************)
EXTENDS BlockBuffer, ChainState

CONSTANTS
    FailsConsensus,     \* blocks that validate_block rejects
    Verdicts,           \* Verdicts[h]: what BlockVerifier::verify may return for h
    PowBlocks           \* blocks whose difficulty is not zero

VerifyResults == {"Valid", "Invalid", "Fatal"}

ASSUME VerifierAssumption ==
    /\ FailsConsensus \subseteq Hash
    /\ Verdicts \in [Hash -> (SUBSET VerifyResults) \ {{}}]
    /\ PowBlocks \subseteq Hash

VARIABLES
    canonical_head,     \* hash of the current canonical head
    sync_target,        \* forkchoice_state_tracker.sync_target_state(): its head, or None
    invalid_headers     \* invalid_headers[h]: the rejected block stored under h, or None

treeVars == <<block_buffer, chain_state, canonical_head, sync_target, invalid_headers>>

TreeInit ==
    /\ BufferInit
    /\ ChainInit
    /\ canonical_head = Genesis
    /\ sync_target = None
    /\ invalid_headers = [h \in Hash |-> None]

-----------------------------------------------------------------------------
(* insert_block.                                                           *)

\* Faulty variant: validate_block is not called.
InsertResultsUnvalidated(chain, h, has_proof) ==
    IF h \in chain.blocks_by_hash THEN {"AlreadySeen"}
    ELSE IF Parent[h] \notin chain.blocks_by_hash THEN {"Disconnected"}
    ELSE IF has_proof THEN Verdicts[h]
    ELSE {"NoProof"}

\* Faulty variant: a block with a proof is verified without its parent.
InsertResultsParentless(chain, h, has_proof) ==
    IF h \in chain.blocks_by_hash THEN {"AlreadySeen"}
    ELSE IF h \in FailsConsensus THEN {"Invalid"}
    ELSE IF has_proof THEN Verdicts[h]
    ELSE IF Parent[h] \notin chain.blocks_by_hash THEN {"Disconnected"}
    ELSE {"NoProof"}

\* The results insert_block may return for a block, in the order in which
\* the code looks for them.
InsertResults(chain, h, has_proof) ==
    IF h \in chain.blocks_by_hash THEN {"AlreadySeen"}
    ELSE IF h \in FailsConsensus THEN {"Invalid"}
    ELSE IF Parent[h] \notin chain.blocks_by_hash THEN {"Disconnected"}
    ELSE IF has_proof THEN Verdicts[h]
    ELSE {"NoProof"}

\* Faulty variant: the lowest buffered block is taken for the missing one.
MissingAncestorBuffered(buf, h) ==
    IF Parent[h] \in buf.blocks THEN LowestAncestor(buf, Parent[h]) ELSE h

\* The ancestor to download for a disconnected block.
MissingAncestor(buf, h) ==
    IF Parent[h] \in buf.blocks THEN Parent[LowestAncestor(buf, Parent[h])] ELSE Parent[h]

\* The buffer after insert_block returned Disconnected.
BufferDisconnected(buf, h, has_proof) ==
    BufferInsertBlock(IF has_proof THEN BufferInsertProof(buf, h) ELSE buf, h)

-----------------------------------------------------------------------------
(* Known invalid blocks.                                                   *)

LowestBufferedAncestorOr(buf, h) ==
    IF h \in buf.blocks THEN Parent[LowestAncestor(buf, h)] ELSE h

\* The hash on_new_payload checks for an invalid ancestor of h.
PayloadCheck(buf, h) ==
    LET lowest == LowestBufferedAncestorOr(buf, h) IN IF lowest = h THEN Parent[h] ELSE lowest

\* Faulty variant: the two hashes are swapped.
NoteInvalidSwapped(invalid, h, e) == [invalid EXCEPT ![e] = h]

\* InvalidHeaderCache::insert and insert_with_invalid_ancestor: the rejected
\* block e is stored under h unless h has an entry.
NoteInvalid(invalid, h, e) == [invalid EXCEPT ![h] = IF @ = None THEN e ELSE @]

KnownInvalid(invalid, h) == h \in Hash /\ invalid[h] # None

\* Faulty variant: the parent is taken to be valid.
LatestValidHashParent(chain, invalid, p) == IF p \in Hash THEN p ELSE None

\* The walk of latest_valid_hash_for_invalid_payload through the cache: from
\* each entry on to the parent of the rejected block.
LatestValidHash(chain, invalid, p) ==
    LET walk[x \in Hash] ==
            IF invalid[x] = None
            THEN IF x \in chain.blocks_by_hash THEN x ELSE None
            ELSE IF Parent[invalid[x]] \in Hash THEN walk[Parent[invalid[x]]] ELSE None
    IN  IF p \notin Hash THEN None
        ELSE IF p \in chain.blocks_by_hash THEN p
        ELSE walk[p]

\* latestValidHash in the answer for a block known to be invalid: zero when
\* the parent of the rejected block is a proof-of-work block, and also when
\* no valid ancestor is found.
PrepareInvalidResponse(chain, invalid, h) ==
    LET parent == Parent[invalid[h]]
        start  == IF parent \in chain.blocks_by_hash \cap PowBlocks THEN Zero ELSE parent
        valid  == LatestValidHash(chain, invalid, start)
    IN  IF valid = None THEN Zero ELSE valid

-----------------------------------------------------------------------------
(* Making a block the head.                                                *)

\* Faulty variant: the abandoned branch is not collected.
OldBranchIgnored(head, h) == {}

\* The two branches on_new_head finds between the current head and block h:
\* walking back from the parent of h and from the head to the fork block.
NewBranch(head, h) == {h} \cup (Ancestry[Parent[h]] \ Ancestry[head])
OldBranch(head, h) == Ancestry[head] \ Ancestry[Parent[h]]

\* Faulty variant: reorganisations are refused.
HasNewHeadCommitOnly(chain, head, h) ==
    /\ h \in chain.blocks_by_hash \ {Genesis}
    /\ OldBranch(head, h) = {}
    /\ NewBranch(head, h) \subseteq chain.blocks_by_hash

\* on_new_head(h) returns Some: every block of both branches is validated.
HasNewHead(chain, head, h) ==
    /\ h \in chain.blocks_by_hash \ {Genesis}
    /\ NewBranch(head, h) \cup OldBranch(head, h) \subseteq chain.blocks_by_hash

\* The chain after on_canonical_chain_update for the new head h.
CanonicalChainUpdate(chain, head, h) ==
    OnChainUpdate(chain, NewBranch(head, h), OldBranch(head, h))

\* Faulty variant: make_canonical leaves the head alone.
HeadUnchanged(chain, head, h) == head

\* make_canonical(h) when the head is head: the new head and the new chain.
HeadAfter(chain, head, h) == IF HasNewHead(chain, head, h) THEN h ELSE head
ChainAfter(chain, head, h) ==
    IF HasNewHead(chain, head, h) THEN CanonicalChainUpdate(chain, head, h) ELSE chain

\* ensure_consistent_forkchoice_state.
ConsistentForkchoice(chain, fcu) ==
    \A h \in {fcu.finalized, fcu.safe} \ {Zero} : IsHashCanonical(chain, h)

IsBlockPersistedOrBuffered(buf, chain, h) == h \in chain.blocks_by_hash \cup buf.blocks
=============================================================================
