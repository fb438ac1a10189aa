----------------------------- MODULE BlockBuffer -----------------------------
(***************************************************************************)
(* The buffer of pending blocks (crates/engine/src/tree/block_buffer.rs):  *)
(* blocks that cannot be executed yet because their parent or their proof  *)
(* is missing, the proofs that arrived ahead of their blocks, and three    *)
(* indexes over the blocks: children by parent, hashes by number, and the  *)
(* recency order that picks the block to drop when the buffer is full.     *)
(*                                                                         *)
(* A buffer is a record.  A map from a key to a set of hashes is a         *)
(* function that is {} where the map has no entry.  The recency order is   *)
(* the set of pairs <<x, y>> such that x was not used after y, with        *)
(* <<x, x>> for every key x.                                               *)
(***************************************************************************)
EXTENDS Blocks, FiniteSets

CONSTANT BufferLimit    \* BlockBuffer::new(limit); 256 in EngineTree::new

ASSUME BufferLimitAssumption == BufferLimit \in Nat \ {0}

VARIABLE block_buffer

Buffers ==
    [ blocks          : SUBSET Hash,
      proofs          : SUBSET Hash,
      parent_to_child : [Hash \cup {Zero} -> SUBSET Hash],
      earliest_blocks : [Heights -> SUBSET Hash],
      lru             : SUBSET (Hash \X Hash) ]

EmptyBuffer ==
    [ blocks          |-> {},
      proofs          |-> {},
      parent_to_child |-> [p \in Hash \cup {Zero} |-> {}],
      earliest_blocks |-> [n \in Heights |-> {}],
      lru             |-> {} ]

-----------------------------------------------------------------------------
(* The recency order (schnellru::LruMap).                                  *)

LruKeys(lru) == {h \in Hash : <<h, h>> \in lru}

LruRemove(lru, S) == lru \cap ((Hash \ S) \X (Hash \ S))

\* get_or_insert: the entry becomes the most recently used one.
LruTouch(lru, h) ==
    LruRemove(lru, {h}) \cup {<<x, h>> : x \in LruKeys(lru) \cup {h}}

\* pop_oldest: the one key that was used before all others.
LruOldest(lru) == {x \in LruKeys(lru) : \A y \in LruKeys(lru) : <<x, y>> \in lru}

-----------------------------------------------------------------------------
(* Queries.                                                                *)

\* The buffered blocks a walk from h along buffered parents visits.
BufferedLine(buf, h) ==
    {a \in Ancestry[h] : a \in buf.blocks /\ LineAbove(h, Number[a]) \subseteq buf.blocks}

\* lowest_ancestor(hash), defined when hash is buffered.
LowestAncestor(buf, h) ==
    CHOOSE a \in BufferedLine(buf, h) : Parent[a] \notin buf.blocks

\* Blocks reached from p through parent_to_child entries: what the loops of
\* remove_children and evict_children visit.
Reached(links, p) ==
    {h \in Hash \ {p} : p \in Ancestry[h] /\ \A x \in LineAbove(h, Number[p]) : x \in links[Parent[x]]}

\* remove_block(hash) returns Some: the block and its proof are both there.
Removable(buf, h) == h \in buf.blocks \cap buf.proofs

\* Faulty variants: grandchildren are not looked for; nor are children.
RemovedWithoutGrandchildren(buf, p) ==
    {h \in {p} \cup buf.parent_to_child[p] : Removable(buf, h)}
RemovedAlone(buf, p) == {h \in {p} : Removable(buf, h)}

\* What remove_block_with_children(hash) returns, parents before children.
RemovedWithChildren(buf, p) ==
    {h \in {p} \cup Reached(buf.parent_to_child, p) : Removable(buf, h)}

-----------------------------------------------------------------------------
(* Updates.                                                                *)

\* Faulty variant: remove_from_earliest_blocks is forgotten.
DropKeepsEarliest(buf, S) ==
    [ buf EXCEPT
        !.blocks = @ \ S,
        !.proofs = @ \ S,
        !.parent_to_child = [p \in Hash \cup {Zero} |-> @[p] \ S],
        !.lru = LruRemove(@, S) ]

\* Faulty variant: the proofs stay.
DropKeepsProofs(buf, S) ==
    [ buf EXCEPT
        !.blocks = @ \ S,
        !.parent_to_child = [p \in Hash \cup {Zero} |-> @[p] \ S],
        !.earliest_blocks = [n \in Heights |-> @[n] \ S],
        !.lru = LruRemove(@, S) ]

\* Take the blocks in S, and their proofs, out of all inner collections
\* (the common tail of remove_block and evict_block).
Drop(buf, S) ==
    [ buf EXCEPT
        !.blocks = @ \ S,
        !.proofs = @ \ S,
        !.parent_to_child = [p \in Hash \cup {Zero} |-> @[p] \ S],
        !.earliest_blocks = [n \in Heights |-> @[n] \ S],
        !.lru = LruRemove(@, S) ]

\* parent_to_child.remove(p) for every p in S.
Unlink(buf, S) ==
    [ buf EXCEPT !.parent_to_child =
        [p \in Hash \cup {Zero} |-> IF p \in S THEN {} ELSE @[p]] ]

\* Faulty variant: off by one at the limit.
EvictedTooLate(lru, h) ==
    IF h \notin LruKeys(lru) /\ Cardinality(LruKeys(lru)) > BufferLimit
    THEN LruOldest(lru)
    ELSE {}

\* insert_hash_and_get_evicted: the hashes evicted to make room for h.
Evicted(lru, h) ==
    IF h \notin LruKeys(lru) /\ Cardinality(LruKeys(lru)) >= BufferLimit
    THEN LruOldest(lru)
    ELSE {}

\* The block is written to every index and is the most recently used one.
LinkBlock(buf, h) ==
    [ buf EXCEPT
        !.blocks = @ \cup {h},
        !.parent_to_child[Parent[h]] = @ \cup {h},
        !.earliest_blocks[Number[h]] = @ \cup {h},
        !.lru = LruTouch(@, h) ]

\* The evicted block is never the inserted one, so the order in which the
\* two are written to the indexes does not matter.
BufferInsertBlock(buf, h) == LinkBlock(Drop(buf, Evicted(buf.lru, h)), h)

BufferInsertProof(buf, h) == [buf EXCEPT !.proofs = @ \cup {h}]

BufferRemoveProof(buf, h) == [buf EXCEPT !.proofs = @ \ {h}]

\* Faulty variant: the block and its proof are read and not removed.
BufferRemoveBlockKept(buf, h) == buf

\* A block without a proof stays where it is.
BufferRemoveBlock(buf, h) == IF Removable(buf, h) THEN Drop(buf, {h}) ELSE buf

\* The links below p are discarded even for the descendants that stay in the
\* buffer because their proof is missing.
BufferRemoveBlockWithChildren(buf, p) ==
    Unlink(Drop(buf, RemovedWithChildren(buf, p)),
           {p} \cup Reached(buf.parent_to_child, p))

\* Faulty variant: evict_children is not called.
BufferEvictOldBlocksOnly(buf, n) ==
    Drop(buf, UNION {buf.earliest_blocks[m] : m \in {k \in Heights : k <= n}})

BufferEvictOldBlocks(buf, n) ==
    LET old   == UNION {buf.earliest_blocks[m] : m \in {k \in Heights : k <= n}}
        buf1  == Drop(buf, old)
        below == UNION {Reached(buf1.parent_to_child, p) : p \in old}
    IN  Unlink(Drop(buf1, below), old \cup below)

-----------------------------------------------------------------------------
(* The buffer on its own: any sequence of calls of its interface.          *)

InsertBlock(h) == block_buffer' = BufferInsertBlock(block_buffer, h)

InsertProof(h) == block_buffer' = BufferInsertProof(block_buffer, h)

RemoveProof(h) ==
    /\ h \in block_buffer.proofs
    /\ block_buffer' = BufferRemoveProof(block_buffer, h)

RemoveBlock(h) ==
    /\ Removable(block_buffer, h)
    /\ block_buffer' = BufferRemoveBlock(block_buffer, h)

RemoveBlockWithChildren(h) ==
    block_buffer' = BufferRemoveBlockWithChildren(block_buffer, h)

EvictOldBlocks(n) == block_buffer' = BufferEvictOldBlocks(block_buffer, n)

BufferInit == block_buffer = EmptyBuffer

BufferNext ==
    \/ \E h \in Hash :
          \/ InsertBlock(h)
          \/ InsertProof(h)
          \/ RemoveProof(h)
          \/ RemoveBlock(h)
          \/ RemoveBlockWithChildren(h)
    \/ \E n \in Heights : EvictOldBlocks(n)

BufferSpec == BufferInit /\ [][BufferNext]_block_buffer

-----------------------------------------------------------------------------
(* Properties.                                                             *)

\* The fields of the buffer hold blocks, proofs and index entries of known
\* blocks (struct BlockBuffer).
BufferTypeOK == block_buffer \in Buffers

\* The recency order is a total order on exactly the buffered blocks: lru is
\* "used as counter of amount of blocks inside buffer", so a key without a
\* block, or a block without a key, would make the limit wrong.
LruExact(buf) ==
    /\ \A x \in buf.blocks : <<x, x>> \in buf.lru
    /\ buf.lru \subseteq buf.blocks \X buf.blocks
    /\ \A x, y \in buf.blocks : <<x, y>> \in buf.lru \/ <<y, x>> \in buf.lru
    /\ \A x, y \in buf.blocks : <<x, y>> \in buf.lru /\ <<y, x>> \in buf.lru => x = y
    /\ \A x, y, z \in buf.blocks :
          <<x, y>> \in buf.lru /\ <<y, z>> \in buf.lru => <<x, z>> \in buf.lru

\* earliest_blocks lists exactly the buffered blocks, under their number:
\* evict_old_blocks finds the blocks to evict there and nowhere else.
EarliestExact(buf) ==
    \A n \in Heights : buf.earliest_blocks[n] = {h \in buf.blocks : Number[h] = n}

\* A link of parent_to_child leads from a parent to a buffered child of it.
LinksSound(buf) ==
    \A p \in Hash \cup {Zero} :
        buf.parent_to_child[p] \subseteq {h \in buf.blocks : Parent[h] = p}

Indexed(buf) == LruExact(buf) /\ EarliestExact(buf) /\ LinksSound(buf)

\* No sequence of calls of the buffer's interface makes one of the three
\* indexes disagree with the blocks.
BufferIndexed == Indexed(block_buffer)

\* insert_block never keeps more than the limit of blocks.
BufferBounded == Cardinality(block_buffer.blocks) <= BufferLimit

\* insert_block drops a block only when the buffer is full and the inserted
\* block is new, drops one only, and that one is the least recently used.
EvictionStep ==
    \A h \in Hash : InsertBlock(h) =>
        LET lost == block_buffer.blocks \ block_buffer'.blocks
        IN  /\ h \in block_buffer'.blocks
            /\ lost # {} => /\ h \notin block_buffer.blocks
                           /\ Cardinality(block_buffer.blocks) = BufferLimit
                           /\ \E x \in lost : lost = {x} /\ \A y \in block_buffer.blocks :
                                                   <<x, y>> \in block_buffer.lru

\* Whatever makes a block leave the buffer (connection, eviction for room,
\* eviction by number), its proof leaves with it: a proof that stayed would
\* never be freed.
DroppedBlocksLoseProofs ==
    [][(block_buffer.blocks \ block_buffer'.blocks) \cap block_buffer'.proofs = {}]_block_buffer

\* evict_old_blocks(n) leaves no block numbered n or lower, and no block that
\* is linked, directly or through others, to an evicted one.
EvictionByNumberStep ==
    \A n \in Heights : EvictOldBlocks(n) =>
        \A h \in block_buffer'.blocks :
            /\ Number[h] > n
            /\ \A p \in block_buffer.blocks \ block_buffer'.blocks :
                  h \notin Reached(block_buffer.parent_to_child, p)

\* Both evictions take the right blocks: the least recently used one to make
\* room, and whole subtrees of old ones.
EvictsRightBlocks == [][EvictionStep /\ EvictionByNumberStep]_block_buffer
=============================================================================
