-------------------------- MODULE BlockBufferProofs --------------------------
(***************************************************************************)
(* Proofs about the block buffer, for every tree of blocks and every       *)
(* limit.                                                                  *)
(***************************************************************************)
EXTENDS ChildrenWalk, BlocksProofs

-----------------------------------------------------------------------------
(* The recency order as a relation.                                        *)

\* LruRemove keeps the pairs of the keys that stay.
LEMMA LruRemovePairs ==
    ASSUME NEW lru, NEW S
    PROVE  \A x, y \in Hash : <<x, y>> \in LruRemove(lru, S) <=>
               <<x, y>> \in lru /\ x \notin S /\ y \notin S
  BY DEF LruRemove

\* LruTouch puts h above every key.
LEMMA LruTouchPairs ==
    ASSUME NEW lru, NEW h \in Hash
    PROVE  \A x, y \in Hash : <<x, y>> \in LruTouch(lru, h) <=>
               \/ x # h /\ y # h /\ <<x, y>> \in lru
               \/ y = h /\ x \in LruKeys(lru) \cup {h}
<1>1. \A x, y \in Hash : <<x, y>> \in LruTouch(lru, h) <=>
          \/ <<x, y>> \in LruRemove(lru, {h})
          \/ \E k \in LruKeys(lru) \cup {h} : <<x, y>> = <<k, h>>
  BY Zenon DEF LruTouch
<1>3. \A x, y \in Hash : <<x, y>> \in LruRemove(lru, {h}) <=>
          <<x, y>> \in lru /\ x # h /\ y # h
  BY LruRemovePairs, Zenon
<1>. SUFFICES ASSUME NEW x \in Hash, NEW y \in Hash
              PROVE  <<x, y>> \in LruTouch(lru, h) <=>
                         \/ x # h /\ y # h /\ <<x, y>> \in lru
                         \/ y = h /\ x \in LruKeys(lru) \cup {h}
  OBVIOUS
<1>4. (\E k \in LruKeys(lru) \cup {h} : <<x, y>> = <<k, h>>) <=> y = h /\ x \in LruKeys(lru) \cup {h}
  OBVIOUS
<1>. QED  BY <1>1, <1>3, <1>4, Zenon

\* Sets of pairs are compared pair by pair.
LEMMA PairSubset ==
    ASSUME NEW A, NEW B, NEW C, NEW R \in SUBSET (A \X A),
           \A x, y \in A : <<x, y>> \in R => x \in B /\ y \in C
    PROVE  R \subseteq B \X C
  OBVIOUS

-----------------------------------------------------------------------------
(* What the updates do to the fields of a buffer.                          *)

\* Drop (the tail of remove_block and evict_block) takes the given blocks out
\* of every collection and yields a buffer.
LEMMA DropFields ==
    ASSUME NEW buf \in Buffers, NEW S, NEW b, b = Drop(buf, S)
    PROVE  /\ b \in Buffers
           /\ b.blocks = buf.blocks \ S
           /\ b.proofs = buf.proofs \ S
           /\ \A p \in Hash \cup {Zero} : b.parent_to_child[p] = buf.parent_to_child[p] \ S
           /\ \A n \in Heights : b.earliest_blocks[n] = buf.earliest_blocks[n] \ S
           /\ b.lru = LruRemove(buf.lru, S)
  BY DEF Drop, Buffers, LruRemove

\* Unlink (parent_to_child.remove) touches the child links only.
LEMMA UnlinkFields ==
    ASSUME NEW buf \in Buffers, NEW S, NEW b, b = Unlink(buf, S)
    PROVE  /\ b \in Buffers
           /\ b.blocks = buf.blocks
           /\ b.proofs = buf.proofs
           /\ b.earliest_blocks = buf.earliest_blocks
           /\ b.lru = buf.lru
           /\ \A p \in Hash \cup {Zero} :
                 b.parent_to_child[p] = IF p \in S THEN {} ELSE buf.parent_to_child[p]
  BY DEF Unlink, Buffers

\* LinkBlock (insert_block after the eviction) adds the block to every index.
LEMMA LinkBlockFields ==
    ASSUME NEW buf \in Buffers, NEW h \in Hash, NEW b, b = LinkBlock(buf, h)
    PROVE  /\ b \in Buffers
           /\ b.blocks = buf.blocks \cup {h}
           /\ b.proofs = buf.proofs
           /\ b.parent_to_child = [buf.parent_to_child EXCEPT ![Parent[h]] = @ \cup {h}]
           /\ b.earliest_blocks = [buf.earliest_blocks EXCEPT ![Number[h]] = @ \cup {h}]
           /\ b.lru = LruTouch(buf.lru, h)
<1>1. Parent[h] \in Hash \cup {Zero} /\ Number[h] \in Heights
  BY BlocksAssumption DEF Heights
<1>2. LruTouch(buf.lru, h) \subseteq Hash \X Hash
  <2>1. LruRemove(buf.lru, {h}) \subseteq Hash \X Hash
    BY DEF LruRemove
  <2>2. \A x \in LruKeys(buf.lru) \cup {h} : <<x, h>> \in Hash \X Hash
    BY DEF LruKeys
  <2>. QED  BY <2>1, <2>2, Zenon DEF LruTouch
<1>3. b = [ blocks          |-> buf.blocks \cup {h},
            proofs          |-> buf.proofs,
            parent_to_child |-> [buf.parent_to_child EXCEPT ![Parent[h]] = @ \cup {h}],
            earliest_blocks |-> [buf.earliest_blocks EXCEPT ![Number[h]] = @ \cup {h}],
            lru             |-> LruTouch(buf.lru, h) ]
  BY DEF LinkBlock, Buffers
<1>4. /\ buf.parent_to_child \in [Hash \cup {Zero} -> SUBSET Hash]
      /\ buf.earliest_blocks \in [Heights -> SUBSET Hash]
      /\ buf.blocks \subseteq Hash
      /\ buf.proofs \subseteq Hash
  BY DEF Buffers
<1>5. /\ b.blocks = buf.blocks \cup {h}
      /\ b.proofs = buf.proofs
      /\ b.parent_to_child = [buf.parent_to_child EXCEPT ![Parent[h]] = @ \cup {h}]
      /\ b.earliest_blocks = [buf.earliest_blocks EXCEPT ![Number[h]] = @ \cup {h}]
      /\ b.lru = LruTouch(buf.lru, h)
  BY <1>3
<1>6. b \in Buffers
  <2>1. [buf.parent_to_child EXCEPT ![Parent[h]] = @ \cup {h}] \in [Hash \cup {Zero} -> SUBSET Hash]
    BY <1>4
  <2>2. [buf.earliest_blocks EXCEPT ![Number[h]] = @ \cup {h}] \in [Heights -> SUBSET Hash]
    BY <1>4
  <2>. QED  BY <1>2, <1>3, <1>4, <2>1, <2>2 DEF Buffers
<1>. QED  BY <1>5, <1>6

\* LinkBlock (insert_block after the eviction) adds one block, no proof, and
\* keeps the type.
LEMMA LinkBlockAdds ==
    ASSUME NEW buf \in Buffers, NEW h \in Hash
    PROVE  /\ LinkBlock(buf, h) \in Buffers
           /\ LinkBlock(buf, h).blocks = buf.blocks \cup {h}
           /\ LinkBlock(buf, h).proofs = buf.proofs
<1>1. ASSUME NEW b, b = LinkBlock(buf, h)
      PROVE  b \in Buffers /\ b.blocks = buf.blocks \cup {h}
  BY <1>1, LinkBlockFields
<1>2. LinkBlock(buf, h).proofs = buf.proofs
  BY DEF LinkBlock, Buffers
<1>. QED  BY <1>1, <1>2

-----------------------------------------------------------------------------
(* The indexes.                                                            *)

\* Taking blocks out (remove_block, evict_block) keeps the indexes exact.
LEMMA DropIndexed ==
    ASSUME NEW buf \in Buffers, NEW S, Indexed(buf)
    PROVE  Indexed(Drop(buf, S))
<1>. DEFINE b == Drop(buf, S)
<1>0. /\ b \in Buffers
      /\ b.blocks = buf.blocks \ S
      /\ \A p \in Hash \cup {Zero} : b.parent_to_child[p] = buf.parent_to_child[p] \ S
      /\ \A n \in Heights : b.earliest_blocks[n] = buf.earliest_blocks[n] \ S
      /\ b.lru = LruRemove(buf.lru, S)
  BY DropFields
<1>. HIDE DEF b
<1>1. LruExact(b)
  <2>2. buf.blocks \subseteq Hash /\ b.lru \subseteq Hash \X Hash
    BY <1>0 DEF Buffers
  <2>3. \A x, y \in Hash : <<x, y>> \in b.lru <=> <<x, y>> \in buf.lru /\ x \notin S /\ y \notin S
    <3>1. \A x, y \in Hash : <<x, y>> \in LruRemove(buf.lru, S) <=>
              <<x, y>> \in buf.lru /\ x \notin S /\ y \notin S
      BY DEF LruRemove
    <3>2. b.lru = LruRemove(buf.lru, S)
      BY <1>0
    <3>. QED  BY <3>1, <3>2
  <2>4. \A x, y \in Hash : <<x, y>> \in buf.lru => x \in buf.blocks /\ y \in buf.blocks
    BY DEF Indexed, LruExact
  <2>5. b.lru \subseteq b.blocks \X b.blocks
    BY <1>0, <2>2, <2>3, <2>4, PairSubset
  <2>. QED  BY <1>0, <2>2, <2>3, <2>5 DEF Indexed, LruExact
<1>2. EarliestExact(b)
  BY <1>0 DEF Indexed, EarliestExact
<1>3. LinksSound(b)
  BY <1>0 DEF Indexed, LinksSound
<1>. QED  BY <1>1, <1>2, <1>3 DEF Indexed, b

\* Discarding links (parent_to_child.remove in remove_children) keeps the
\* indexes exact.
LEMMA UnlinkIndexed ==
    ASSUME NEW buf \in Buffers, NEW S, Indexed(buf)
    PROVE  Indexed(Unlink(buf, S))
<1>. DEFINE b == Unlink(buf, S)
<1>0. /\ b.blocks = buf.blocks
      /\ b.earliest_blocks = buf.earliest_blocks
      /\ b.lru = buf.lru
      /\ \A p \in Hash \cup {Zero} :
            b.parent_to_child[p] = IF p \in S THEN {} ELSE buf.parent_to_child[p]
  BY UnlinkFields
<1>. HIDE DEF b
<1>1. LruExact(b)
  BY <1>0 DEF Indexed, LruExact
<1>2. EarliestExact(b)
  BY <1>0 DEF Indexed, EarliestExact
<1>3. LinksSound(b)
  BY <1>0 DEF Indexed, LinksSound
<1>. QED  BY <1>1, <1>2, <1>3 DEF Indexed, b

\* Writing a block to every index (insert_block) keeps the indexes exact.
LEMMA LinkBlockIndexed ==
    ASSUME NEW buf \in Buffers, NEW h \in Hash, Indexed(buf)
    PROVE  Indexed(LinkBlock(buf, h))
<1>. DEFINE b == LinkBlock(buf, h)
<1>0. /\ b \in Buffers
      /\ b.blocks = buf.blocks \cup {h}
      /\ b.parent_to_child = [buf.parent_to_child EXCEPT ![Parent[h]] = @ \cup {h}]
      /\ b.earliest_blocks = [buf.earliest_blocks EXCEPT ![Number[h]] = @ \cup {h}]
      /\ b.lru = LruTouch(buf.lru, h)
  BY LinkBlockFields
<1>. HIDE DEF b
<1>a. /\ Parent[h] \in Hash \cup {Zero}
      /\ Number[h] \in Heights
      /\ buf.parent_to_child \in [Hash \cup {Zero} -> SUBSET Hash]
      /\ buf.earliest_blocks \in [Heights -> SUBSET Hash]
  BY BlocksAssumption DEF Heights, Buffers
<1>1. LruExact(b)
  <2>2. buf.blocks \subseteq Hash /\ b.lru \subseteq Hash \X Hash
    BY <1>0 DEF Buffers
  <2>3. LruKeys(buf.lru) = buf.blocks
    BY <2>2 DEF Indexed, LruExact, LruKeys
  <2>4. \A x, y \in Hash : <<x, y>> \in b.lru <=>
            \/ x # h /\ y # h /\ <<x, y>> \in buf.lru
            \/ y = h /\ x \in buf.blocks \cup {h}
    <3>1. \A x, y \in Hash : <<x, y>> \in LruTouch(buf.lru, h) <=>
              \/ x # h /\ y # h /\ <<x, y>> \in buf.lru
              \/ y = h /\ x \in LruKeys(buf.lru) \cup {h}
      BY LruTouchPairs
    <3>2. b.lru = LruTouch(buf.lru, h)
      BY <1>0
    <3>. QED  BY <2>3, <3>1, <3>2
  <2>5. \A x, y \in Hash : <<x, y>> \in buf.lru => x \in buf.blocks /\ y \in buf.blocks
    BY DEF Indexed, LruExact
  <2>6. b.lru \subseteq b.blocks \X b.blocks
    BY <1>0, <2>2, <2>4, <2>5, PairSubset
  <2>. QED  BY <1>0, <2>2, <2>4, <2>5, <2>6 DEF Indexed, LruExact
<1>2. EarliestExact(b)
  <2>. SUFFICES ASSUME NEW n \in Heights
                PROVE  b.earliest_blocks[n] = {x \in b.blocks : Number[x] = n}
    BY DEF EarliestExact
  <2>1. buf.earliest_blocks[n] = {x \in buf.blocks : Number[x] = n}
    BY DEF Indexed, EarliestExact
  <2>2. CASE n = Number[h]
    BY <1>0, <1>a, <2>1, <2>2
  <2>3. CASE n # Number[h]
    BY <1>0, <1>a, <2>1, <2>3
  <2>. QED  BY <2>2, <2>3
<1>3. LinksSound(b)
  <2>. SUFFICES ASSUME NEW p \in Hash \cup {Zero}
                PROVE  b.parent_to_child[p] \subseteq {x \in b.blocks : Parent[x] = p}
    BY DEF LinksSound
  <2>1. buf.parent_to_child[p] \subseteq {x \in buf.blocks : Parent[x] = p}
    BY DEF Indexed, LinksSound
  <2>2. CASE p = Parent[h]
    BY <1>0, <1>a, <2>1, <2>2
  <2>3. CASE p # Parent[h]
    BY <1>0, <1>a, <2>1, <2>3
  <2>. QED  BY <2>2, <2>3
<1>. QED  BY <1>1, <1>2, <1>3 DEF Indexed, b

-----------------------------------------------------------------------------
(* The limit.                                                              *)

\* A recency order on a finite, non-empty set of blocks has an oldest key, so
\* pop_oldest finds a block to evict.
LEMMA OldestExists ==
    ASSUME NEW buf \in Buffers, LruExact(buf), IsFiniteSet(buf.blocks), buf.blocks # {}
    PROVE  /\ LruKeys(buf.lru) = buf.blocks
           /\ LruOldest(buf.lru) # {}
           /\ LruOldest(buf.lru) \subseteq buf.blocks
<1>. DEFINE B == buf.blocks
            Below(x) == {y \in B : <<y, x>> \in buf.lru}
            T == {Below(x) : x \in B}
<1>1. LruKeys(buf.lru) = B
  BY DEF LruExact, LruKeys, Buffers
<1>2. T \subseteq FiniteSubsetsOf(B) /\ T # {}
  <2>1. \A x \in B : Below(x) \in SUBSET B
    OBVIOUS
  <2>2. \A x \in B : IsFiniteSet(Below(x))
    BY <2>1, FS_Subset
  <2>. QED  BY <2>1, <2>2 DEF FiniteSubsetsOf
<1>3. IsWellFoundedOn(StrictSubsetOrdering(B), FiniteSubsetsOf(B))
  BY FS_StrictSubsetOrderingWellFounded
<1>. HIDE DEF T
<1>4. PICK m \in T : \A t \in T : ~(<<t, m>> \in StrictSubsetOrdering(B))
  BY <1>2, <1>3, WFMin
<1>5. PICK x \in B : m = Below(x)
  BY <1>4 DEF T
<1>6. \A y \in B : <<x, y>> \in buf.lru
  <2>. SUFFICES ASSUME NEW y \in B, <<x, y>> \notin buf.lru
                PROVE  FALSE
    OBVIOUS
  <2>1. <<y, x>> \in buf.lru
    BY DEF LruExact
  <2>2. Below(y) \subseteq Below(x)
    BY <2>1 DEF LruExact
  <2>3. x \in Below(x) /\ x \notin Below(y)
    BY DEF LruExact
  <2>4. <<Below(y), Below(x)>> \in StrictSubsetOrdering(B)
    BY <2>2, <2>3 DEF StrictSubsetOrdering
  <2>5. Below(y) \in T
    BY DEF T
  <2>. QED  BY <1>4, <1>5, <2>4, <2>5
<1>. QED  BY <1>1, <1>6 DEF LruOldest

\* A buffer that holds what it should: every index exact, and no more blocks
\* than the limit.  This is the inductive invariant of the buffer.
SoundBuffer(buf) ==
    /\ buf \in Buffers
    /\ Indexed(buf)
    /\ IsFiniteSet(buf.blocks)
    /\ Cardinality(buf.blocks) <= BufferLimit

\* Removing blocks keeps a buffer sound.
LEMMA DropSound ==
    ASSUME NEW buf, NEW S, SoundBuffer(buf)
    PROVE  SoundBuffer(Drop(buf, S))
<1>1. Drop(buf, S) \in Buffers /\ Drop(buf, S).blocks = buf.blocks \ S
  BY DropFields DEF SoundBuffer
<1>2. Indexed(Drop(buf, S))
  BY DropIndexed DEF SoundBuffer
<1>3. IsFiniteSet(buf.blocks \ S) /\ Cardinality(buf.blocks \ S) <= Cardinality(buf.blocks)
  BY FS_Subset DEF SoundBuffer
<1>4. Cardinality(buf.blocks) \in Nat /\ Cardinality(buf.blocks \ S) \in Nat
  BY <1>3, FS_CardinalityType DEF SoundBuffer
<1>. QED  BY <1>1, <1>2, <1>3, <1>4, BufferLimitAssumption DEF SoundBuffer

\* Removing links keeps a buffer sound.
LEMMA UnlinkSound ==
    ASSUME NEW buf, NEW S, SoundBuffer(buf)
    PROVE  SoundBuffer(Unlink(buf, S))
<1>1. Unlink(buf, S) \in Buffers /\ Unlink(buf, S).blocks = buf.blocks
  BY UnlinkFields DEF SoundBuffer
<1>2. Indexed(Unlink(buf, S))
  BY UnlinkIndexed DEF SoundBuffer
<1>. QED  BY <1>1, <1>2 DEF SoundBuffer

\* insert_block keeps a buffer sound: when the buffer is full and the block
\* is new, an older block leaves first.
LEMMA InsertBlockSound ==
    ASSUME NEW buf, NEW h \in Hash, SoundBuffer(buf)
    PROVE  SoundBuffer(BufferInsertBlock(buf, h))
<1>. DEFINE E == Evicted(buf.lru, h)
            d == Drop(buf, E)
            B == buf.blocks
<1>0. buf \in Buffers /\ LruExact(buf) /\ IsFiniteSet(B) /\ Cardinality(B) <= BufferLimit
  BY DEF SoundBuffer, Indexed
<1>1. LruKeys(buf.lru) = B
  BY <1>0 DEF LruExact, LruKeys, Buffers
<1>2. SoundBuffer(d) /\ d \in Buffers /\ d.blocks = B \ E
  <2>1. SoundBuffer(d)
    BY DropSound
  <2>2. d \in Buffers /\ d.blocks = B \ E
    BY <1>0, DropFields
  <2>. QED  BY <2>1, <2>2
<1>. HIDE DEF d
<1>3. LinkBlock(d, h) \in Buffers /\ LinkBlock(d, h).blocks = (B \ E) \cup {h}
  BY <1>2, LinkBlockAdds
<1>4. Indexed(LinkBlock(d, h))
  BY <1>2, LinkBlockIndexed DEF SoundBuffer
<1>5. IsFiniteSet(B \ E) /\ Cardinality(B) \in Nat /\ Cardinality(B \ E) \in Nat
  BY <1>0, FS_Subset, FS_CardinalityType
<1>6. /\ IsFiniteSet((B \ E) \cup {h})
      /\ Cardinality((B \ E) \cup {h}) =
            IF h \in B \ E THEN Cardinality(B \ E) ELSE Cardinality(B \ E) + 1
  BY <1>5, FS_AddElement
<1>7. Cardinality((B \ E) \cup {h}) <= BufferLimit
  <2>1. CASE h \in B
    <3>1. E = {}
      BY <1>1, <2>1 DEF Evicted
    <3>. QED  BY <1>0, <1>6, <2>1, <3>1
  <2>2. CASE h \notin B /\ Cardinality(B) < BufferLimit
    <3>1. E = {}
      BY <1>1, <1>5, <2>2, BufferLimitAssumption DEF Evicted
    <3>. QED  BY <1>5, <1>6, <2>2, <3>1, BufferLimitAssumption
  <2>3. CASE h \notin B /\ ~(Cardinality(B) < BufferLimit)
    <3>1. E = LruOldest(buf.lru)
      BY <1>1, <1>5, <2>3, BufferLimitAssumption DEF Evicted
    <3>2. B # {}
      BY <2>3, FS_EmptySet, BufferLimitAssumption
    <3>3. E # {} /\ E \subseteq B
      BY <1>0, <3>1, <3>2, OldestExists
    <3>4. Cardinality(B \ E) <= Cardinality(B) /\ Cardinality(B \ E) # Cardinality(B)
      <4>1. B \ E \in SUBSET B /\ B # B \ E
        BY <3>3
      <4>. QED  BY <1>0, <4>1, FS_Subset
    <3>. HIDE DEF B, E
    <3>. QED  BY <1>0, <1>5, <1>6, <3>4, BufferLimitAssumption
  <2>. QED  BY <2>1, <2>2, <2>3
<1>. QED  BY <1>3, <1>4, <1>6, <1>7 DEF SoundBuffer, BufferInsertBlock, d

\* The operations on proofs, and the removals, keep a buffer sound.
LEMMA InsertProofSound ==
    ASSUME NEW buf, NEW h \in Hash, SoundBuffer(buf)
    PROVE  SoundBuffer(BufferInsertProof(buf, h))
<1>. DEFINE b == BufferInsertProof(buf, h)
<1>1. /\ b \in Buffers
      /\ b.blocks = buf.blocks
      /\ b.parent_to_child = buf.parent_to_child
      /\ b.earliest_blocks = buf.earliest_blocks
      /\ b.lru = buf.lru
  BY DEF SoundBuffer, Buffers, BufferInsertProof
<1>. HIDE DEF b
<1>2. SoundBuffer(b)
  BY <1>1 DEF SoundBuffer, Indexed, LruExact, EarliestExact, LinksSound
<1>. QED  BY <1>2 DEF b

\* remove_proof keeps the buffer sound.
LEMMA RemoveProofSound ==
    ASSUME NEW buf, NEW h, SoundBuffer(buf)
    PROVE  SoundBuffer(BufferRemoveProof(buf, h))
<1>. DEFINE b == BufferRemoveProof(buf, h)
<1>1. /\ b \in Buffers
      /\ b.blocks = buf.blocks
      /\ b.parent_to_child = buf.parent_to_child
      /\ b.earliest_blocks = buf.earliest_blocks
      /\ b.lru = buf.lru
  BY DEF SoundBuffer, Buffers, BufferRemoveProof
<1>. HIDE DEF b
<1>2. SoundBuffer(b)
  BY <1>1 DEF SoundBuffer, Indexed, LruExact, EarliestExact, LinksSound
<1>. QED  BY <1>2 DEF b

\* remove_block keeps the buffer sound.
LEMMA RemoveBlockSound ==
    ASSUME NEW buf, NEW h, SoundBuffer(buf)
    PROVE  SoundBuffer(BufferRemoveBlock(buf, h))
  BY DropSound DEF BufferRemoveBlock

\* remove_block_with_children keeps the buffer sound.
LEMMA RemoveBlockWithChildrenSound ==
    ASSUME NEW buf, NEW h, SoundBuffer(buf)
    PROVE  SoundBuffer(BufferRemoveBlockWithChildren(buf, h))
  BY DropSound, UnlinkSound DEF BufferRemoveBlockWithChildren

\* evict_old_blocks keeps the buffer sound.
LEMMA EvictOldBlocksSound ==
    ASSUME NEW buf, NEW n, SoundBuffer(buf)
    PROVE  SoundBuffer(BufferEvictOldBlocks(buf, n))
  BY DropSound, UnlinkSound DEF BufferEvictOldBlocks

\* BlockBuffer::new returns a sound buffer.
LEMMA EmptyBufferSound == SoundBuffer(EmptyBuffer)
<1>1. EmptyBuffer \in Buffers /\ EmptyBuffer.blocks = {}
  BY DEF EmptyBuffer, Buffers
<1>2. Indexed(EmptyBuffer)
  BY DEF EmptyBuffer, Indexed, LruExact, EarliestExact, LinksSound
<1>. QED  BY <1>1, <1>2, FS_EmptySet, BufferLimitAssumption DEF SoundBuffer

-----------------------------------------------------------------------------
(* lowest_ancestor.                                                        *)

\* For a buffered block lowest_ancestor finds a block: a buffered ancestor
\* of it, all blocks between the two buffered, whose parent is not buffered.
LEMMA LowestAncestorFound ==
    ASSUME NEW buf, SoundBuffer(buf), NEW h \in buf.blocks
    PROVE  /\ LowestAncestor(buf, h) \in BufferedLine(buf, h)
           /\ Parent[LowestAncestor(buf, h)] \notin buf.blocks
<1>. DEFINE B == buf.blocks
            L == BufferedLine(buf, h)
            Under(a) == Ancestry[a] \cap B
            T == {Under(a) : a \in L}
<1>1. IsFiniteSet(B) /\ B \in SUBSET Hash /\ h \in Hash
  BY DEF SoundBuffer, Buffers
<1>2. h \in L
  BY <1>1, AncestryClosed, AncestryNumber DEF BufferedLine, LineAbove
<1>3. L \subseteq B /\ L \subseteq Ancestry[h]
  BY DEF BufferedLine
<1>4. T \subseteq FiniteSubsetsOf(B) /\ T # {}
  <2>1. \A a \in L : Under(a) \in SUBSET B
    OBVIOUS
  <2>2. \A a \in L : IsFiniteSet(Under(a))
    BY <1>1, <2>1, FS_Subset
  <2>. QED  BY <1>2, <2>1, <2>2 DEF FiniteSubsetsOf
<1>5. IsWellFoundedOn(StrictSubsetOrdering(B), FiniteSubsetsOf(B))
  BY FS_StrictSubsetOrderingWellFounded
<1>. HIDE DEF T
<1>6. PICK m \in T : \A t \in T : ~(<<t, m>> \in StrictSubsetOrdering(B))
  BY <1>4, <1>5, WFMin
<1>7. PICK a \in L : m = Under(a)
  BY <1>6 DEF T
<1>8. Parent[a] \notin B
  <2>. SUFFICES ASSUME Parent[a] \in B
                PROVE  FALSE
    OBVIOUS
  <2>. DEFINE p == Parent[a]
  <2>0. a \in Hash /\ p \in Hash /\ a \in Ancestry[h] /\ a \in B
    BY <1>1, <1>3
  <2>1. Ancestry[a] = {a} \cup Ancestry[p] /\ Number[a] = Number[p] + 1
    BY <2>0, AncestryStep, BlocksAssumption
  <2>2. a \notin Ancestry[p]
    BY <2>0, <2>1, AncestryNumber, BlocksAssumption
  <2>3. <<Under(p), Under(a)>> \in StrictSubsetOrdering(B)
    BY <2>0, <2>1, <2>2 DEF StrictSubsetOrdering
  <2>4. p \in Ancestry[h]
    BY <1>1, <2>0, AncestryClosed DEF ParentClosed
  <2>5. LineAbove(h, Number[p]) \subseteq B
    <3>. SUFFICES ASSUME NEW x \in Ancestry[h], Number[x] > Number[p]
                  PROVE  x \in B
      BY DEF LineAbove
    <3>1. Number[x] \in Nat /\ Number[p] \in Nat
      BY <1>1, <2>0, AncestryNumber, BlocksAssumption
    <3>2. CASE Number[x] = Number[a]
      BY <1>1, <2>0, <3>2, AncestryLinear
    <3>3. CASE Number[x] > Number[a]
      BY <3>3 DEF BufferedLine, LineAbove
    <3>. QED  BY <2>1, <3>1, <3>2, <3>3
  <2>6. p \in L
    BY <2>4, <2>5 DEF BufferedLine
  <2>7. Under(p) \in T
    BY <2>6 DEF T
  <2>. QED  BY <1>6, <1>7, <2>3, <2>7
<1>. QED  BY <1>8 DEF LowestAncestor

-----------------------------------------------------------------------------
(* The buffer as a state machine.                                          *)

BufferInv == SoundBuffer(block_buffer)

\* Every call of the buffer's interface keeps the buffer sound.
LEMMA BufferInduction == BufferSpec => []BufferInv
<1>1. BufferInit => BufferInv
  BY EmptyBufferSound DEF BufferInit, BufferInv
<1>2. BufferInv /\ [BufferNext]_block_buffer => BufferInv'
  <2>. SUFFICES ASSUME SoundBuffer(block_buffer), [BufferNext]_block_buffer
                PROVE  SoundBuffer(block_buffer')
    BY DEF BufferInv
  <2>1. ASSUME NEW h \in Hash, InsertBlock(h) PROVE SoundBuffer(block_buffer')
    BY <2>1, InsertBlockSound DEF InsertBlock
  <2>2. ASSUME NEW h \in Hash, InsertProof(h) PROVE SoundBuffer(block_buffer')
    BY <2>2, InsertProofSound DEF InsertProof
  <2>3. ASSUME NEW h \in Hash, RemoveProof(h) PROVE SoundBuffer(block_buffer')
    BY <2>3, RemoveProofSound DEF RemoveProof
  <2>4. ASSUME NEW h \in Hash, RemoveBlock(h) PROVE SoundBuffer(block_buffer')
    BY <2>4, RemoveBlockSound DEF RemoveBlock
  <2>5. ASSUME NEW h \in Hash, RemoveBlockWithChildren(h) PROVE SoundBuffer(block_buffer')
    BY <2>5, RemoveBlockWithChildrenSound DEF RemoveBlockWithChildren
  <2>6. ASSUME NEW n \in Heights, EvictOldBlocks(n) PROVE SoundBuffer(block_buffer')
    BY <2>6, EvictOldBlocksSound DEF EvictOldBlocks
  <2>7. CASE UNCHANGED block_buffer
    BY <2>7
  <2>. QED  BY <2>1, <2>2, <2>3, <2>4, <2>5, <2>6, <2>7 DEF BufferNext
<1>. QED  BY <1>1, <1>2, PTL DEF BufferSpec

\* Type correctness of the fields of struct BlockBuffer.
THEOREM BufferTypeCorrect == BufferSpec => []BufferTypeOK
<1>1. BufferInv => BufferTypeOK
  BY DEF BufferInv, SoundBuffer, BufferTypeOK
<1>. QED  BY <1>1, BufferInduction, PTL

\* No sequence of calls of the interface of BlockBuffer, over any tree of
\* blocks and with any limit, makes the recency order, the index by number or
\* the links to children disagree with the blocks.
THEOREM BufferStaysIndexed == BufferSpec => []BufferIndexed
<1>1. BufferInv => BufferIndexed
  BY DEF BufferInv, SoundBuffer, BufferIndexed
<1>. QED  BY <1>1, BufferInduction, PTL

\* BlockBuffer never holds more blocks than its limit.
THEOREM BufferStaysBounded == BufferSpec => []BufferBounded
<1>1. BufferInv => BufferBounded
  BY DEF BufferInv, SoundBuffer, BufferBounded
<1>. QED  BY <1>1, BufferInduction, PTL

-----------------------------------------------------------------------------
(* What a single call may do to the blocks and the proofs.                 *)

\* insert_block(h): the block is in the buffer, and the blocks that are lost
\* are exactly the ones evicted for room.
LEMMA InsertBlockFields ==
    ASSUME NEW buf \in Buffers, NEW h \in Hash, NEW b, b = BufferInsertBlock(buf, h)
    PROVE  /\ b.blocks = (buf.blocks \ Evicted(buf.lru, h)) \cup {h}
           /\ b.proofs = buf.proofs \ Evicted(buf.lru, h)
<1>. DEFINE d == Drop(buf, Evicted(buf.lru, h))
<1>1. /\ d \in Buffers
      /\ d.blocks = buf.blocks \ Evicted(buf.lru, h)
      /\ d.proofs = buf.proofs \ Evicted(buf.lru, h)
  BY DropFields
<1>. HIDE DEF d
<1>2. b = LinkBlock(d, h)
  BY DEF BufferInsertBlock, d
<1>3. b.blocks = d.blocks \cup {h} /\ b.proofs = d.proofs
  BY <1>1, <1>2, LinkBlockAdds, Zenon
<1>. QED  BY <1>1, <1>3

\* remove_block_with_children(p): exactly the removable blocks among p and
\* the blocks linked below it leave, with their proofs.
LEMMA RemoveBlockWithChildrenFields ==
    ASSUME NEW buf \in Buffers, NEW p, NEW b, b = BufferRemoveBlockWithChildren(buf, p)
    PROVE  /\ b.blocks = buf.blocks \ RemovedWithChildren(buf, p)
           /\ b.proofs = buf.proofs \ RemovedWithChildren(buf, p)
<1>. DEFINE d == Drop(buf, RemovedWithChildren(buf, p))
<1>1. /\ d \in Buffers
      /\ d.blocks = buf.blocks \ RemovedWithChildren(buf, p)
      /\ d.proofs = buf.proofs \ RemovedWithChildren(buf, p)
  BY DropFields
<1>. HIDE DEF d
<1>2. b = Unlink(d, {p} \cup Reached(buf.parent_to_child, p))
  BY DEF BufferRemoveBlockWithChildren, d
<1>. QED  BY <1>1, <1>2, UnlinkFields

\* The blocks evict_old_blocks(n) finds in the index by number, and the ones
\* that evict_children then reaches from them through the links that are left.
OldBlocks(buf, n) == {h \in buf.blocks : Number[h] <= n}
BelowOld(buf, n) ==
    UNION {Reached(Drop(buf, OldBlocks(buf, n)).parent_to_child, p) : p \in OldBlocks(buf, n)}

\* evict_old_blocks(n): the old blocks and the blocks below them leave, with
\* their proofs; the links of the blocks that stay lose the evicted ones only.
LEMMA EvictOldBlocksFields ==
    ASSUME NEW buf \in Buffers, EarliestExact(buf), NEW n, NEW b, b = BufferEvictOldBlocks(buf, n)
    PROVE  /\ b.blocks = buf.blocks \ (OldBlocks(buf, n) \cup BelowOld(buf, n))
           /\ b.proofs = buf.proofs \ (OldBlocks(buf, n) \cup BelowOld(buf, n))
           /\ \A p \in (Hash \cup {Zero}) \ (OldBlocks(buf, n) \cup BelowOld(buf, n)) :
                 b.parent_to_child[p] =
                     buf.parent_to_child[p] \ (OldBlocks(buf, n) \cup BelowOld(buf, n))
<1>. DEFINE old == OldBlocks(buf, n)
            below == BelowOld(buf, n)
            d == Drop(buf, old)
            e == Drop(d, below)
<1>1. UNION {buf.earliest_blocks[m] : m \in {k \in Heights : k <= n}} = old
  <2>1. \A h \in buf.blocks : Number[h] \in Heights
    BY DEF Buffers, Heights
  <2>. QED  BY <2>1 DEF EarliestExact, OldBlocks
<1>2. b = Unlink(e, old \cup below)
  BY <1>1 DEF BufferEvictOldBlocks, BelowOld
<1>3. /\ d \in Buffers /\ d.blocks = buf.blocks \ old /\ d.proofs = buf.proofs \ old
      /\ \A p \in Hash \cup {Zero} : d.parent_to_child[p] = buf.parent_to_child[p] \ old
  BY DropFields
<1>. HIDE DEF d, old, below
<1>4. /\ e \in Buffers /\ e.blocks = d.blocks \ below /\ e.proofs = d.proofs \ below
      /\ \A p \in Hash \cup {Zero} : e.parent_to_child[p] = d.parent_to_child[p] \ below
  BY <1>3, DropFields
<1>. HIDE DEF e
<1>5. /\ b.blocks = e.blocks /\ b.proofs = e.proofs
      /\ \A p \in Hash \cup {Zero} :
            p \notin old \cup below => b.parent_to_child[p] = e.parent_to_child[p]
  BY <1>2, <1>4, UnlinkFields
<1>6. /\ b.blocks = buf.blocks \ (old \cup below)
      /\ b.proofs = buf.proofs \ (old \cup below)
  BY <1>3, <1>4, <1>5
<1>7. \A p \in (Hash \cup {Zero}) \ (old \cup below) :
          b.parent_to_child[p] = buf.parent_to_child[p] \ (old \cup below)
  BY <1>3, <1>4, <1>5
<1>. QED  BY <1>6, <1>7 DEF old, below

\* A block linked to an old one, directly or through others, is either old
\* itself or below the highest old block on the way: evict_children reaches
\* it although the links of the old blocks in between are already gone.
LEMMA BelowOldBlock ==
    ASSUME NEW buf, SoundBuffer(buf), NEW n \in Heights,
           NEW p \in OldBlocks(buf, n), NEW h \in Reached(buf.parent_to_child, p)
    PROVE  h \in OldBlocks(buf, n) \cup BelowOld(buf, n)
<1>. DEFINE B == buf.blocks
            links == buf.parent_to_child
            old == OldBlocks(buf, n)
            left == Drop(buf, old).parent_to_child
<1>0. /\ buf \in Buffers
      /\ B \subseteq Hash
      /\ old \subseteq B
      /\ h \in Hash
      /\ p \in Ancestry[h]
      /\ \A x \in Hash : Number[x] \in Nat /\ Parent[x] \in Hash \cup {Zero}
  BY BlocksAssumption DEF SoundBuffer, Buffers, Reached, OldBlocks
<1>1. \A q \in Hash \cup {Zero} : left[q] = links[q] \ old
  BY <1>0, DropFields
<1>2. PICK q \in old \cap Ancestry[h] : \A y \in old \cap Ancestry[h] : Number[y] <= Number[q]
  BY <1>0, HighestOnWalk
<1>3. ASSUME NEW x \in LineAbove(h, Number[q])
      PROVE  x \in left[Parent[x]]
  <2>1. x \in Ancestry[h] /\ x \in Hash /\ Number[x] > Number[q]
    BY <1>0, AncestryClosed DEF LineAbove
  <2>2. Number[x] \in Nat /\ Number[q] \in Nat /\ Number[p] \in Nat /\ Number[p] <= Number[q]
    BY <1>0, <1>2, <2>1
  <2>3. x \notin old
    BY <1>2, <2>1, <2>2
  <2>4. x \in links[Parent[x]]
    BY <2>1, <2>2 DEF Reached, LineAbove
  <2>. QED  BY <1>0, <1>1, <2>1, <2>3, <2>4
<1>4. CASE h = q
  BY <1>4
<1>5. CASE h # q
  <2>1. h \in Reached(left, q)
    BY <1>0, <1>3, <1>5 DEF Reached
  <2>. QED  BY <2>1 DEF BelowOld
<1>. QED  BY <1>4, <1>5

\* evict_children goes on below every block it evicts.
LEMMA BelowEvictedBlock ==
    ASSUME NEW buf, SoundBuffer(buf), NEW n \in Heights,
           NEW p \in buf.blocks, p \in BelowOld(buf, n),
           NEW h \in Reached(buf.parent_to_child, p)
    PROVE  h \in OldBlocks(buf, n) \cup BelowOld(buf, n)
<1>. DEFINE links == buf.parent_to_child
            old == OldBlocks(buf, n)
            left == Drop(buf, old).parent_to_child
<1>0. /\ buf \in Buffers
      /\ buf.blocks \subseteq Hash
      /\ h \in Hash
      /\ p \in Ancestry[h]
      /\ n \in Nat
      /\ \A x \in Hash : Number[x] \in Nat /\ Parent[x] \in Hash \cup {Zero}
  BY BlocksAssumption DEF SoundBuffer, Buffers, Reached, Heights
<1>1. \A q \in Hash \cup {Zero} : left[q] = links[q] \ old
  BY <1>0, DropFields
<1>2. PICK q \in old : p \in Reached(left, q)
  BY DEF BelowOld
<1>3. CASE p \in old
  BY <1>3, BelowOldBlock
<1>4. CASE h \in old
  BY <1>4
<1>5. ASSUME p \notin old, h \notin old
      PROVE  h \in Reached(left, q)
  <2>1. p \in Hash /\ q \in Hash /\ q \in Ancestry[p] /\ Number[p] > n
    BY <1>0, <1>2, <1>5 DEF Reached, OldBlocks
  <2>2. q \in Ancestry[h] /\ Ancestry[h] \subseteq Hash
    BY <1>0, <2>1, AncestryTransitive, AncestryClosed
  <2>3. ASSUME NEW x \in LineAbove(h, Number[q])
        PROVE  x \in left[Parent[x]]
    <3>1. x \in Hash /\ x \in Ancestry[h] /\ Number[x] > Number[q]
      BY <2>2 DEF LineAbove
    <3>2. CASE Number[x] > Number[p]
      <4>1. x \in links[Parent[x]]
        BY <3>1, <3>2 DEF Reached, LineAbove
      <4>2. x \notin old
        <5>1. Number[x] \in Nat /\ Number[p] \in Nat
          BY <1>0, <2>1, <3>1
        <5>. QED  BY <1>0, <2>1, <3>2, <5>1 DEF OldBlocks
      <4>. QED  BY <1>0, <1>1, <3>1, <4>1, <4>2
    <3>3. CASE ~(Number[x] > Number[p])
      <4>1. x \in Ancestry[p]
        <5>1. x \in Ancestry[p] \/ p \in Ancestry[x]
          BY <1>0, <3>1, AncestryLinear
        <5>2. ASSUME p \in Ancestry[x] PROVE x = p
          BY <1>0, <2>1, <3>1, <3>3, <5>2, AncestryNumber
        <5>. QED  BY <2>1, <5>1, <5>2, AncestryClosed
      <4>. QED  BY <1>2, <3>1, <4>1 DEF Reached, LineAbove
    <3>. QED  BY <3>2, <3>3
  <2>. QED  BY <1>0, <1>5, <2>2, <2>3 DEF Reached
<1>6. Reached(left, q) \subseteq BelowOld(buf, n)
  BY DEF BelowOld
<1>. QED  BY <1>3, <1>4, <1>5, <1>6

-----------------------------------------------------------------------------
(* The action properties of the buffer.                                    *)

\* Whatever call makes a block leave the buffer takes its proof along.
THEOREM DroppedBlocksHaveNoProofs == BufferSpec => DroppedBlocksLoseProofs
<1>1. BufferInv /\ [BufferNext]_block_buffer
        => [(block_buffer.blocks \ block_buffer'.blocks) \cap block_buffer'.proofs = {}]_block_buffer
  <2>. SUFFICES ASSUME SoundBuffer(block_buffer), BufferNext
                PROVE  (block_buffer.blocks \ block_buffer'.blocks) \cap block_buffer'.proofs = {}
    BY DEF BufferInv
  <2>. DEFINE Goal == (block_buffer.blocks \ block_buffer'.blocks) \cap block_buffer'.proofs = {}
  <2>0. block_buffer \in Buffers /\ EarliestExact(block_buffer)
    BY DEF SoundBuffer, Indexed
  <2>1. ASSUME NEW h \in Hash, InsertBlock(h) PROVE Goal
    <3>1. /\ block_buffer'.blocks = (block_buffer.blocks \ Evicted(block_buffer.lru, h)) \cup {h}
          /\ block_buffer'.proofs = block_buffer.proofs \ Evicted(block_buffer.lru, h)
      BY <2>0, <2>1, InsertBlockFields DEF InsertBlock
    <3>. QED  BY <3>1
  <2>2. ASSUME NEW h \in Hash, InsertProof(h) PROVE Goal
    BY <2>0, <2>2 DEF InsertProof, BufferInsertProof, Buffers
  <2>3. ASSUME NEW h \in Hash, RemoveProof(h) PROVE Goal
    BY <2>0, <2>3 DEF RemoveProof, BufferRemoveProof, Buffers
  <2>4. ASSUME NEW h \in Hash, RemoveBlock(h) PROVE Goal
    <3>1. block_buffer' = Drop(block_buffer, {h})
      BY <2>4 DEF RemoveBlock, BufferRemoveBlock
    <3>2. /\ block_buffer'.blocks = block_buffer.blocks \ {h}
          /\ block_buffer'.proofs = block_buffer.proofs \ {h}
      BY <2>0, <3>1, DropFields
    <3>. QED  BY <3>2
  <2>5. ASSUME NEW h \in Hash, RemoveBlockWithChildren(h) PROVE Goal
    <3>. DEFINE S == RemovedWithChildren(block_buffer, h)
    <3>1. block_buffer'.blocks = block_buffer.blocks \ S /\ block_buffer'.proofs = block_buffer.proofs \ S
      BY <2>0, <2>5, RemoveBlockWithChildrenFields DEF RemoveBlockWithChildren
    <3>. QED  BY <3>1
  <2>6. ASSUME NEW n \in Heights, EvictOldBlocks(n) PROVE Goal
    <3>. DEFINE S == OldBlocks(block_buffer, n) \cup BelowOld(block_buffer, n)
    <3>1. block_buffer'.blocks = block_buffer.blocks \ S /\ block_buffer'.proofs = block_buffer.proofs \ S
      BY <2>0, <2>6, EvictOldBlocksFields DEF EvictOldBlocks
    <3>. QED  BY <3>1
  <2>. QED  BY <2>1, <2>2, <2>3, <2>4, <2>5, <2>6 DEF BufferNext
<1>. QED  BY <1>1, BufferInduction, PTL DEF BufferSpec, DroppedBlocksLoseProofs

\* insert_block on a sound buffer evicts nothing, or, when the buffer is full
\* and the block is new, the one least recently used block.
LEMMA InsertBlockEvicts == BufferInv => EvictionStep
<1>. SUFFICES ASSUME SoundBuffer(block_buffer), NEW h \in Hash, InsertBlock(h),
                     NEW lost, lost = block_buffer.blocks \ block_buffer'.blocks
              PROVE  /\ h \in block_buffer'.blocks
                     /\ lost # {} => /\ h \notin block_buffer.blocks
                                     /\ Cardinality(block_buffer.blocks) = BufferLimit
                                     /\ \E x \in lost : lost = {x} /\ \A y \in block_buffer.blocks :
                                                            <<x, y>> \in block_buffer.lru
  BY DEF BufferInv, EvictionStep
<1>. DEFINE B == block_buffer.blocks
            lru == block_buffer.lru
            E == Evicted(lru, h)
<1>0. block_buffer \in Buffers /\ LruExact(block_buffer) /\ IsFiniteSet(B)
  BY DEF SoundBuffer, Indexed
<1>1. block_buffer'.blocks = (B \ E) \cup {h}
  BY <1>0, InsertBlockFields DEF InsertBlock
<1>2. LruKeys(lru) = B
  BY <1>0 DEF LruExact, LruKeys, Buffers
<1>3. ASSUME lost # {}
      PROVE  /\ h \notin B
             /\ Cardinality(B) = BufferLimit
             /\ E = LruOldest(lru)
  <2>1. E # {}
    BY <1>1, <1>3
  <2>2. h \notin B /\ Cardinality(B) >= BufferLimit /\ E = LruOldest(lru)
    BY <1>2, <2>1 DEF Evicted
  <2>3. Cardinality(B) <= BufferLimit /\ Cardinality(B) \in Nat
    BY <1>0, FS_CardinalityType DEF SoundBuffer
  <2>. QED  BY <2>2, <2>3, BufferLimitAssumption
<1>4. \A x, y \in LruOldest(lru) : x = y
  BY <1>0, <1>2 DEF LruOldest, LruExact
<1>5. ASSUME lost # {}
      PROVE  \E x \in lost : lost = {x} /\ \A y \in B : <<x, y>> \in lru
  <2>1. PICK x : x \in lost
    BY <1>5
  <2>2. lost \subseteq LruOldest(lru)
    BY <1>1, <1>3, <1>5
  <2>3. lost = {x}
    BY <1>4, <2>1, <2>2
  <2>4. \A y \in B : <<x, y>> \in lru
    BY <1>2, <2>1, <2>2 DEF LruOldest
  <2>. QED  BY <2>1, <2>3, <2>4
<1>. QED  BY <1>1, <1>3, <1>5

\* evict_old_blocks on a sound buffer leaves nothing old and nothing linked
\* to an evicted block.
LEMMA EvictOldBlocksEvicts == BufferInv => EvictionByNumberStep
<1>. SUFFICES ASSUME SoundBuffer(block_buffer), NEW n \in Heights, EvictOldBlocks(n),
                     NEW h \in block_buffer'.blocks
              PROVE  /\ Number[h] > n
                     /\ \A p \in block_buffer.blocks \ block_buffer'.blocks :
                           h \notin Reached(block_buffer.parent_to_child, p)
  BY DEF BufferInv, EvictionByNumberStep
<1>. DEFINE old == OldBlocks(block_buffer, n)
            below == BelowOld(block_buffer, n)
<1>0. /\ block_buffer \in Buffers
      /\ EarliestExact(block_buffer)
      /\ block_buffer.blocks \subseteq Hash
      /\ n \in Nat
      /\ \A x \in Hash : Number[x] \in Nat
  BY BlocksAssumption DEF SoundBuffer, Indexed, Buffers, Heights
<1>1. block_buffer'.blocks = block_buffer.blocks \ (old \cup below)
  BY <1>0, EvictOldBlocksFields DEF EvictOldBlocks
<1>2. Number[h] > n
  BY <1>0, <1>1 DEF OldBlocks
<1>3. ASSUME NEW p \in block_buffer.blocks \ block_buffer'.blocks,
             h \in Reached(block_buffer.parent_to_child, p)
      PROVE  FALSE
  <2>1. h \in old \cup below
    <3>1. CASE p \in old
      BY <1>3, <3>1, BelowOldBlock
    <3>2. CASE p \in below
      BY <1>3, <3>2, BelowEvictedBlock
    <3>. QED  BY <1>1, <3>1, <3>2
  <2>. QED  BY <1>1, <2>1
<1>. QED  BY <1>2, <1>3

\* For every tree of blocks, every limit and every history of calls, the block
\* insert_block drops for room is the least recently used one, and
\* evict_old_blocks takes whole linked subtrees.
THEOREM EvictionTakesRightBlocks == BufferSpec => EvictsRightBlocks
<1>1. BufferInv /\ [BufferNext]_block_buffer => [EvictionStep /\ EvictionByNumberStep]_block_buffer
  BY InsertBlockEvicts, EvictOldBlocksEvicts
<1>. QED  BY <1>1, BufferInduction, PTL DEF BufferSpec, EvictsRightBlocks

-----------------------------------------------------------------------------
(* Following links.                                                        *)

\* A block linked to p, or to a block that is reached from p, is reached.
LEMMA ReachedStep ==
    ASSUME NEW links, NEW p \in Hash, NEW c \in Hash, c \in links[Parent[c]],
           Parent[c] \in {p} \cup Reached(links, p)
    PROVE  c \in Reached(links, p)
<1>. DEFINE q == Parent[c]
<1>1. q \in Hash /\ p \in Ancestry[q]
  BY AncestryClosed DEF Reached
<1>2. Ancestry[c] = {c} \cup Ancestry[q]
  BY <1>1, AncestryStep
<1>3. c # p /\ q # c
  <2>1. c # Genesis
    BY <1>1, BlocksAssumption
  <2>2. Number[c] = Number[q] + 1 /\ Number[q] \in Nat /\ Number[p] \in Nat
    BY <1>1, <2>1, BlocksAssumption
  <2>3. Number[p] <= Number[q]
    BY <1>1, AncestryNumber
  <2>. QED  BY <2>2, <2>3
<1>4. \A x \in LineAbove(q, Number[p]) : x \in links[Parent[x]]
  <2>1. CASE q = p
    <3>1. \A x \in Ancestry[p] : ~(Number[x] > Number[p])
      BY AncestryNumber
    <3>. QED  BY <2>1, <3>1 DEF LineAbove
  <2>2. CASE q # p
    BY <2>2 DEF Reached
  <2>. QED  BY <2>1, <2>2
<1>5. \A x \in LineAbove(c, Number[p]) : x \in links[Parent[x]]
  BY <1>2, <1>4 DEF LineAbove
<1>. QED  BY <1>1, <1>2, <1>3, <1>5 DEF Reached

-----------------------------------------------------------------------------
(* The loops over children.                                                *)

\* Two buffers with the same fields are the same.
LEMMA SameBuffer ==
    ASSUME NEW b \in Buffers, NEW c \in Buffers,
           b.blocks = c.blocks, b.proofs = c.proofs, b.lru = c.lru,
           \A p \in Hash \cup {Zero} : b.parent_to_child[p] = c.parent_to_child[p],
           \A n \in Heights : b.earliest_blocks[n] = c.earliest_blocks[n]
    PROVE  b = c
<1>1. b.parent_to_child = c.parent_to_child /\ b.earliest_blocks = c.earliest_blocks
  BY DEF Buffers
<1>. QED  BY <1>1 DEF Buffers

\* Removing blocks in two steps.
LEMMA DropDrop ==
    ASSUME NEW buf \in Buffers, NEW S, NEW T,
           NEW b, b = Drop(buf, S), NEW c, c = Drop(b, T), NEW d, d = Drop(buf, S \cup T)
    PROVE  c = d
<1>1. /\ b \in Buffers /\ b.blocks = buf.blocks \ S /\ b.proofs = buf.proofs \ S
      /\ \A p \in Hash \cup {Zero} : b.parent_to_child[p] = buf.parent_to_child[p] \ S
      /\ \A n \in Heights : b.earliest_blocks[n] = buf.earliest_blocks[n] \ S
      /\ b.lru = LruRemove(buf.lru, S)
  BY DropFields
<1>2. /\ d \in Buffers /\ d.blocks = buf.blocks \ (S \cup T) /\ d.proofs = buf.proofs \ (S \cup T)
      /\ \A p \in Hash \cup {Zero} : d.parent_to_child[p] = buf.parent_to_child[p] \ (S \cup T)
      /\ \A n \in Heights : d.earliest_blocks[n] = buf.earliest_blocks[n] \ (S \cup T)
      /\ d.lru = LruRemove(buf.lru, S \cup T)
  BY DropFields
<1>3. /\ c \in Buffers /\ c.blocks = b.blocks \ T /\ c.proofs = b.proofs \ T
      /\ \A p \in Hash \cup {Zero} : c.parent_to_child[p] = b.parent_to_child[p] \ T
      /\ \A n \in Heights : c.earliest_blocks[n] = b.earliest_blocks[n] \ T
      /\ c.lru = LruRemove(b.lru, T)
  BY <1>1, DropFields
<1>4. \A X : (X \ S) \ T = X \ (S \cup T)
  OBVIOUS
<1>5. c.lru = d.lru
  BY <1>1, <1>2, <1>3 DEF LruRemove
<1>6. ASSUME NEW p \in Hash \cup {Zero} PROVE c.parent_to_child[p] = d.parent_to_child[p]
  <2>1. c.parent_to_child[p] = (buf.parent_to_child[p] \ S) \ T
    BY <1>1, <1>3
  <2>. QED  BY <1>2, <1>4, <2>1
<1>7. ASSUME NEW n \in Heights PROVE c.earliest_blocks[n] = d.earliest_blocks[n]
  <2>1. c.earliest_blocks[n] = (buf.earliest_blocks[n] \ S) \ T
    BY <1>1, <1>3
  <2>. QED  BY <1>2, <1>4, <2>1
<1>8. c.blocks = d.blocks /\ c.proofs = d.proofs
  BY <1>1, <1>2, <1>3
<1>. QED  BY <1>2, <1>3, <1>5, <1>6, <1>7, <1>8, SameBuffer

\* What is left of a buffer without the blocks in S and the links below P.
Rest(buf, S, P) == Unlink(Drop(buf, S), P)

LEMMA RestFields ==
    ASSUME NEW buf \in Buffers, NEW S, NEW P, NEW b, b = Rest(buf, S, P)
    PROVE  /\ b \in Buffers
           /\ b.blocks = buf.blocks \ S
           /\ b.proofs = buf.proofs \ S
           /\ b.lru = LruRemove(buf.lru, S)
           /\ \A p \in Hash \cup {Zero} : p \in P => b.parent_to_child[p] = {}
           /\ \A p \in Hash \cup {Zero} :
                 p \notin P => b.parent_to_child[p] = buf.parent_to_child[p] \ S
           /\ \A n \in Heights : b.earliest_blocks[n] = buf.earliest_blocks[n] \ S
<1>. DEFINE d == Drop(buf, S)
<1>1. /\ d \in Buffers /\ d.blocks = buf.blocks \ S /\ d.proofs = buf.proofs \ S
      /\ \A p \in Hash \cup {Zero} : d.parent_to_child[p] = buf.parent_to_child[p] \ S
      /\ \A n \in Heights : d.earliest_blocks[n] = buf.earliest_blocks[n] \ S
      /\ d.lru = LruRemove(buf.lru, S)
  BY DropFields
<1>2. b = Unlink(d, P)
  BY DEF Rest
<1>. HIDE DEF d
<1>3. /\ b \in Buffers /\ b.blocks = d.blocks /\ b.proofs = d.proofs
      /\ b.earliest_blocks = d.earliest_blocks /\ b.lru = d.lru
      /\ \A p \in Hash \cup {Zero} :
            b.parent_to_child[p] = IF p \in P THEN {} ELSE d.parent_to_child[p]
  BY <1>1, <1>2, UnlinkFields
<1>. QED  BY <1>1, <1>3

\* More parents are unlinked.
LEMMA RestUnlink ==
    ASSUME NEW buf \in Buffers, NEW S, NEW P, NEW Q,
           NEW b, b = Rest(buf, S, P), NEW c, c = Unlink(b, Q), NEW d, d = Rest(buf, S, P \cup Q)
    PROVE  c = d
<1>1. /\ b \in Buffers /\ b.blocks = buf.blocks \ S /\ b.proofs = buf.proofs \ S
      /\ b.lru = LruRemove(buf.lru, S)
      /\ \A q \in Hash \cup {Zero} : q \in P => b.parent_to_child[q] = {}
      /\ \A q \in Hash \cup {Zero} :
            q \notin P => b.parent_to_child[q] = buf.parent_to_child[q] \ S
      /\ \A n \in Heights : b.earliest_blocks[n] = buf.earliest_blocks[n] \ S
  BY RestFields
<1>2. /\ d \in Buffers /\ d.blocks = buf.blocks \ S /\ d.proofs = buf.proofs \ S
      /\ d.lru = LruRemove(buf.lru, S)
      /\ \A q \in Hash \cup {Zero} : q \in P \cup Q => d.parent_to_child[q] = {}
      /\ \A q \in Hash \cup {Zero} :
            q \notin P \cup Q => d.parent_to_child[q] = buf.parent_to_child[q] \ S
      /\ \A n \in Heights : d.earliest_blocks[n] = buf.earliest_blocks[n] \ S
  BY RestFields
<1>3. /\ c \in Buffers /\ c.blocks = b.blocks /\ c.proofs = b.proofs
      /\ c.earliest_blocks = b.earliest_blocks /\ c.lru = b.lru
      /\ \A q \in Hash \cup {Zero} :
            c.parent_to_child[q] = IF q \in Q THEN {} ELSE b.parent_to_child[q]
  BY <1>1, UnlinkFields
<1>4. ASSUME NEW q \in Hash \cup {Zero} PROVE c.parent_to_child[q] = d.parent_to_child[q]
  <2>1. CASE q \in P \cup Q
    <3>1. d.parent_to_child[q] = {}
      BY <1>2, <2>1
    <3>2. q \in Q \/ b.parent_to_child[q] = {}
      BY <1>1, <2>1
    <3>. QED  BY <1>3, <3>1, <3>2
  <2>2. CASE q \notin P \cup Q
    <3>1. d.parent_to_child[q] = buf.parent_to_child[q] \ S
      BY <1>2, <2>2
    <3>2. b.parent_to_child[q] = buf.parent_to_child[q] \ S
      BY <1>1, <2>2
    <3>. QED  BY <1>3, <2>2, <3>1, <3>2
  <2>. QED  BY <2>1, <2>2
<1>5. ASSUME NEW n \in Heights PROVE c.earliest_blocks[n] = d.earliest_blocks[n]
  <2>1. d.earliest_blocks[n] = buf.earliest_blocks[n] \ S
    BY <1>2
  <2>. QED  BY <1>1, <1>3, <2>1
<1>6. c.blocks = d.blocks /\ c.proofs = d.proofs /\ c.lru = d.lru
  BY <1>1, <1>2, <1>3
<1>7. c \in Buffers /\ d \in Buffers
  BY <1>2, <1>3
<1>. QED  BY <1>4, <1>5, <1>6, <1>7, SameBuffer

\* More blocks are removed.
LEMMA RestDrop ==
    ASSUME NEW buf \in Buffers, NEW S, NEW P, NEW T,
           NEW b, b = Rest(buf, S, P), NEW c, c = Drop(b, T), NEW d, d = Rest(buf, S \cup T, P)
    PROVE  c = d
<1>1. /\ b \in Buffers /\ b.blocks = buf.blocks \ S /\ b.proofs = buf.proofs \ S
      /\ b.lru = LruRemove(buf.lru, S)
      /\ \A q \in Hash \cup {Zero} : q \in P => b.parent_to_child[q] = {}
      /\ \A q \in Hash \cup {Zero} :
            q \notin P => b.parent_to_child[q] = buf.parent_to_child[q] \ S
      /\ \A n \in Heights : b.earliest_blocks[n] = buf.earliest_blocks[n] \ S
  BY RestFields
<1>2. /\ d \in Buffers /\ d.blocks = buf.blocks \ (S \cup T)
      /\ d.proofs = buf.proofs \ (S \cup T)
      /\ d.lru = LruRemove(buf.lru, S \cup T)
      /\ \A q \in Hash \cup {Zero} : q \in P => d.parent_to_child[q] = {}
      /\ \A q \in Hash \cup {Zero} :
            q \notin P => d.parent_to_child[q] = buf.parent_to_child[q] \ (S \cup T)
      /\ \A n \in Heights : d.earliest_blocks[n] = buf.earliest_blocks[n] \ (S \cup T)
  BY RestFields
<1>3. /\ c \in Buffers /\ c.blocks = b.blocks \ T /\ c.proofs = b.proofs \ T
      /\ \A q \in Hash \cup {Zero} : c.parent_to_child[q] = b.parent_to_child[q] \ T
      /\ \A n \in Heights : c.earliest_blocks[n] = b.earliest_blocks[n] \ T
      /\ c.lru = LruRemove(b.lru, T)
  BY <1>1, DropFields
<1>4. \A X : (X \ S) \ T = X \ (S \cup T)
  OBVIOUS
<1>5. c.lru = d.lru
  BY <1>1, <1>2, <1>3 DEF LruRemove
<1>6. ASSUME NEW q \in Hash \cup {Zero} PROVE c.parent_to_child[q] = d.parent_to_child[q]
  <2>1. CASE q \in P
    <3>1. b.parent_to_child[q] = {} /\ d.parent_to_child[q] = {}
      BY <1>1, <1>2, <2>1
    <3>. QED  BY <1>3, <3>1
  <2>2. CASE q \notin P
    <3>1. b.parent_to_child[q] = buf.parent_to_child[q] \ S
      BY <1>1, <2>2
    <3>2. d.parent_to_child[q] = buf.parent_to_child[q] \ (S \cup T)
      BY <1>2, <2>2
    <3>. QED  BY <1>3, <1>4, <3>1, <3>2
  <2>. QED  BY <2>1, <2>2
<1>7. ASSUME NEW n \in Heights PROVE c.earliest_blocks[n] = d.earliest_blocks[n]
  <2>1. c.earliest_blocks[n] = (buf.earliest_blocks[n] \ S) \ T
    BY <1>1, <1>3
  <2>. QED  BY <1>2, <1>4, <2>1
<1>8. c.blocks = d.blocks /\ c.proofs = d.proofs
  <2>1. c.blocks = (buf.blocks \ S) \ T /\ c.proofs = (buf.proofs \ S) \ T
    BY <1>1, <1>3
  <2>. QED  BY <1>2, <1>4, <2>1
<1>9. c \in Buffers /\ d \in Buffers
  BY <1>2, <1>3
<1>. QED  BY <1>5, <1>6, <1>7, <1>8, <1>9, SameBuffer

\* Nothing is removed and nothing unlinked.
LEMMA RestNothing ==
    ASSUME NEW buf \in Buffers, NEW S, \A x : x \notin S, NEW b, b = Rest(buf, S, S)
    PROVE  b = buf
<1>1. /\ b \in Buffers /\ b.blocks = buf.blocks \ S /\ b.proofs = buf.proofs \ S
      /\ b.lru = LruRemove(buf.lru, S)
      /\ \A p \in Hash \cup {Zero} : p \in S => b.parent_to_child[p] = {}
      /\ \A p \in Hash \cup {Zero} :
            p \notin S => b.parent_to_child[p] = buf.parent_to_child[p] \ S
      /\ \A n \in Heights : b.earliest_blocks[n] = buf.earliest_blocks[n] \ S
  BY RestFields
<1>2. LruRemove(buf.lru, S) = buf.lru
  BY DEF LruRemove, Buffers
<1>6. \A X : X \ S = X
  OBVIOUS
<1>3. ASSUME NEW p \in Hash \cup {Zero} PROVE b.parent_to_child[p] = buf.parent_to_child[p]
  BY <1>1, <1>6
<1>4. ASSUME NEW n \in Heights PROVE b.earliest_blocks[n] = buf.earliest_blocks[n]
  BY <1>1, <1>6
<1>5. b \in Buffers /\ b.blocks = buf.blocks /\ b.proofs = buf.proofs /\ b.lru = buf.lru
  BY <1>1, <1>2
<1>. QED  BY <1>3, <1>4, <1>5, SameBuffer

LEMMA DropNothing ==
    ASSUME NEW buf \in Buffers, NEW S, \A x : x \notin S, NEW b, b = Drop(buf, S)
    PROVE  b = buf
<1>1. /\ b \in Buffers /\ b.blocks = buf.blocks \ S /\ b.proofs = buf.proofs \ S
      /\ \A p \in Hash \cup {Zero} : b.parent_to_child[p] = buf.parent_to_child[p] \ S
      /\ \A n \in Heights : b.earliest_blocks[n] = buf.earliest_blocks[n] \ S
      /\ b.lru = LruRemove(buf.lru, S)
  BY DropFields
<1>2. LruRemove(buf.lru, S) = buf.lru
  BY DEF LruRemove, Buffers
<1>6. \A X : X \ S = X
  OBVIOUS
<1>3. ASSUME NEW p \in Hash \cup {Zero} PROVE b.parent_to_child[p] = buf.parent_to_child[p]
  BY <1>1, <1>6
<1>4. ASSUME NEW n \in Heights PROVE b.earliest_blocks[n] = buf.earliest_blocks[n]
  BY <1>1, <1>6
<1>5. b \in Buffers /\ b.blocks = buf.blocks /\ b.proofs = buf.proofs /\ b.lru = buf.lru
  BY <1>1, <1>2
<1>. QED  BY <1>3, <1>4, <1>5, SameBuffer

\* The hashes in a vector.
LEMMA HashesAppend ==
    ASSUME NEW s \in Seq(Hash), NEW h \in Hash
    PROVE  Append(s, h) \in Seq(Hash) /\ Hashes(Append(s, h)) = Hashes(s) \cup {h}
<1>. DEFINE t == Append(s, h)
<1>1. t \in Seq(Hash) /\ Len(t) = Len(s) + 1 /\ t[Len(s) + 1] = h
  OBVIOUS
<1>2. \A i \in 1..Len(s) : t[i] = s[i]
  OBVIOUS
<1>3. DOMAIN s = 1..Len(s) /\ DOMAIN t = 1..(Len(s) + 1) /\ Len(s) \in Nat
  BY <1>1
<1>. HIDE DEF t
<1>4. Hashes(t) = Hashes(s) \cup {h}
  BY <1>1, <1>2, <1>3 DEF Hashes
<1>. QED  BY <1>1, <1>4 DEF t

LEMMA HashesConcat ==
    ASSUME NEW s \in Seq(Hash), NEW r \in Seq(Hash)
    PROVE  s \o r \in Seq(Hash) /\ Hashes(s \o r) = Hashes(s) \cup Hashes(r)
<1>. DEFINE t == s \o r
<1>1. t \in Seq(Hash) /\ Len(t) = Len(s) + Len(r)
  OBVIOUS
<1>2. /\ \A i \in 1..Len(s) : t[i] = s[i]
      /\ \A i \in 1..Len(r) : t[Len(s) + i] = r[i]
  OBVIOUS
<1>3. /\ DOMAIN s = 1..Len(s) /\ DOMAIN r = 1..Len(r) /\ DOMAIN t = 1..(Len(s) + Len(r))
      /\ Len(s) \in Nat /\ Len(r) \in Nat
  BY <1>1
<1>. HIDE DEF t
<1>4. ASSUME NEW h \in Hashes(t) PROVE h \in Hashes(s) \cup Hashes(r)
  <2>1. PICK i \in 1..(Len(s) + Len(r)) : h = t[i]
    BY <1>3 DEF Hashes
  <2>2. CASE i <= Len(s)
    BY <1>2, <1>3, <2>1, <2>2 DEF Hashes
  <2>3. CASE ~(i <= Len(s))
    <3>1. i - Len(s) \in 1..Len(r) /\ i = Len(s) + (i - Len(s))
      BY <1>3, <2>1, <2>3
    <3>2. h = r[i - Len(s)]
      BY <1>2, <2>1, <3>1
    <3>. QED  BY <1>3, <3>1, <3>2 DEF Hashes
  <2>. QED  BY <2>2, <2>3
<1>5. ASSUME NEW h \in Hashes(s) PROVE h \in Hashes(t)
  BY <1>2, <1>3 DEF Hashes
<1>6. ASSUME NEW h \in Hashes(r) PROVE h \in Hashes(t)
  <2>1. PICK i \in 1..Len(r) : h = r[i]
    BY <1>3 DEF Hashes
  <2>2. Len(s) + i \in DOMAIN t /\ h = t[Len(s) + i]
    BY <1>2, <1>3, <2>1
  <2>. QED  BY <2>2 DEF Hashes
<1>. QED  BY <1>1, <1>4, <1>5, <1>6 DEF t

\* pop() takes the last hash.
LEMMA HashesPop ==
    ASSUME NEW s \in Seq(Hash), s # <<>>, NEW t, t = SubSeq(s, 1, Len(s) - 1)
    PROVE  /\ t \in Seq(Hash) /\ s[Len(s)] \in Hash
           /\ Hashes(s) = Hashes(t) \cup {s[Len(s)]}
<1>1. Len(s) \in Nat \ {0} /\ DOMAIN s = 1..Len(s)
  OBVIOUS
<1>2. t \in Seq(Hash) /\ Len(t) = Len(s) - 1 /\ DOMAIN t = 1..(Len(s) - 1)
  BY <1>1
<1>3. \A i \in 1..(Len(s) - 1) : t[i] = s[i]
  BY <1>1
<1>4. s[Len(s)] \in Hash
  BY <1>1
<1>5. ASSUME NEW h \in Hashes(s) PROVE h \in Hashes(t) \cup {s[Len(s)]}
  <2>1. PICK i \in 1..Len(s) : h = s[i]
    BY <1>1 DEF Hashes
  <2>2. \A n \in Nat : \A j \in 1..n : j = n \/ j \in 1..(n - 1)
    OBVIOUS
  <2>3. i = Len(s) \/ i \in 1..(Len(s) - 1)
    BY <1>1, <2>2
  <2>. QED  BY <1>2, <1>3, <2>1, <2>3 DEF Hashes
<1>6. ASSUME NEW h \in Hashes(t) PROVE h \in Hashes(s)
  <2>1. PICK i \in 1..(Len(s) - 1) : h = t[i]
    BY <1>2 DEF Hashes
  <2>. QED  BY <1>1, <1>3, <2>1 DEF Hashes
<1>7. s[Len(s)] \in Hashes(s)
  BY <1>1 DEF Hashes
<1>. QED  BY <1>2, <1>4, <1>5, <1>6, <1>7

LEMMA NoHashes == Hashes(<<>>) = {} /\ <<>> \in Seq(Hash)
BY DEF Hashes

\* The buffer when the loop starts, and the hashes it starts with.
Roots == IF Removing THEN {argument} ELSE OldBlocks(before, argument)
Base ==
    IF Removing THEN BufferRemoveBlock(before, argument) ELSE Drop(before, OldBlocks(before, argument))

\* The hashes that have been found so far, those in the loop over parent_children
\* excepted that are still to come; all that can be found; those that leave.
Seen == unlinked \cup Hashes(stack) \cup Hashes(visited)
Scope == Roots \cup UNION {Reached(Base.parent_to_child, r) : r \in Roots}
Leaves(h) == IF Removing THEN Removable(Base, h) ELSE h \in Base.blocks
Left == {h \in Seen : Leaves(h)}

CallOK ==
    /\ before \in Buffers
    /\ Indexed(before)
    /\ Removing => argument \in Hash
    /\ ~Removing => Evicting /\ argument \in Heights

StartOK ==
    /\ unlinked = {} /\ visiting = {} /\ visited = <<>> /\ removed_blocks = <<>>
    /\ walked = Drop(before, Hashes(stack))
    /\ Removing => stack = <<>>
    /\ Evicting => Hashes(stack) \subseteq OldBlocks(before, argument)

\* The buffer lacks the blocks that were found and leave, and the links below the
\* parents that were looked at; the children of these have been found.
LoopOK ==
    /\ walked = Rest(Base, Left, unlinked)
    /\ Roots \subseteq unlinked \cup Hashes(stack)
    /\ Seen \cup visiting \subseteq Scope
    /\ \A p \in unlinked : Base.parent_to_child[p] \subseteq Seen \cup visiting

\* What will be returned has left the buffer, and what is below a hash that was
\* found leaves after it.
ReturnOK ==
    /\ Removing =>
        /\ Hashes(removed_blocks) = Left \cup {h \in {argument} : Removable(before, h)}
        /\ \A x \in Seen \cup visiting : Ancestry[x] \cap Scope \subseteq unlinked \cup {x}
        /\ AncestorsComeFirst
    /\ ~Removing => removed_blocks = <<>>

ChildrenInv ==
    /\ CallOK
    /\ stack \in Seq(Hash) /\ visited \in Seq(Hash) /\ removed_blocks \in Seq(Hash)
    /\ unlinked \subseteq Hash
    /\ phase \in {"start", "walk", "children", "done"}
    /\ phase = "start" => StartOK
    /\ phase # "start" => LoopOK /\ ReturnOK
    /\ phase \in {"walk", "done"} => visiting = {} /\ visited = <<>>
    /\ phase = "done" => stack = <<>>

\* Facts about the call.
LEMMA CallFacts ==
    ASSUME CallOK
    PROVE  /\ Base \in Buffers /\ LinksSound(Base)
           /\ Roots \subseteq Hash /\ Scope \subseteq Hash
           /\ \A r \in Roots : ~Leaves(r)
<1>1. CASE Removing
  <2>1. argument \in Hash /\ Roots = {argument}
    BY <1>1 DEF CallOK, Roots
  <2>2. CASE Removable(before, argument)
    <3>1. Base = Drop(before, {argument})
      BY <1>1, <2>2 DEF Base, BufferRemoveBlock
    <3>2. Base \in Buffers /\ Base.blocks = before.blocks \ {argument}
      BY <3>1, DropFields DEF CallOK
    <3>3. LinksSound(Base)
      BY <3>1, DropIndexed DEF CallOK, Indexed
    <3>. QED  BY <1>1, <2>1, <3>2, <3>3 DEF Leaves, Removable, Scope, Reached
  <2>3. CASE ~Removable(before, argument)
    BY <1>1, <2>1, <2>3 DEF CallOK, Base, BufferRemoveBlock, Leaves, Scope, Reached, Indexed
  <2>. QED  BY <2>2, <2>3
<1>2. CASE ~Removing
  <2>. DEFINE old == OldBlocks(before, argument)
  <2>1. Base = Drop(before, old) /\ Roots = old
    BY <1>2 DEF Base, Roots
  <2>2. Base \in Buffers /\ Base.blocks = before.blocks \ old
    BY <2>1, DropFields DEF CallOK
  <2>3. LinksSound(Base)
    BY <2>1, DropIndexed DEF CallOK, Indexed
  <2>4. old \subseteq Hash
    BY DEF CallOK, OldBlocks, Buffers
  <2>. HIDE DEF old
  <2>. QED  BY <1>2, <2>1, <2>2, <2>3, <2>4 DEF Leaves, Scope, Reached
<1>. QED  BY <1>1, <1>2

\* The children of what can be found can be found.
LEMMA ScopeClosed ==
    ASSUME CallOK, NEW p \in Scope, NEW c \in Base.parent_to_child[p]
    PROVE  c \in Scope /\ c \in Hash /\ Parent[c] = p
<1>0. /\ Base \in Buffers /\ LinksSound(Base) /\ p \in Hash /\ Roots \subseteq Hash
  BY CallFacts
<1>1. c \in Hash /\ Parent[c] = p /\ c \in Base.parent_to_child[Parent[c]]
  BY <1>0 DEF LinksSound, Buffers
<1>2. PICK r \in Roots : p \in {r} \cup Reached(Base.parent_to_child, r)
  BY DEF Scope
<1>3. c \in Reached(Base.parent_to_child, r)
  BY <1>0, <1>1, <1>2, ReachedStep
<1>. QED  BY <1>1, <1>3 DEF Scope

\* At the end everything that can be found has been.
LEMMA ChildrenWalkEnd ==
    ASSUME ChildrenInv, phase = "done"
    PROVE  unlinked = Scope /\ Left = {h \in Scope : Leaves(h)}
<1>1. /\ CallOK /\ LoopOK /\ Seen = unlinked /\ visiting = {}
  BY NoHashes DEF ChildrenInv, Seen
<1>2. Roots \subseteq unlinked /\ unlinked \subseteq Scope
  BY <1>1, NoHashes DEF LoopOK, ChildrenInv
<1>3. ASSUME NEW r \in Roots, NEW h \in Reached(Base.parent_to_child, r), h \notin unlinked
      PROVE  FALSE
  <2>. DEFINE S == {x \in LineAbove(h, Number[r]) : x \notin unlinked}
  <2>0. r \in Hash /\ h \in Hash /\ r \in Ancestry[h] /\ h # r
    BY <1>1, <1>3, CallFacts DEF Reached
  <2>1. \A x \in LineAbove(h, Number[r]) : x \in Base.parent_to_child[Parent[x]]
    BY <1>3 DEF Reached
  <2>2. S \in SUBSET Ancestry[h] /\ h \in S
    BY <1>3, <2>0, AncestryClosed, AncestryNumber DEF LineAbove
  <2>3. PICK x \in S : \A y \in S : Number[x] <= Number[y]
    BY <2>0, <2>2, HighestOnWalk
  <2>4. x \in Hash /\ x \in Ancestry[h] /\ Number[x] > Number[r] /\ x \notin unlinked
    BY <2>0, <2>3, AncestryClosed DEF LineAbove
  <2>5. Number[x] \in Nat /\ Number[r] \in Nat
    BY <2>0, <2>4, BlocksAssumption
  <2>6. /\ Parent[x] \in Hash /\ Number[x] = Number[Parent[x]] + 1
        /\ Number[Parent[x]] \in Nat /\ Parent[x] \in Ancestry[h]
    <3>1. x # Genesis
      BY <2>4, <2>5, BlocksAssumption
    <3>2. Parent[x] \in Hash /\ Number[x] = Number[Parent[x]] + 1
      BY <2>4, <3>1, BlocksAssumption
    <3>3. ParentClosed(Ancestry[h])
      BY <2>0, AncestryClosed
    <3>. QED  BY <2>4, <3>2, <3>3, BlocksAssumption DEF ParentClosed
  <2>7. Parent[x] \in unlinked
    <3>1. CASE Number[Parent[x]] > Number[r]
      <4>1. Parent[x] \in LineAbove(h, Number[r]) /\ ~(Number[x] <= Number[Parent[x]])
        BY <2>5, <2>6, <3>1 DEF LineAbove
      <4>. QED  BY <2>3, <4>1
    <3>2. CASE ~(Number[Parent[x]] > Number[r])
      <4>1. Number[Parent[x]] = Number[r]
        BY <2>4, <2>5, <2>6, <3>2
      <4>2. Parent[x] = r
        BY <2>0, <2>6, <4>1, AncestryLinear
      <4>. QED  BY <1>2, <4>2
    <3>. QED  BY <3>1, <3>2
  <2>8. x \in Base.parent_to_child[Parent[x]]
    BY <2>1, <2>3
  <2>. QED  BY <1>1, <2>4, <2>7, <2>8 DEF LoopOK
<1>4. unlinked = Scope
  BY <1>2, <1>3 DEF Scope
<1>. QED  BY <1>1, <1>4 DEF Left

\* A step leaves the call alone.
LEMMA SameCall ==
    ASSUME UNCHANGED methodVars
    PROVE  /\ Base' = Base /\ Roots' = Roots /\ Scope' = Scope
           /\ (CallOK => CallOK') /\ Removing' = Removing /\ Evicting' = Evicting
           /\ \A h : Leaves(h)' = Leaves(h)
  BY DEF methodVars, Base, Roots, Scope, CallOK, Removing, Evicting, Leaves

LEMMA RemoveRootStep ==
    ASSUME ChildrenInv, RemoveRoot
    PROVE  ChildrenInv'
<1>1. /\ CallOK /\ StartOK /\ Removing /\ phase' = "walk" /\ stack' = <<argument>>
      /\ visiting' = {} /\ visited' = <<>> /\ unlinked' = {} /\ argument \in Hash
      /\ UNCHANGED methodVars
  BY DEF ChildrenInv, RemoveRoot, StartOK, CallOK
<1>2. CallOK' /\ Base' = Base /\ Roots' = {argument} /\ Scope' = Scope /\ Removing'
  BY <1>1, SameCall DEF Roots
<1>3. /\ stack' \in Seq(Hash) /\ Hashes(stack)' = {argument} /\ Hashes(visited)' = {}
      /\ visited' \in Seq(Hash)
  <2>1. <<argument>> = Append(<<>>, argument)
    OBVIOUS
  <2>. QED  BY <1>1, <2>1, NoHashes, HashesAppend
<1>4. walked = before
  BY <1>1, NoHashes, DropNothing DEF StartOK, CallOK
<1>5. walked' = Base
  BY <1>1, <1>4 DEF RemoveRoot, RemoveOne, Base
<1>6. Seen' = {argument} /\ argument \in Scope
  BY <1>1, <1>3 DEF Seen, Scope, Roots
<1>7. \A x : x \notin Left'
  <2>1. \A r \in Roots : ~Leaves(r)'
    BY <1>1, SameCall, CallFacts
  <2>2. Seen' = Roots
    BY <1>1, <1>6 DEF Roots
  <2>. QED  BY <2>1, <2>2 DEF Left
<1>8. LoopOK'
  <2>1. Left' = {} /\ unlinked' = {}
    BY <1>1, <1>7
  <2>2. Rest(Base, Left', unlinked') = Base
    BY <2>1, CallFacts, <1>1, RestNothing
  <2>. QED  BY <1>1, <1>2, <1>3, <1>5, <1>6, <2>2 DEF LoopOK
<1>9. ReturnOK' /\ removed_blocks' \in Seq(Hash)
  <2>1. removed_blocks' = IF Removable(before, argument) THEN Append(<<>>, argument) ELSE <<>>
    BY <1>1, <1>4 DEF RemoveRoot, RemoveOne, StartOK
  <2>2. /\ removed_blocks' \in Seq(Hash)
        /\ Hashes(removed_blocks)' = {h \in {argument} : Removable(before, h)}
    BY <1>1, <2>1, NoHashes, HashesAppend
  <2>3. AncestorsComeFirst'
    BY <2>1 DEF AncestorsComeFirst
  <2>4. \A x \in Seen' \cup visiting' : Ancestry[x] \cap Scope' \subseteq unlinked' \cup {x}
    <3>1. SUFFICES ASSUME NEW a \in Ancestry[argument] \cap Scope PROVE a = argument
      BY <1>1, <1>2, <1>6
    <3>2. a = argument \/ a \in Reached(Base.parent_to_child, argument)
      BY <1>1, <3>1 DEF Scope, Roots
    <3>3. a \in Hash /\ (a # argument => argument \in Ancestry[a])
      BY <1>1, <3>2 DEF Reached
    <3>. QED  BY <1>1, <3>1, <3>3, AncestryNumber
  <2>5. UNCHANGED <<before, argument>>
    BY <1>1 DEF methodVars
  <2>. QED  BY <1>2, <1>7, <2>2, <2>3, <2>4, <2>5 DEF ReturnOK
<1>. QED  BY <1>1, <1>2, <1>3, <1>8, <1>9 DEF ChildrenInv

\* The first entry of the index by number holds old blocks only, and there is one
\* as long as an old block is left.
LEMMA FirstEntryOld ==
    ASSUME CallOK, Evicting, StartOK
    PROVE  /\ FirstEntry \subseteq OldBlocks(before, argument) \ Hashes(stack)
           /\ FirstEntry = {} => OldBlocks(before, argument) \subseteq Hashes(stack)
<1>. DEFINE old == OldBlocks(before, argument) \ Hashes(stack)
<1>0. /\ before \in Buffers /\ EarliestExact(before) /\ argument \in Nat /\ ~Removing
      /\ \A h \in before.blocks : h \in Hash /\ Number[h] \in Heights /\ Number[h] \in Nat
  <2>1. ~Removing /\ argument \in Heights /\ before \in Buffers /\ EarliestExact(before)
    BY DEF CallOK, Indexed, Removing, Evicting
  <2>2. \A h \in Hash : Number[h] \in Heights /\ Number[h] \in Nat
    BY BlocksAssumption DEF Heights
  <2>3. Heights \subseteq Nat
    BY <2>2 DEF Heights
  <2>. QED  BY <2>1, <2>2, <2>3 DEF Buffers
<1>1. \A n \in Heights : walked.earliest_blocks[n] =
          {h \in before.blocks : Number[h] = n} \ Hashes(stack)
  <2>1. \A n \in Heights : walked.earliest_blocks[n] = before.earliest_blocks[n] \ Hashes(stack)
    BY <1>0, DropFields DEF StartOK
  <2>. QED  BY <1>0, <2>1 DEF EarliestExact
<1>2. FirstEntry \subseteq old
  BY <1>1 DEF FirstEntry, OldBlocks
<1>3. ASSUME old # {} PROVE FirstEntry # {}
  <2>1. old \in SUBSET Hash
    BY <1>0 DEF OldBlocks
  <2>2. PICK x \in old : \A y \in old : Number[x] <= Number[y]
    BY <1>3, <2>1, LowestNumber
  <2>3. x \in before.blocks /\ Number[x] <= argument /\ x \notin Hashes(stack)
    BY <2>2 DEF OldBlocks
  <2>4. ASSUME NEW m \in Heights, m < Number[x], NEW y \in walked.earliest_blocks[m]
        PROVE  FALSE
    <3>1. y \in before.blocks /\ Number[y] = m /\ y \notin Hashes(stack)
      BY <1>1, <2>4
    <3>2. y \in old
      BY <1>0, <2>3, <2>4, <3>1 DEF OldBlocks
    <3>. QED  BY <1>0, <2>2, <2>3, <2>4, <3>1, <3>2
  <2>5. x \in walked.earliest_blocks[Number[x]] /\ Number[x] \in Heights /\ x \in Hash
    BY <1>0, <1>1, <2>3
  <2>6. x \in FirstEntry
    BY <2>3, <2>4, <2>5 DEF FirstEntry
  <2>. QED  BY <2>6
<1>. QED  BY <1>2, <1>3

LEMMA EvictOldStep ==
    ASSUME ChildrenInv, EvictOld
    PROVE  ChildrenInv'
<1>1. /\ CallOK /\ StartOK /\ Evicting /\ ~Removing /\ phase = "start"
      /\ UNCHANGED <<methodVars, phase, visiting, visited, unlinked, removed_blocks>>
  BY DEF ChildrenInv, EvictOld, EvictOne, Removing, Evicting
<1>2. CallOK' /\ Evicting' /\ ~Removing'
  BY <1>1, SameCall
<1>3. PICK h \in FirstEntry : EvictOne(h) /\ stack' = Append(stack, h)
  BY DEF EvictOld
<1>4. h \in OldBlocks(before, argument) /\ h \notin Hashes(stack) /\ h \in Hash
  BY <1>1, <1>3, FirstEntryOld DEF FirstEntry
<1>5. stack' \in Seq(Hash) /\ Hashes(stack)' = Hashes(stack) \cup {h}
  BY <1>3, <1>4, HashesAppend DEF ChildrenInv
<1>6. h \in walked.blocks
  <2>1. walked.blocks = before.blocks \ Hashes(stack)
    BY <1>1, DropFields DEF StartOK, CallOK
  <2>. QED  BY <1>4, <2>1 DEF OldBlocks
<1>7. walked' = Drop(walked, {h})
  BY <1>3, <1>6 DEF EvictOne, BufferEvictBlock
<1>8. walked' = Drop(before, Hashes(stack) \cup {h})
  BY <1>1, <1>7, DropDrop DEF StartOK, CallOK
<1>9. StartOK'
  <2>1. UNCHANGED <<before, argument>>
    BY <1>1 DEF methodVars
  <2>. QED  BY <1>1, <1>2, <1>4, <1>5, <1>8, <2>1 DEF StartOK
<1>. QED  BY <1>1, <1>2, <1>5, <1>9 DEF ChildrenInv

LEMMA StartWalkStep ==
    ASSUME ChildrenInv, StartWalk
    PROVE  ChildrenInv'
<1>1. /\ CallOK /\ StartOK /\ Evicting /\ ~Removing /\ phase' = "walk" /\ FirstEntry = {}
      /\ UNCHANGED <<methodVars, walked, stack, visiting, visited, unlinked, removed_blocks>>
  BY DEF ChildrenInv, StartWalk, Removing, Evicting
<1>2. CallOK' /\ ~Removing' /\ Base' = Base /\ Roots' = Roots /\ Scope' = Scope
  BY <1>1, SameCall
<1>3. Hashes(stack) = OldBlocks(before, argument)
  BY <1>1, FirstEntryOld DEF StartOK
<1>4. walked' = Base /\ Roots = Hashes(stack)
  BY <1>1, <1>3 DEF StartOK, Base, Roots
<1>5. Seen' = Roots
  BY <1>1, <1>4, NoHashes DEF Seen, StartOK
<1>6. \A x : x \notin Left'
  <2>1. \A r \in Roots : ~Leaves(r)'
    BY <1>1, SameCall, CallFacts
  <2>. QED  BY <1>5, <2>1 DEF Left
<1>7. LoopOK'
  <2>1. Left' = {} /\ unlinked' = {}
    BY <1>1, <1>6 DEF StartOK
  <2>2. Rest(Base, Left', unlinked') = Base
    BY <2>1, CallFacts, <1>1, RestNothing
  <2>. QED  BY <1>1, <1>2, <1>4, <1>5, <2>1, <2>2 DEF LoopOK, StartOK, Scope
<1>8. ReturnOK'
  BY <1>1, <1>2 DEF ReturnOK, StartOK
<1>. QED  BY <1>1, <1>2, <1>7, <1>8 DEF ChildrenInv, StartOK

LEMMA PopParentStep ==
    ASSUME ChildrenInv, PopParent
    PROVE  ChildrenInv'
<1>. DEFINE parent == stack[Len(stack)]
<1>1. /\ CallOK /\ LoopOK /\ ReturnOK /\ visiting = {} /\ visited = <<>> /\ stack # <<>>
      /\ phase' = "children" /\ unlinked' = unlinked \cup {parent}
      /\ visiting' = walked.parent_to_child[parent] /\ walked' = Unlink(walked, {parent})
      /\ stack' = SubSeq(stack, 1, Len(stack) - 1)
      /\ UNCHANGED <<methodVars, visited, removed_blocks>>
  BY DEF ChildrenInv, PopParent
<1>2. /\ CallOK' /\ Removing' = Removing /\ Base' = Base /\ Roots' = Roots /\ Scope' = Scope
      /\ \A h : Leaves(h)' = Leaves(h)
  BY <1>1, SameCall
<1>3. /\ stack' \in Seq(Hash) /\ parent \in Hash
      /\ Hashes(stack) = Hashes(stack') \cup {parent}
  BY <1>1, HashesPop DEF ChildrenInv
<1>. HIDE DEF parent
<1>4. Hashes(stack)' = Hashes(stack')
  BY DEF Hashes
<1>5. Seen' = Seen /\ parent \in Seen /\ Left' = Left /\ parent \in Scope
  <2>1. Seen' = Seen /\ parent \in Seen
    BY <1>1, <1>3, <1>4 DEF Seen, Hashes
  <2>. QED  BY <1>1, <1>2, <2>1 DEF Left, LoopOK
<1>6. walked' = Rest(Base, Left, unlinked \cup {parent})
  <2>1. walked = Rest(Base, Left, unlinked) /\ Base \in Buffers
    BY <1>1, CallFacts DEF LoopOK
  <2>2. walked' = Unlink(walked, {parent})
    BY <1>1
  <2>. QED  BY <2>1, <2>2, RestUnlink
<1>7. /\ visiting' \subseteq Base.parent_to_child[parent]
      /\ Base.parent_to_child[parent] \subseteq Seen \cup visiting'
  <2>1. /\ parent \in unlinked => visiting' = {}
        /\ parent \notin unlinked => visiting' = Base.parent_to_child[parent] \ Left
    BY <1>1, <1>3, CallFacts, RestFields DEF LoopOK
  <2>2. parent \in unlinked => Base.parent_to_child[parent] \subseteq Seen
    BY <1>1 DEF LoopOK
  <2>3. Left \subseteq Seen
    BY DEF Left
  <2>. QED  BY <2>1, <2>2, <2>3
<1>8. \A c \in visiting' : c \in Scope /\ c \in Hash /\ Parent[c] = parent
  BY <1>1, <1>5, <1>7, ScopeClosed
<1>9. LoopOK'
  <2>1. Roots \subseteq unlinked' \cup Hashes(stack)'
    BY <1>1, <1>3, <1>4 DEF LoopOK
  <2>2. Seen \cup visiting' \subseteq Scope
    BY <1>1, <1>8 DEF LoopOK
  <2>3. \A p \in unlinked' : Base.parent_to_child[p] \subseteq Seen \cup visiting'
    BY <1>1, <1>7 DEF LoopOK
  <2>. QED  BY <1>1, <1>2, <1>5, <1>6, <2>1, <2>2, <2>3 DEF LoopOK
<1>10. ReturnOK'
  <2>. SUFFICES ASSUME Removing PROVE ReturnOK'
    BY <1>1, <1>2 DEF ReturnOK
  <2>1. /\ Hashes(removed_blocks) = Left \cup {h \in {argument} : Removable(before, h)}
        /\ \A x \in Seen : Ancestry[x] \cap Scope \subseteq unlinked \cup {x}
        /\ AncestorsComeFirst
    BY <1>1 DEF ReturnOK
  <2>2. ASSUME NEW x \in visiting'
        PROVE  Ancestry[x] \cap Scope \subseteq unlinked' \cup {x}
    <3>1. Ancestry[x] = {x} \cup Ancestry[parent]
      BY <1>3, <1>8, AncestryStep
    <3>2. Ancestry[parent] \cap Scope \subseteq unlinked \cup {parent}
      BY <1>5, <2>1
    <3>. QED  BY <1>1, <3>1, <3>2
  <2>3. AncestorsComeFirst' /\ Hashes(removed_blocks)' = Hashes(removed_blocks)
    BY <1>1, <2>1 DEF AncestorsComeFirst, Hashes
  <2>4. UNCHANGED <<before, argument>>
    BY <1>1 DEF methodVars
  <2>5. \A x \in Seen' \cup visiting' : Ancestry[x] \cap Scope' \subseteq unlinked' \cup {x}
    BY <1>1, <1>2, <1>5, <2>1, <2>2
  <2>. QED  BY <1>2, <1>5, <2>1, <2>3, <2>4, <2>5 DEF ReturnOK
<1>11. unlinked' \subseteq Hash
  BY <1>1, <1>3 DEF ChildrenInv
<1>. QED  BY <1>1, <1>2, <1>3, <1>9, <1>10, <1>11 DEF ChildrenInv

LEMMA TakeChildStep ==
    ASSUME ChildrenInv, TakeChild
    PROVE  ChildrenInv'
<1>1. /\ CallOK /\ LoopOK /\ ReturnOK /\ phase = "children" /\ phase' = phase
      /\ UNCHANGED <<methodVars, stack, unlinked>>
  BY DEF ChildrenInv, TakeChild
<1>2. /\ CallOK' /\ Removing' = Removing /\ Base' = Base /\ Roots' = Roots /\ Scope' = Scope
      /\ \A h : Leaves(h)' = Leaves(h)
  BY <1>1, SameCall
<1>3. PICK child \in visiting :
          /\ IF Removing THEN RemoveOne(child) ELSE EvictOne(child)
          /\ visiting' = visiting \ {child}
          /\ visited' = Append(visited, child)
  BY DEF TakeChild
<1>4. child \in Scope /\ child \in Hash
  BY <1>1, <1>3, CallFacts DEF LoopOK
<1>5. /\ visited' \in Seq(Hash) /\ Hashes(visited)' = Hashes(visited) \cup {child}
      /\ Hashes(stack)' = Hashes(stack)
  <2>1. visited' \in Seq(Hash) /\ Hashes(visited') = Hashes(visited) \cup {child}
    BY <1>3, <1>4, HashesAppend DEF ChildrenInv
  <2>2. Hashes(visited)' = Hashes(visited')
    BY DEF Hashes
  <2>. QED  BY <1>1, <2>1, <2>2 DEF Hashes
<1>6. Seen' = Seen \cup {child} /\ Seen' \cup visiting' = Seen \cup visiting
  BY <1>1, <1>3, <1>5 DEF Seen
<1>7. /\ walked.blocks = Base.blocks \ Left /\ walked.proofs = Base.proofs \ Left
      /\ walked = Rest(Base, Left, unlinked)
  BY <1>1, CallFacts, RestFields DEF LoopOK
<1>8. /\ Left' = Left \cup {h \in {child} : Leaves(h)}
      /\ walked' = Rest(Base, Left', unlinked)
      /\ removed_blocks' \in Seq(Hash)
      /\ Removing => Hashes(removed_blocks)' = Hashes(removed_blocks) \cup {h \in {child} : Leaves(h)}
      /\ Removing => \/ removed_blocks' = removed_blocks
                     \/ Leaves(child) /\ child \notin Left /\ removed_blocks' = Append(removed_blocks, child)
  <2>1. Left' = Left \cup {h \in {child} : Leaves(h)}
    BY <1>2, <1>6 DEF Left
  <2>2. /\ Removing => (Removable(walked, child) <=> Leaves(child) /\ child \notin Left)
        /\ ~Removing => (child \in walked.blocks <=> Leaves(child) /\ child \notin Left)
    BY <1>7 DEF Removable, Leaves
  <2>3. CASE Leaves(child) /\ child \notin Left
    <3>1. walked' = Drop(walked, {child})
      BY <1>3, <2>2, <2>3 DEF RemoveOne, EvictOne, BufferRemoveBlock, BufferEvictBlock
    <3>2. walked' = Rest(Base, Left \cup {child}, unlinked)
      <4>1. Base \in Buffers
        BY <1>1, CallFacts
      <4>. QED  BY <1>7, <3>1, <4>1, RestDrop
    <3>3. /\ Removing => removed_blocks' = Append(removed_blocks, child)
          /\ ~Removing => removed_blocks' = removed_blocks
      BY <1>3, <2>2, <2>3 DEF RemoveOne, EvictOne
    <3>4. /\ removed_blocks' \in Seq(Hash)
          /\ Removing => Hashes(removed_blocks)' = Hashes(removed_blocks) \cup {child}
      <4>1. removed_blocks \in Seq(Hash)
        BY DEF ChildrenInv
      <4>2. Hashes(removed_blocks)' = Hashes(removed_blocks')
        BY DEF Hashes
      <4>3. Removing => Hashes(removed_blocks') = Hashes(removed_blocks) \cup {child}
        BY <1>4, <3>3, <4>1, HashesAppend
      <4>4. removed_blocks' \in Seq(Hash)
        BY <1>4, <3>3, <4>1, HashesAppend
      <4>. QED  BY <4>2, <4>3, <4>4
    <3>5. {h \in {child} : Leaves(h)} = {child}
      BY <2>3
    <3>. QED  BY <2>1, <2>3, <3>2, <3>3, <3>4, <3>5
  <2>4. CASE ~(Leaves(child) /\ child \notin Left)
    <3>1. walked' = walked /\ removed_blocks' = removed_blocks
      BY <1>3, <2>2, <2>4 DEF RemoveOne, EvictOne, BufferRemoveBlock, BufferEvictBlock
    <3>2. {h \in {child} : Leaves(h)} \subseteq Left
      BY <2>4
    <3>3. Left' = Left
      BY <2>1, <3>2
    <3>4. Hashes(removed_blocks)' = Hashes(removed_blocks) /\ removed_blocks' \in Seq(Hash)
      BY <3>1 DEF Hashes, ChildrenInv
    <3>5. Removing => Left \subseteq Hashes(removed_blocks)
      BY <1>1 DEF ReturnOK
    <3>. QED  BY <1>7, <2>1, <3>1, <3>2, <3>3, <3>4, <3>5
  <2>. QED  BY <2>3, <2>4
<1>9. LoopOK'
  <2>1. Roots \subseteq unlinked' \cup Hashes(stack)'
    BY <1>1, <1>5 DEF LoopOK
  <2>2. /\ Seen' \cup visiting' \subseteq Scope
        /\ \A p \in unlinked' : Base.parent_to_child[p] \subseteq Seen' \cup visiting'
    BY <1>1, <1>6 DEF LoopOK
  <2>. QED  BY <1>1, <1>2, <1>8, <2>1, <2>2 DEF LoopOK
<1>10. ReturnOK'
  <2>. SUFFICES ASSUME Removing PROVE ReturnOK'
    BY <1>1, <1>2, <1>3 DEF ReturnOK, EvictOne
  <2>1. /\ Hashes(removed_blocks) = Left \cup {h \in {argument} : Removable(before, h)}
        /\ \A x \in Seen \cup visiting : Ancestry[x] \cap Scope \subseteq unlinked \cup {x}
        /\ AncestorsComeFirst
    BY <1>1 DEF ReturnOK
  <2>2. UNCHANGED <<before, argument>>
    BY <1>1 DEF methodVars
  <2>3. Hashes(removed_blocks)' = Left' \cup {h \in {argument} : Removable(before, h)}
    BY <1>8, <2>1
  <2>4. \A x \in Seen' \cup visiting' : Ancestry[x] \cap Scope' \subseteq unlinked' \cup {x}
    BY <1>1, <1>2, <1>6, <2>1
  <2>5. \A i \in DOMAIN removed_blocks : removed_blocks[i] \in Seen
    <3>1. argument \in Seen
      BY <1>1 DEF LoopOK, Roots, Seen
    <3>2. Hashes(removed_blocks) \subseteq Seen
      BY <2>1, <3>1 DEF Left
    <3>. QED  BY <3>2 DEF Hashes
  <2>6. AncestorsComeFirst'
    <3>1. CASE removed_blocks' = removed_blocks
      BY <2>1, <3>1 DEF AncestorsComeFirst
    <3>2. CASE /\ Leaves(child) /\ child \notin Left
               /\ removed_blocks' = Append(removed_blocks, child)
      <4>. DEFINE t == Append(removed_blocks, child)
                  m == Len(removed_blocks)
      <4>1. /\ m \in Nat /\ DOMAIN removed_blocks = 1..m /\ DOMAIN t = 1..(m + 1)
            /\ \A i \in 1..m : t[i] = removed_blocks[i]
            /\ t[m + 1] = child
        BY <1>4 DEF ChildrenInv
      <4>. HIDE DEF t, m
      <4>2. child \notin Seen
        BY <3>2 DEF Left
      <4>3. ASSUME NEW i \in 1..(m + 1), NEW j \in 1..(m + 1), t[i] \in Ancestry[t[j]], ~(i <= j)
            PROVE  FALSE
        <5>1. i \in 1..(m + 1) /\ j \in 1..m /\ j < i
          BY <4>1, <4>3
        <5>2. CASE i = m + 1
          <6>1. t[i] = child /\ t[j] \in Seen
            BY <4>1, <5>1, <5>2, <2>5
          <6>2. child \in unlinked \cup {t[j]}
            BY <1>4, <2>1, <4>3, <6>1
          <6>3. unlinked \subseteq Seen
            BY DEF Seen
          <6>. QED  BY <4>2, <6>1, <6>2, <6>3
        <5>3. CASE i # m + 1
          <6>1. i \in 1..m
            BY <4>1, <5>1, <5>3
          <6>. QED  BY <2>1, <4>1, <4>3, <5>1, <6>1 DEF AncestorsComeFirst
        <5>. QED  BY <5>2, <5>3
      <4>4. \A i, j \in DOMAIN t : t[i] \in Ancestry[t[j]] => i <= j
        BY <4>1, <4>3
      <4>5. removed_blocks' = t
        BY <3>2 DEF t
      <4>. QED  BY <4>4, <4>5 DEF AncestorsComeFirst
    <3>. QED  BY <1>8, <3>1, <3>2
  <2>. QED  BY <1>2, <2>2, <2>3, <2>4, <2>6 DEF ReturnOK
<1>. QED  BY <1>1, <1>2, <1>5, <1>8, <1>9, <1>10 DEF ChildrenInv

LEMMA PushChildrenStep ==
    ASSUME ChildrenInv, PushChildren
    PROVE  ChildrenInv'
<1>1. /\ CallOK /\ LoopOK /\ ReturnOK /\ visiting = {}
      /\ phase' = "walk" /\ stack' = stack \o visited /\ visited' = <<>>
      /\ UNCHANGED <<methodVars, walked, visiting, unlinked, removed_blocks>>
  BY DEF ChildrenInv, PushChildren
<1>2. /\ CallOK' /\ Removing' = Removing /\ Base' = Base /\ Roots' = Roots /\ Scope' = Scope
      /\ \A h : Leaves(h)' = Leaves(h)
  BY <1>1, SameCall
<1>3. /\ stack' \in Seq(Hash) /\ Hashes(stack)' = Hashes(stack) \cup Hashes(visited)
      /\ visited' \in Seq(Hash) /\ Hashes(visited)' = {}
  BY <1>1, HashesConcat, NoHashes DEF ChildrenInv
<1>4. Seen' = Seen /\ Left' = Left
  BY <1>1, <1>2, <1>3 DEF Seen, Left
<1>5. LoopOK'
  BY <1>1, <1>2, <1>3, <1>4 DEF LoopOK
<1>6. ReturnOK'
  <2>1. UNCHANGED <<before, argument>>
    BY <1>1 DEF methodVars
  <2>. QED  BY <1>1, <1>2, <1>4, <2>1 DEF ReturnOK, AncestorsComeFirst, Hashes
<1>. QED  BY <1>1, <1>2, <1>3, <1>5, <1>6 DEF ChildrenInv

\* Nothing but the phase changes.
LEMMA ReturnStep ==
    ASSUME ChildrenInv, Return \/ UNCHANGED childrenVars
    PROVE  ChildrenInv'
<1>1. /\ UNCHANGED <<methodVars, walked, stack, visiting, visited, unlinked, removed_blocks>>
      /\ phase' = phase \/ (phase' = "done" /\ phase = "walk" /\ stack = <<>>)
  BY DEF Return, childrenVars
<1>2. UNCHANGED <<before, method, argument>>
  BY <1>1 DEF methodVars
<1>. QED  BY <1>1, <1>2 DEF ChildrenInv, CallOK, StartOK, LoopOK, ReturnOK, AncestorsComeFirst,
                            Removing, Evicting, Base, Roots, Scope, Left, Seen, Leaves, Hashes

LEMMA ChildrenInitInv == ChildrenInit => ChildrenInv
<1>. SUFFICES ASSUME ChildrenInit PROVE ChildrenInv
  OBVIOUS
<1>1. before \in Buffers /\ Indexed(before) /\ walked = before
  BY StartBuffersAssumption DEF ChildrenInit
<1>2. CallOK
  BY <1>1 DEF ChildrenInit, CallOK, Removing, Evicting
<1>3. Hashes(stack) = {} /\ stack = <<>> /\ <<>> \in Seq(Hash)
  BY NoHashes DEF ChildrenInit
<1>4. walked = Drop(before, Hashes(stack))
  BY <1>1, <1>3, DropNothing
<1>5. StartOK
  BY <1>3, <1>4 DEF ChildrenInit, StartOK
<1>. QED  BY <1>2, <1>3, <1>5 DEF ChildrenInit, ChildrenInv

LEMMA ChildrenInduction == ChildrenSpec => []ChildrenInv
<1>1. ASSUME ChildrenInv, [ChildrenNext]_childrenVars PROVE ChildrenInv'
  BY <1>1, RemoveRootStep, EvictOldStep, StartWalkStep, PopParentStep, TakeChildStep,
     PushChildrenStep, ReturnStep DEF ChildrenNext
<1>. QED  BY <1>1, ChildrenInitInv, PTL DEF ChildrenSpec

-----------------------------------------------------------------------------
\* At the end of remove_block_with_children.
LEMMA RemoveDone ==
    ASSUME ChildrenInv, phase = "done", Removing
    PROVE  /\ walked = BufferRemoveBlockWithChildren(before, argument)
           /\ Hashes(removed_blocks) = RemovedWithChildren(before, argument)
<1>. DEFINE below == Reached(before.parent_to_child, argument)
            taken == RemovedWithChildren(before, argument)
            first == {h \in {argument} : Removable(before, h)}
            rest == {h \in {argument} \cup below : Removable(Base, h)}
<1>1. /\ CallOK /\ LoopOK /\ ReturnOK /\ before \in Buffers /\ argument \in Hash
      /\ unlinked = Scope /\ Left = {h \in Scope : Leaves(h)}
  BY ChildrenWalkEnd DEF ChildrenInv, CallOK
<1>2. Roots = {argument}
  BY DEF Roots
<1>3. /\ Base = Drop(before, first)
      /\ Base.blocks = before.blocks \ first /\ Base.proofs = before.proofs \ first
      /\ \A p \in Hash \cup {Zero} :
            Base.parent_to_child[p] = before.parent_to_child[p] \ first
  <2>1. CASE Removable(before, argument)
    <3>1. first = {argument} /\ Base = Drop(before, first)
      BY <2>1 DEF Base, BufferRemoveBlock
    <3>. QED  BY <1>1, <3>1, DropFields
  <2>2. CASE ~Removable(before, argument)
    <3>1. \A x : x \notin first
      BY <2>2
    <3>2. Base = before
      BY <2>2 DEF Base, BufferRemoveBlock
    <3>3. Drop(before, first) = before
      BY <1>1, <3>1, DropNothing
    <3>. QED  BY <3>1, <3>2, <3>3
  <2>. QED  BY <2>1, <2>2
<1>4. Reached(Base.parent_to_child, argument) = below
  <2>1. \A h \in Hash : \A x \in LineAbove(h, Number[argument]) :
            x # argument /\ x \in Hash /\ Parent[x] \in Hash \cup {Zero}
    BY <1>1, AncestryClosed, BlocksAssumption DEF LineAbove
  <2>2. \A x : x # argument => x \notin first
    OBVIOUS
  <2>3. \A h \in Hash : \A x \in LineAbove(h, Number[argument]) :
            x \in Base.parent_to_child[Parent[x]] <=> x \in before.parent_to_child[Parent[x]]
    BY <1>3, <2>1, <2>2
  <2>. QED  BY <2>3 DEF Reached
<1>5. Scope = {argument} \cup below
  BY <1>2, <1>4 DEF Scope
<1>6. Left = rest /\ taken = first \cup rest
  <2>1. Left = rest
    BY <1>1, <1>5 DEF Leaves
  <2>2. \A h : Removable(Base, h) <=> Removable(before, h) /\ h \notin first
    BY <1>3 DEF Removable
  <2>. QED  BY <2>1, <2>2 DEF RemovedWithChildren
<1>7. walked = Unlink(Drop(Base, Left), Scope)
  BY <1>1 DEF LoopOK, Rest
<1>8. Drop(Base, Left) = Drop(before, taken)
  <2>1. Left = rest /\ taken = first \cup rest /\ Base = Drop(before, first)
    BY <1>3, <1>6
  <2>. HIDE DEF first, rest, taken
  <2>. QED  BY <1>1, <2>1, DropDrop
<1>9. walked = BufferRemoveBlockWithChildren(before, argument)
  BY <1>5, <1>7, <1>8 DEF BufferRemoveBlockWithChildren
<1>10. Hashes(removed_blocks) = taken
  BY <1>1, <1>6 DEF ReturnOK
<1>. QED  BY <1>9, <1>10

\* At the end of evict_old_blocks.
LEMMA EvictDone ==
    ASSUME ChildrenInv, phase = "done", Evicting
    PROVE  walked = BufferEvictOldBlocks(before, argument)
<1>. DEFINE old == OldBlocks(before, argument)
            below == UNION {Reached(Base.parent_to_child, p) : p \in old}
<1>1. /\ CallOK /\ LoopOK /\ before \in Buffers /\ EarliestExact(before) /\ ~Removing
      /\ unlinked = Scope /\ Left = {h \in Scope : Leaves(h)}
  BY ChildrenWalkEnd DEF ChildrenInv, CallOK, Indexed, Removing, Evicting
<1>2. UNION {before.earliest_blocks[m] : m \in {k \in Heights : k <= argument}} = old
  <2>1. \A h \in before.blocks : Number[h] \in Heights
    BY <1>1 DEF Buffers, Heights
  <2>. QED  BY <1>1, <2>1 DEF EarliestExact, OldBlocks
<1>3. Base = Drop(before, old) /\ Roots = old
  BY <1>1 DEF Base, Roots
<1>4. Scope = old \cup below
  BY <1>3 DEF Scope
<1>5. Left = below
  <2>1. \A h \in old : ~Leaves(h)
    BY <1>1, <1>3, CallFacts
  <2>2. ASSUME NEW h \in below PROVE Leaves(h)
    <3>1. PICK p \in old : h \in Reached(Base.parent_to_child, p)
      BY <2>2
    <3>2. h \in Hash /\ p \in Hash /\ p \in Ancestry[h] /\ h # p
      BY <1>1, <1>3, <3>1, CallFacts DEF Reached
    <3>3. Number[h] > Number[p]
      BY <3>2, AncestryNumber, BlocksAssumption
    <3>4. h \in LineAbove(h, Number[p])
      BY <3>2, <3>3, AncestryClosed DEF LineAbove
    <3>5. h \in Base.parent_to_child[Parent[h]]
      BY <3>1, <3>4 DEF Reached
    <3>. QED  BY <1>1, <3>2, <3>5, CallFacts, BlocksAssumption DEF LinksSound, Leaves
  <2>. QED  BY <1>1, <1>4, <2>1, <2>2
<1>6. walked = Unlink(Drop(Base, below), old \cup below)
  BY <1>1, <1>4, <1>5 DEF LoopOK, Rest
<1>. QED  BY <1>2, <1>3, <1>6 DEF BufferEvictOldBlocks

\* The loops of remove_children and evict_children take exactly what BlockBuffer
\* says (WalkTakesDescendants), on every buffer whose indexes agree, along every
\* order of the sets.
THEOREM WalkReachesDescendants == ChildrenSpec => []WalkTakesDescendants
<1>1. ChildrenInv => WalkTakesDescendants
  BY RemoveDone, EvictDone DEF WalkTakesDescendants
<1>. QED  BY <1>1, ChildrenInduction, PTL

\* remove_block_with_children returns a block after those of its ancestors that
\* it returns, as its comment promises (AncestorsComeFirst).
THEOREM AncestorsReturnedFirst == ChildrenSpec => []AncestorsComeFirst
<1>1. removed_blocks = <<>> => AncestorsComeFirst
  BY DEF AncestorsComeFirst
<1>2. ChildrenInv => removed_blocks = <<>> \/ AncestorsComeFirst
  BY DEF ChildrenInv, ReturnOK, StartOK
<1>. QED  BY <1>1, <1>2, ChildrenInduction, PTL
=============================================================================
