---------------------------- MODULE ChildrenWalk ----------------------------
(***************************************************************************)
(* The loops of remove_block_with_children and evict_old_blocks            *)
(* (crates/engine/src/tree/block_buffer.rs), remove_children and           *)
(* evict_children among them, one block at a time.  The hashes whose       *)
(* children are still to be looked for are a stack; a set of children      *)
(* comes in any order.  BlockBuffer takes each call as one step on sets of *)
(* blocks.                                                                 *)
(***************************************************************************)
EXTENDS BlockBuffer, Sequences

CONSTANT StartBuffers       \* the buffers the methods are called on

ASSUME StartBuffersAssumption == \A buf \in StartBuffers : buf \in Buffers /\ Indexed(buf)

VARIABLES
    before,         \* history: the buffer before the call
    method,         \* the method that is called
    argument,       \* its argument: a hash or a block number
    phase,          \* start, walk, children (the loop over one set of children) or done
    walked,         \* the buffer during the call
    stack,          \* remove_parent_children
    visiting,       \* children still to come in the loop over parent_children
    visited,        \* those that it has been through, in this order
    unlinked,       \* history: the parents whose children were looked for
    removed_blocks  \* the blocks to be returned, with their proofs

methodVars == <<before, method, argument>>

childrenVars ==
    <<methodVars, phase, walked, stack, visiting, visited, unlinked, removed_blocks>>

Hashes(s) == {s[i] : i \in DOMAIN s}

Removing == method = "remove_block_with_children"

Evicting == method = "evict_old_blocks"

ChildrenInit ==
    /\ before \in StartBuffers
    /\ \/ Removing /\ argument \in Hash
       \/ Evicting /\ argument \in Heights
    /\ phase = "start"
    /\ walked = before
    /\ stack = <<>>
    /\ visiting = {}
    /\ visited = <<>>
    /\ unlinked = {}
    /\ removed_blocks = <<>>

-----------------------------------------------------------------------------
\* evict_block.
BufferEvictBlock(buf, h) == IF h \in buf.blocks THEN Drop(buf, {h}) ELSE buf

\* Faulty variant: the block is put in front of those to be returned.
RemoveOneInFront(h) ==
    /\ walked' = BufferRemoveBlock(walked, h)
    /\ removed_blocks' = IF Removable(walked, h) THEN <<h>> \o removed_blocks ELSE removed_blocks

\* remove_block(h), whose result is pushed to the blocks to be returned.
RemoveOne(h) ==
    /\ walked' = BufferRemoveBlock(walked, h)
    /\ removed_blocks' = IF Removable(walked, h) THEN Append(removed_blocks, h) ELSE removed_blocks

EvictOne(h) ==
    /\ walked' = BufferEvictBlock(walked, h)
    /\ UNCHANGED removed_blocks

\* The block itself, before its children.
RemoveRoot ==
    /\ Removing
    /\ phase = "start"
    /\ RemoveOne(argument)
    /\ stack' = <<argument>>
    /\ phase' = "walk"
    /\ UNCHANGED <<methodVars, visiting, visited, unlinked>>

\* The first entry of earliest_blocks that is not above the argument.
FirstEntry ==
    {h \in Hash : \E n \in Heights :
        /\ n <= argument
        /\ h \in walked.earliest_blocks[n]
        /\ \A m \in Heights : m < n => walked.earliest_blocks[m] = {}}

\* The code takes all hashes out of earliest_blocks first and evicts them then.
EvictOld ==
    /\ Evicting
    /\ phase = "start"
    /\ \E h \in FirstEntry : EvictOne(h) /\ stack' = Append(stack, h)
    /\ UNCHANGED <<methodVars, phase, visiting, visited, unlinked>>

StartWalk ==
    /\ Evicting
    /\ phase = "start"
    /\ FirstEntry = {}
    /\ phase' = "walk"
    /\ UNCHANGED <<methodVars, walked, stack, visiting, visited, unlinked, removed_blocks>>

-----------------------------------------------------------------------------
(* remove_children and evict_children.                                     *)

\* remove_parent_children.pop() and parent_to_child.remove().
PopParent ==
    /\ phase = "walk"
    /\ stack # <<>>
    /\ LET parent == stack[Len(stack)]
       IN  /\ visiting' = walked.parent_to_child[parent]
           /\ walked' = Unlink(walked, {parent})
           /\ unlinked' = unlinked \cup {parent}
    /\ stack' = SubSeq(stack, 1, Len(stack) - 1)
    /\ phase' = "children"
    /\ UNCHANGED <<methodVars, visited, removed_blocks>>

\* Faulty variant: a child without a proof is not put on the stack, and so
\* its children are not looked for.
TakeReadyChild ==
    /\ phase = "children"
    /\ \E child \in visiting :
          /\ IF Removing THEN RemoveOne(child) ELSE EvictOne(child)
          /\ visiting' = visiting \ {child}
          /\ visited' = IF walked' # walked THEN Append(visited, child) ELSE visited
    /\ UNCHANGED <<methodVars, phase, stack, unlinked>>

TakeChild ==
    /\ phase = "children"
    /\ \E child \in visiting :
          /\ IF Removing THEN RemoveOne(child) ELSE EvictOne(child)
          /\ visiting' = visiting \ {child}
          /\ visited' = Append(visited, child)
    /\ UNCHANGED <<methodVars, phase, stack, unlinked>>

\* remove_parent_children.extend(parent_children).
PushChildren ==
    /\ phase = "children"
    /\ visiting = {}
    /\ stack' = stack \o visited
    /\ visited' = <<>>
    /\ phase' = "walk"
    /\ UNCHANGED <<methodVars, walked, visiting, unlinked, removed_blocks>>

Return ==
    /\ phase = "walk"
    /\ stack = <<>>
    /\ phase' = "done"
    /\ UNCHANGED <<methodVars, walked, stack, visiting, visited, unlinked, removed_blocks>>

ChildrenNext ==
    RemoveRoot \/ EvictOld \/ StartWalk \/ PopParent \/ TakeChild \/ PushChildren \/ Return

ChildrenSpec == ChildrenInit /\ [][ChildrenNext]_childrenVars

-----------------------------------------------------------------------------
\* Although remove_children and evict_children take links away while they follow
\* them, and go past blocks that stay, they reach every linked descendant, also
\* below a block whose proof is missing, and nothing else: the buffer and the
\* returned blocks are those BlockBuffer describes.
WalkTakesDescendants ==
    phase = "done" =>
        /\ Removing => /\ walked = BufferRemoveBlockWithChildren(before, argument)
                       /\ Hashes(removed_blocks) = RemovedWithChildren(before, argument)
        /\ Evicting => walked = BufferEvictOldBlocks(before, argument)

\* "The blocks with lower block number in the chain will come first so that they
\* can be executed in the correct order": no returned block is an ancestor of one
\* that remove_block_with_children returns before it, and none comes twice.
AncestorsComeFirst ==
    \A i, j \in DOMAIN removed_blocks :
        removed_blocks[i] \in Ancestry[removed_blocks[j]] => i <= j
=============================================================================
