---------------------------- MODULE NewHeadWalk -----------------------------
(***************************************************************************)
(* on_new_head (crates/engine/src/tree/mod.rs) loop by loop: walk back     *)
(* from the new head to the height of the canonical head, walk back from   *)
(* the canonical head to the height of the new one, then walk both back    *)
(* until they meet.  EngineTree takes the result as two sets of blocks.    *)
(***************************************************************************)
EXTENDS EngineTree, SequencesExt

VARIABLES
    new_head,                   \* the argument
    loop,                       \* new, old, both, or the result: commit, reorg or none
    current_number,
    current_hash,
    current_canonical_number,
    old_hash,
    new_chain,
    old_chain

walkVars == <<new_head, loop, current_number, current_hash, current_canonical_number, old_hash,
              new_chain, old_chain>>

Stored(h) == h \in chain_state.blocks_by_hash

\* parent_num_hash: the number below genesis is 0.
Below(n) == IF n = 0 THEN 0 ELSE n - 1

\* The call.  The loops leave all state alone.
OnNewHead(h) ==
    /\ new_head = h
    /\ loop = IF Stored(h) THEN "new" ELSE "none"
    /\ current_canonical_number = Number[canonical_head]
    /\ current_number = Below(Number[h])
    /\ current_hash = Parent[h]
    /\ new_chain = <<h>>
    /\ old_hash = canonical_head
    /\ old_chain = <<>>

-----------------------------------------------------------------------------
StepNew ==
    /\ Stored(current_hash)
    /\ new_chain' = Append(new_chain, current_hash)
    /\ current_hash' = Parent[current_hash]

StepOld ==
    /\ Stored(old_hash)
    /\ old_chain' = Append(old_chain, old_hash)
    /\ old_hash' = Parent[old_hash]

GiveUp == loop' = "none" /\ UNCHANGED <<current_hash, old_hash, new_chain, old_chain>>

WalkNew ==
    /\ loop = "new"
    /\ current_number > current_canonical_number
    /\ \/ /\ StepNew
          /\ current_number' = current_number - 1
          /\ UNCHANGED <<loop, old_hash, old_chain>>
       \/ /\ ~Stored(current_hash)
          /\ GiveUp
          /\ UNCHANGED current_number
    /\ UNCHANGED <<treeVars, new_head, current_canonical_number>>

\* At the height of the canonical head: it is reached, or there is a fork.
ReachHeight ==
    /\ loop = "new"
    /\ current_number <= current_canonical_number
    /\ IF current_hash = canonical_head
       THEN loop' = "commit" /\ new_chain' = Reverse(new_chain)
       ELSE loop' = "old" /\ UNCHANGED new_chain
    /\ UNCHANGED <<treeVars, new_head, current_number, current_hash, current_canonical_number,
                   old_hash, old_chain>>

\* Faulty variant: the canonical chain is walked one block too far.
WalkOldTooFar ==
    /\ loop = "old"
    /\ \/ /\ current_canonical_number >= current_number
          /\ StepOld
          /\ current_canonical_number' = Below(current_canonical_number)
          /\ loop' = IF current_canonical_number > current_number THEN "old" ELSE "both"
       \/ /\ ~Stored(old_hash)
          /\ loop' = "none"
          /\ UNCHANGED <<current_canonical_number, old_hash, old_chain>>
    /\ UNCHANGED <<treeVars, new_head, current_number, current_hash, new_chain>>

WalkOld ==
    /\ loop = "old"
    /\ \/ /\ current_canonical_number > current_number
          /\ StepOld
          /\ current_canonical_number' = current_canonical_number - 1
          /\ UNCHANGED loop
       \/ /\ current_canonical_number > current_number
          /\ ~Stored(old_hash)
          /\ loop' = "none"
          /\ UNCHANGED <<current_canonical_number, old_hash, old_chain>>
       \/ /\ current_canonical_number <= current_number
          /\ loop' = "both"
          /\ UNCHANGED <<current_canonical_number, old_hash, old_chain>>
    /\ UNCHANGED <<treeVars, new_head, current_number, current_hash, new_chain>>

WalkBoth ==
    /\ loop = "both"
    /\ old_hash # current_hash
    /\ \/ /\ StepOld
          /\ StepNew
          /\ UNCHANGED loop
       \/ /\ ~Stored(old_hash) \/ ~Stored(current_hash)
          /\ GiveUp
    /\ UNCHANGED <<treeVars, new_head, current_number, current_canonical_number>>

Meet ==
    /\ loop = "both"
    /\ old_hash = current_hash
    /\ loop' = "reorg"
    /\ new_chain' = Reverse(new_chain)
    /\ old_chain' = Reverse(old_chain)
    /\ UNCHANGED <<treeVars, new_head, current_number, current_hash, current_canonical_number, old_hash>>

Walk == WalkNew \/ ReachHeight \/ WalkOld \/ WalkBoth \/ Meet

\* The call in any state of the tree.
WalkSpec ==
    /\ chain_state \in Chains /\ canonical_head \in Hash
    /\ \E h \in Hash : OnNewHead(h)
    /\ [][Walk]_<<treeVars, walkVars>>

-----------------------------------------------------------------------------
\* The assertion between the loops: both walks are at the same height.
SameHeight == loop = "both" => current_number = current_canonical_number

\* A chain of blocks in rising order.
Rising(chain) == \A i \in 1..(Len(chain) - 1) : Parent[chain[i + 1]] = chain[i]

\* The loops find a result exactly when EngineTree says so, and it consists of
\* the blocks of the new and of the old branch, in rising order: a commit when
\* the new head extends the canonical chain, and a reorganisation otherwise.
\* The assertion of the code holds on the way.
WalkFindsBranches ==
    /\ SameHeight
    /\ loop \in {"commit", "reorg"} =>
          /\ HasNewHead(chain_state, canonical_head, new_head)
          /\ ToSet(new_chain) = NewBranch(canonical_head, new_head) /\ Rising(new_chain)
          /\ ToSet(old_chain) = OldBranch(canonical_head, new_head) /\ Rising(old_chain)
          /\ loop = "commit" <=> OldBranch(canonical_head, new_head) = {}
    /\ loop = "none" => ~HasNewHead(chain_state, canonical_head, new_head)
=============================================================================
