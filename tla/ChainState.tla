----------------------------- MODULE ChainState -----------------------------
(***************************************************************************)
(* The in-memory chain (crates/provider/src/chain_state.rs, provider.rs):  *)
(* the validated blocks of all forks with their proofs, and the hashes     *)
(* that form the canonical chain, by number.                               *)
(*                                                                         *)
(* The chain is a record; a map keyed by number is a function on Heights   *)
(* that is None (one hash) or {} (a set of hashes) where the map has no    *)
(* entry.                                                                  *)
(***************************************************************************)
EXTENDS Blocks

CONSTANT AncestorWindow     \* 256: canonical hashes kept below the finalized block

ASSUME AncestorWindowAssumption == AncestorWindow \in Nat

VARIABLE chain_state

Chains ==
    [ canonical_hashes_by_number : [Heights -> Hash \cup {None}],
      blocks_by_hash             : SUBSET Hash,
      block_hashes_by_number     : [Heights -> SUBSET Hash],
      proofs                     : SUBSET Hash ]

EmptyChain ==
    [ canonical_hashes_by_number |-> [n \in Heights |-> None],
      blocks_by_hash             |-> {},
      block_hashes_by_number     |-> [n \in Heights |-> {}],
      proofs                     |-> {} ]

-----------------------------------------------------------------------------
(* Queries.                                                                *)

IsHashCanonical(chain, h) == \E n \in Heights : chain.canonical_hashes_by_number[n] = h

\* The validated blocks that the walk of block_hash from p visits.
ExecutedLine(chain, p) ==
    {a \in Ancestry[p] : LineAbove(p, Number[a]) \cup {a} \subseteq chain.blocks_by_hash}

\* The block at which that walk leaves the validated blocks ({} when it
\* leaves them below genesis).
WalkEnd(chain, p) ==
    {a \in Ancestry[p] \ chain.blocks_by_hash : LineAbove(p, Number[a]) \subseteq chain.blocks_by_hash}

\* The answers of block_hash(parent, number): at most one hash.
BlockHash(chain, p, n) ==
    LET executed  == {a \in ExecutedLine(chain, p) : Number[a] = n}
        canonical == {chain.canonical_hashes_by_number[n] : a \in
                        {x \in WalkEnd(chain, p) :
                            /\ n <= Number[x]
                            /\ chain.canonical_hashes_by_number[Number[x]] = x}}
    IN  IF executed # {} THEN executed ELSE canonical \ {None}

-----------------------------------------------------------------------------
(* Updates.                                                                *)

ChainInsertBlock(chain, h, has_proof) ==
    [ chain EXCEPT
        !.block_hashes_by_number[Number[h]] = @ \cup {h},
        !.blocks_by_hash = @ \cup {h},
        !.proofs = IF has_proof THEN @ \cup {h} ELSE @ ]

\* remove_canonical_hash for every block of old, when it matches, and then
\* insert_canonical_hash for every block of new (one per number).
OnChainUpdate(chain, new, old) ==
    LET canonical == chain.canonical_hashes_by_number
    IN  [ chain EXCEPT !.canonical_hashes_by_number =
            [ n \in Heights |->
                IF \E x \in new : Number[x] = n THEN CHOOSE x \in new : Number[x] = n
                ELSE IF canonical[n] \in old THEN None
                ELSE canonical[n] ] ]

InsertCanonicalHashes(chain, new) == OnChainUpdate(chain, new, {})

\* Faulty variant: canonical hashes below the finalized block are not kept.
RemoveBlocksAndWindow(chain, f) ==
    IF f \notin chain.blocks_by_hash THEN chain ELSE
    LET old == UNION {chain.block_hashes_by_number[n] : n \in {m \in Heights : m < Number[f]}}
    IN  [ canonical_hashes_by_number |->
              [n \in Heights |-> IF n < Number[f]
                                 THEN None ELSE chain.canonical_hashes_by_number[n]],
          blocks_by_hash |-> chain.blocks_by_hash \ old,
          block_hashes_by_number |->
              [n \in Heights |-> IF n < Number[f] THEN {} ELSE chain.block_hashes_by_number[n]],
          proofs |-> chain.proofs \ old ]

\* on_finalized: nothing happens unless the finalized block is validated.
\* finalized_number.saturating_sub(256) is the lowest number that is kept.
RemoveBlocksOnFinalized(chain, f) ==
    IF f \notin chain.blocks_by_hash THEN chain ELSE
    LET old == UNION {chain.block_hashes_by_number[n] : n \in {m \in Heights : m < Number[f]}}
    IN  [ canonical_hashes_by_number |->
              [n \in Heights |-> IF n + AncestorWindow < Number[f]
                                 THEN None ELSE chain.canonical_hashes_by_number[n]],
          blocks_by_hash |-> chain.blocks_by_hash \ old,
          block_hashes_by_number |->
              [n \in Heights |-> IF n < Number[f] THEN {} ELSE chain.block_hashes_by_number[n]],
          proofs |-> chain.proofs \ old ]

\* What launch stores before the engine starts.
GenesisChain == InsertCanonicalHashes(ChainInsertBlock(EmptyChain, Genesis, FALSE), {Genesis})

ChainInit == chain_state = GenesisChain
=============================================================================
