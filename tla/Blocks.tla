------------------------------- MODULE Blocks -------------------------------
(***************************************************************************)
(* The universe of blocks the other modules work on.  A block is known by  *)
(* its hash; the hash fixes the header (parent hash, number) and the body. *)
(***************************************************************************)
EXTENDS Naturals

CONSTANTS
    Hash,       \* hashes of all blocks that exist
    Genesis,    \* hash of the genesis block
    Zero,       \* B256::ZERO: "not specified" in a forkchoice state
    None,       \* Option::None
    Parent,     \* Parent[h]: parent_hash in the header of block h
    Number      \* Number[h]: number in the header of block h

ASSUME BlocksAssumption ==
    /\ Genesis \in Hash
    /\ Zero \notin Hash
    /\ None \notin Hash
    /\ None # Zero
    /\ Parent \in [Hash -> Hash \cup {Zero}]
    /\ Number \in [Hash -> Nat]
    /\ Parent[Genesis] = Zero
    /\ Number[Genesis] = 0
    /\ \A h \in Hash \ {Genesis} :
          /\ Parent[h] \in Hash
          /\ Number[h] = Number[Parent[h]] + 1

\* The block numbers in use: the keys of the maps indexed by number.
Heights == {Number[h] : h \in Hash}

ParentClosed(S) == \A x \in S : Parent[x] \in Hash => Parent[x] \in S

\* Ancestry[h]: h and every block that a walk along parent hashes from h
\* visits, that is, the least parent-closed set that contains h.
Ancestry ==
    [h \in Hash |->
        {a \in Hash : \A S \in SUBSET Hash : h \in S /\ ParentClosed(S) => a \in S}]

\* The blocks a walk from h down to (and not including) number n visits.
LineAbove(h, n) == {x \in Ancestry[h] : Number[x] > n}
=============================================================================
