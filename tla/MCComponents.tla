---------------------------- MODULE MCComponents ----------------------------
(***************************************************************************)
(* The parts that run on their own, one in each behaviour.                 *)
(*                                                                         *)
(* buffer: any calls of BlockBuffer on a chain g - a1 - a2 - a3 and a fork *)
(* b2 of a2, with room for three of the five blocks.                       *)
(* children: one call of ChildrenWalk, on any buffer of blocks of two      *)
(* branches, any of them with proofs, some without their links.            *)
(* walk: NewHeadWalk for any new head, canonical head and stored blocks.   *)
(* loop: AdvanceLoop on all vectors of up to four requests.                *)
(* verify: calls of verify for blocks with right and wrong claims.         *)
(* root: calls of calculate_state_root alone, for updates that a block of  *)
(* one transaction does not make: accounts are destroyed and created anew, *)
(* and several slots of two accounts change.                               *)
(* proxy: Adapter with two connections on which payloads, forkchoice       *)
(* updates with attributes, requests for a payload and others are sent.    *)
(***************************************************************************)
EXTENDS ChildrenWalk, NewHeadWalk, AdvanceLoop, Verifier, Adapter, TLC

CONSTANTS g, a1, a2, a3, a4, b2, b3, c1, zero, none
CONSTANTS new_payload, forkchoice_updated, get_payload, eth_call

MCHash == {g, a1, a2, a3, a4, b2, b3, c1}
MCParent ==
    ( g :> zero @@ a1 :> g @@ a2 :> a1 @@ a3 :> a2 @@ a4 :> a3
      @@ b2 :> a1 @@ b3 :> b2 @@ c1 :> g )
MCNumber ==
    ( g :> 0 @@ a1 :> 1 @@ a2 :> 2 @@ a3 :> 3 @@ a4 :> 4
      @@ b2 :> 2 @@ b3 :> 3 @@ c1 :> 1 )
MCVerdicts == [h \in MCHash |-> {"Valid"}]

VARIABLE which      \* the part that runs

-----------------------------------------------------------------------------
(* BlockBuffer and ChildrenWalk.                                           *)

Fork == {g, a1, a2, a3, b2}

Tree == {a1, a2, a3, b2, b3}

\* A buffer with these blocks, the older ones used less recently, in which the
\* links to some are gone.
Filled(blocks, proofs, linked) ==
    [ blocks          |-> blocks,
      proofs          |-> proofs,
      parent_to_child |-> [p \in Hash \cup {Zero} |-> {h \in linked : Parent[h] = p}],
      earliest_blocks |-> [n \in Heights |-> {h \in blocks : Number[h] = n}],
      lru             |-> {pair \in blocks \X blocks :
                              \/ Number[pair[1]] < Number[pair[2]]
                              \/ pair[1] = pair[2]
                              \/ pair \in {<<a2, b2>>, <<a3, b3>>}} ]

\* a1 may have a proof and no block; the links to a2 and b3 may be gone.
MCBuffers ==
    UNION {{Filled(blocks, proofs, blocks \ gone) :
               proofs \in SUBSET (blocks \cup {a1}), gone \in SUBSET (blocks \cap {a2, b3})} :
              blocks \in SUBSET Tree}

\* The call a behaviour that is not about it starts with, and stays at.
NoCall == before = EmptyBuffer /\ method = "remove_block_with_children" /\ argument = g

StartChildren ==
    /\ which = "children" \/ NoCall
    /\ ChildrenInit
    /\ Removing => argument \in Tree \cup {g}

RunBuffer ==
    /\ which = "buffer"
    /\ BufferNext
    /\ block_buffer'.blocks \subseteq Fork
    /\ block_buffer'.proofs \subseteq Fork \ {g}

RunChildren == which = "children" /\ ChildrenNext

-----------------------------------------------------------------------------
(* NewHeadWalk and AdvanceLoop.                                            *)

Only(stored) == chain_state = [EmptyChain EXCEPT !.blocks_by_hash = stored]

\* The head is stored; finalization may have removed blocks below it.
StartWalking ==
    /\ BufferInit
    /\ sync_target = None
    /\ invalid_headers = [h \in Hash |-> None]
    /\ \/ /\ which = "walk"
          /\ \E stored \in SUBSET Hash : Only(stored)
          /\ canonical_head \in chain_state.blocks_by_hash
          /\ \E h \in Hash : OnNewHead(h)
       \/ which # "walk" /\ Only({Genesis}) /\ canonical_head = Genesis /\ OnNewHead(Genesis)

RunWalk == which = "walk" /\ Walk

MCVectors == {s \in UNION {[1..n -> Request] : n \in 0..4} : Distinct(s)}

StartLoop == (which = "loop" \/ original = <<>>) /\ LoopInit

RunLoop == which = "loop" /\ LoopNext

-----------------------------------------------------------------------------
(* Verifier.                                                               *)

Storage(x, y) == (1 :> x @@ 2 :> y)
Account(info, x, y) == [info |-> info, storage |-> Storage(x, y)]

Worlds == {1 :> a @@ 2 :> b : a \in {Account(1, 2, 0), Account(1, 0, 0), Account(0, 0, 0)},
                              b \in {Account(0, 0, 0), Account(2, 1, 0)}}

\* The states a block may claim: nothing changed, or any value written.
Claims(world, tx) ==
    {world} \cup {PostState(world, [Output(world, tx).state EXCEPT !.storages[tx.to].storage[Slot] = v]) :
                    v \in Values}

NoWitness == [accounts |-> {}, slots |-> [a \in Addresses |-> Absent], siblings |-> TRUE]

StartVerify ==
    /\ pre \in Worlds
    /\ \E tx \in Transactions :
          block \in [rules : BOOLEAN, transaction : {tx}, receipts : Values, post : Claims(pre, tx)]
    /\ ~block.rules => block.receipts = 0 /\ block.post = pre
    /\ proof \in [malformed : BOOLEAN, bytecodes : BOOLEAN]
    /\ witness \in
          IF proof.malformed THEN {NoWitness}
          ELSE [accounts : SUBSET Addresses, slots : [Addresses -> {Absent, Slots}], siblings : BOOLEAN]
    /\ VerifyStart

RunVerify == which = "verify" /\ Next

First == {EmptyAccount, Account(1, 0, 0), Account(1, 1, 0), Account(1, 1, 2)}
Second == {EmptyAccount, Account(1, 2, 0)}

\* Slots are cleared, written for the first time and changed.
Changes == {<<>>, 1 :> 0, 1 :> 2 @@ 2 :> 1}
StorageUpdates == [wiped : BOOLEAN, storage : Changes]
OtherUpdates == {[wiped |-> w, storage |-> 2 :> 1] : w \in BOOLEAN} \cup {[wiped |-> FALSE, storage |-> <<>>]}

NoChange == [accounts |-> 1 :> 0, storages |-> <<>>]

\* The changed accounts with what they hold, and the changed storages.
Updates ==
    {NoChange} \cup {[accounts |-> 1 :> i, storages |-> <<>>] : i \in 1..2}
    \cup {[accounts |-> 1 :> i @@ 2 :> j, storages |-> 1 :> u @@ 2 :> v] :
             i \in {0, 2}, j \in {0, 1}, u \in StorageUpdates, v \in OtherUpdates}

SomeWitnesses ==
    [ accounts : SUBSET Addresses,
      slots    : {1 :> x @@ 2 :> y : x \in {Absent, {1}, {1, 2}}, y \in {Absent, {1, 2}}},
      siblings : BOOLEAN ]

UnusedBlock ==
    [ rules |-> TRUE, transaction |-> [from |-> 1, to |-> 2, block_hash |-> "unused"],
      receipts |-> 0, post |-> [a \in Addresses |-> EmptyAccount] ]

StartRoot ==
    /\ \/ /\ which = "root"
          /\ pre \in {1 :> a @@ 2 :> b : a \in First, b \in Second}
          /\ witness \in SomeWitnesses
          /\ state \in Updates
       \/ /\ which # "root"
          /\ pre = [a \in Addresses |-> EmptyAccount]
          /\ witness = NoWitness
          /\ state = NoChange
    /\ RootStart
    /\ block = UnusedBlock
    /\ proof = [malformed |-> FALSE, bytecodes |-> TRUE]
    /\ stage = "call"
    /\ verdict = Absent

RunRoot ==
    /\ which = "root"
    /\ CalculateStateRoot
    /\ UNCHANGED <<block, proof, stage, verdict>>

-----------------------------------------------------------------------------
(* Adapter.                                                                *)

MCMethod ==
    ( new_payload :> "engine" @@ forkchoice_updated :> "engine"
      @@ get_payload :> "engine_get" @@ eth_call :> "other" )

RunProxy == which = "proxy" /\ ProxyNext

-----------------------------------------------------------------------------
verifierVars == vars

otherTreeVars == <<chain_state, canonical_head, sync_target, invalid_headers, walkVars>>

componentVars ==
    <<block_buffer, childrenVars, otherTreeVars, loopVars, verifierVars, proxyVars, which>>

Init ==
    /\ which \in {"buffer", "children", "walk", "loop", "verify", "root", "proxy"}
    /\ StartChildren
    /\ StartWalking
    /\ StartLoop
    /\ IF which = "verify" THEN StartVerify ELSE StartRoot
    /\ ProxyInit

Steps ==
    /\ UNCHANGED which
    /\ \/ RunBuffer /\ UNCHANGED <<childrenVars, otherTreeVars, loopVars, verifierVars, proxyVars>>
       \/ RunChildren /\ UNCHANGED <<block_buffer, otherTreeVars, loopVars, verifierVars, proxyVars>>
       \/ RunWalk /\ UNCHANGED <<childrenVars, loopVars, verifierVars, proxyVars>>
       \/ RunLoop /\ UNCHANGED <<block_buffer, childrenVars, otherTreeVars, verifierVars, proxyVars>>
       \/ /\ RunVerify \/ RunRoot
          /\ UNCHANGED <<block_buffer, childrenVars, otherTreeVars, loopVars, proxyVars>>
       \/ RunProxy /\ UNCHANGED <<block_buffer, childrenVars, otherTreeVars, loopVars, verifierVars>>

Spec == Init /\ [][Steps]_componentVars
=============================================================================
