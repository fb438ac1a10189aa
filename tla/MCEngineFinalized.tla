------------------------- MODULE MCEngineFinalized --------------------------
(***************************************************************************)
(* Sync from a finalized block: the chain is longer than the window of     *)
(* ancestors, so a missing finalized block is downloaded without execution. *)
(***************************************************************************)
EXTENDS EngineProperties, TLC

CONSTANTS g, a1, a2, a3, a4, b3, zero, none

MCHash == {g, a1, a2, a3, a4, b3}
MCParent == (g :> zero @@ a1 :> g @@ a2 :> a1 @@ a3 :> a2 @@ a4 :> a3 @@ b3 :> a2)
MCNumber == (g :> 0 @@ a1 :> 1 @@ a2 :> 2 @@ a3 :> 3 @@ a4 :> 4 @@ b3 :> 3)
MCVerdicts == [h \in MCHash |-> {"Valid"}]

Fcu(head, safe, finalized, attributes) ==
    [head |-> head, safe |-> safe, finalized |-> finalized, attributes |-> attributes]

MCPayloads == {a3, a4}
MCUnrecoverable == {b3}
MCForkchoiceStates ==
    { Fcu(a3, a2, a2, "none"), Fcu(a4, a3, a3, "good"), Fcu(b3, a2, b3, "none") }
=============================================================================
