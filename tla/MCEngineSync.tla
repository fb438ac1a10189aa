---------------------------- MODULE MCEngineSync ----------------------------
(***************************************************************************)
(* Live sync of a young chain (no finalized block can be downloaded): a    *)
(* chain g - a1 - a2 - a3 and a fork b2 of a2, all blocks valid, all       *)
(* proofs good.                                                            *)
(***************************************************************************)
EXTENDS EngineProperties, TLC

CONSTANTS g, a1, a2, a3, b2, zero, none

MCHash == {g, a1, a2, a3, b2}
MCParent == (g :> zero @@ a1 :> g @@ a2 :> a1 @@ a3 :> a2 @@ b2 :> a1)
MCNumber == (g :> 0 @@ a1 :> 1 @@ a2 :> 2 @@ a3 :> 3 @@ b2 :> 2)
MCVerdicts == [h \in MCHash |-> {"Valid"}]

Fcu(head, safe, finalized, attributes) ==
    [head |-> head, safe |-> safe, finalized |-> finalized, attributes |-> attributes]

MCPayloads == {a1, a3, b2}
MCForkchoiceStates ==
    { Fcu(a1, zero, zero, "none"), Fcu(a3, zero, zero, "none"), Fcu(a3, a2, a1, "good"),
      Fcu(b2, g, zero, "bad"), Fcu(g, zero, zero, "none") }
=============================================================================
