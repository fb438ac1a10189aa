-------------------------- MODULE MCEngineLiveness --------------------------
(***************************************************************************)
(* Progress: a chain g - a1 - a2 - a3 of valid blocks, under the fairness  *)
(* of FairSpec.                                                            *)
(***************************************************************************)
EXTENDS EngineProperties, TLC

CONSTANTS g, a1, a2, a3, zero, none

MCHash == {g, a1, a2, a3}
MCParent == (g :> zero @@ a1 :> g @@ a2 :> a1 @@ a3 :> a2)
MCNumber == (g :> 0 @@ a1 :> 1 @@ a2 :> 2 @@ a3 :> 3)
MCVerdicts == [h \in MCHash |-> {"Valid"}]

Fcu(head, safe, finalized, attributes) ==
    [head |-> head, safe |-> safe, finalized |-> finalized, attributes |-> attributes]

MCPayloads == {a1}
MCForkchoiceStates == {Fcu(a2, zero, zero, "none"), Fcu(a3, a2, zero, "none")}
=============================================================================
