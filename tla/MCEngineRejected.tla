-------------------------- MODULE MCEngineRejected --------------------------
(***************************************************************************)
(* Rejected blocks and faults: x2 fails verification and y2 the checks     *)
(* that need no parent; a faulty proof may fail the verification of a2;    *)
(* the senders of b2 cannot be recovered; a payload is malformed; a safe   *)
(* block is not on the chain of the head; and the buffer holds two blocks. *)
(***************************************************************************)
EXTENDS EngineProperties, TLC

CONSTANTS g, a1, a2, b2, x2, x3, y2, zero, none

MCHash == {g, a1, a2, b2, x2, x3, y2}
MCParent ==
    ( g :> zero @@ a1 :> g @@ a2 :> a1 @@ b2 :> a1 @@ x2 :> a1 @@ x3 :> x2
      @@ y2 :> a1 )
MCNumber ==
    (g :> 0 @@ a1 :> 1 @@ a2 :> 2 @@ b2 :> 2 @@ x2 :> 2 @@ x3 :> 3 @@ y2 :> 2)
MCVerdicts ==
    [h \in MCHash |-> CASE h = x2 -> {"Invalid"}
                        [] h = a2 -> VerifyResults
                        [] OTHER  -> {"Valid"}]

Fcu(head, safe, finalized, attributes) ==
    [head |-> head, safe |-> safe, finalized |-> finalized, attributes |-> attributes]

MCFailsConsensus == {y2}
MCUnrecoverable == {b2}
MCPayloads == {a2, x3, y2}
MCMalformedPayloads == {a2}
MCForkchoiceStates ==
    { Fcu(x3, zero, zero, "none"), Fcu(a2, b2, zero, "none"), Fcu(a2, g, g, "good"),
      Fcu(zero, zero, zero, "none") }
=============================================================================
