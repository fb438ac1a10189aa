----------------------------- MODULE EngineApi -----------------------------
(***************************************************************************)
(* What the consensus client can rely on: the engine API as the node       *)
(* promises it, without buffer, downloads, proofs and parked payloads.     *)
(* ConsensusEngine implements it (EngineProperties, ImplementsEngineApi).  *)
(***************************************************************************)
EXTENDS Blocks

CONSTANTS
    ForkchoiceStates,   \* the forkchoice updates of the client
    Acceptable,         \* blocks whose verification may succeed
    Rejectable,         \* blocks whose verification may fail
    Failing,            \* blocks whose verification may end with an error
    MalformedPayloads,  \* hashes sent with a payload that is not well formed
    Unrecoverable       \* blocks that cannot be used when they are downloaded

VARIABLES
    validated,          \* the blocks that are known to be valid
    head,               \* the head of the canonical chain
    target,             \* the head the node is syncing to, or None
    finalizing,         \* finalized blocks it will start from when they arrive
    response            \* the answer given in this step, or None

apiVars == <<validated, head, target, finalizing, response>>

Answered(to, h, status) == response' = [to |-> to, hash |-> h, status |-> status]

\* A block may be refused when it, or one of its ancestors, is rejected.
Refusable(h) == h # Zero /\ Ancestry[h] \cap Rejectable # {}

Finalized(h) == \E fcu \in ForkchoiceStates : fcu.finalized = h

\* The blocks between the head and h are all known, so that the chain can be
\* switched from one to the other.
Reachable(h) ==
    (Ancestry[h] \ Ancestry[head]) \cup (Ancestry[head] \ Ancestry[h]) \subseteq validated

ApiInit ==
    /\ validated = {Genesis}
    /\ head = Genesis
    /\ target = None
    /\ finalizing = {}
    /\ response = None

-----------------------------------------------------------------------------
\* Something happens that the client cannot see.
Silent == response' = None /\ UNCHANGED <<validated, head, target, finalizing>>

\* One block is validated, on top of a validated one, and may be the target.
Import(h) ==
    /\ h \in Acceptable \ validated
    /\ Parent[h] \in validated
    /\ validated' = validated \cup {h}
    /\ head' = head \/ (target = h /\ head' = h)
    /\ response' = None
    /\ UNCHANGED <<target, finalizing>>

\* A validated target becomes the head.
ReachTarget ==
    /\ target \in validated
    /\ Reachable(target)
    /\ head' = target
    /\ response' = None \/ Answered("payload", target, "VALID")
    /\ UNCHANGED <<validated, target, finalizing>>

\* A payload is answered.  That of a finalized block may be answered after the
\* block has come the other way, without its proof.
AnswerPayload(h) ==
    /\ \/ h \in validated /\ Answered("payload", h, "VALID")
       \/ (h \notin validated \/ Finalized(h)) /\ Answered("payload", h, "SYNCING")
       \/ (h \in MalformedPayloads \/ Refusable(h)) /\ Answered("payload", h, "INVALID")
       \/ Failing # {} /\ Answered("payload", h, "ERROR")
    /\ UNCHANGED <<validated, head, target, finalizing>>

\* The node starts from a finalized block, whatever its head was.
StartFrom(f) ==
    /\ f \in finalizing \ Unrecoverable
    /\ finalizing' = finalizing \ {f}
    /\ validated' = validated \cup {f}
    /\ head' = f
    /\ \/ response' = None
       \/ Answered("payload", f, "VALID")
       \/ Refusable(f) /\ Answered("payload", f, "INVALID")
    /\ UNCHANGED target

\* It cannot: the node stops.
Stop(f) ==
    /\ f \in finalizing \cap Unrecoverable
    /\ finalizing' = finalizing \ {f}
    /\ response' = None
    /\ UNCHANGED <<validated, head, target>>

-----------------------------------------------------------------------------
(* Forkchoice updates.                                                     *)

\* An update that changes nothing.
Refuse(fcu) ==
    /\ \/ Refusable(fcu.head) /\ Answered("forkchoice", fcu.head, "INVALID")
       \/ fcu.head \in {Zero, head} /\ Answered("forkchoice", fcu.head, "INVALID_STATE")
    /\ UNCHANGED <<validated, head, target, finalizing>>

\* The head is validated and reachable: it is the head now, and the status
\* says whether the rest of the update could be followed.  Blocks are only
\* forgotten below a finalized block of the chain of the head.
Apply(fcu) ==
    /\ fcu.head \in validated
    /\ Reachable(fcu.head)
    /\ head' = fcu.head
    /\ \/ /\ \/ Answered("forkchoice", fcu.head, "VALID")
             \/ fcu.attributes = "bad" /\ Answered("forkchoice", fcu.head, "INVALID_ATTRIBUTES")
          /\ \/ validated' = validated
             \/ /\ fcu.finalized \in Ancestry[fcu.head]
                /\ validated' = {h \in validated : Number[h] >= Number[fcu.finalized]}
          /\ target' = None
       \/ /\ Answered("forkchoice", fcu.head, "INVALID_STATE")
          /\ UNCHANGED <<validated, target>>
    /\ UNCHANGED finalizing

\* The head is validated and the chain cannot be switched to it.
Skip(fcu) ==
    /\ fcu.head \in validated
    /\ fcu.head = Genesis \/ ~Reachable(fcu.head)
    /\ Answered("forkchoice", fcu.head, "VALID")
    /\ target' = None
    /\ UNCHANGED <<validated, head, finalizing>>

\* The head is not validated: the node syncs to it.
Sync(fcu) ==
    /\ fcu.head \notin validated \cup {Zero}
    /\ Answered("forkchoice", fcu.head, "SYNCING")
    /\ target' = fcu.head
    /\ finalizing' \in {finalizing, finalizing \cup {fcu.finalized}}
    /\ UNCHANGED <<validated, head>>

ApiNext ==
    \/ Silent
    \/ ReachTarget
    \/ \E h \in Hash : Import(h) \/ AnswerPayload(h) \/ StartFrom(h) \/ Stop(h)
    \/ \E fcu \in ForkchoiceStates : Refuse(fcu) \/ Apply(fcu) \/ Skip(fcu) \/ Sync(fcu)

ApiSpec == ApiInit /\ [][ApiNext]_apiVars
=============================================================================
