--------------------------- MODULE DownloadQueue ----------------------------
(***************************************************************************)
(* What the engine may rely on from its downloader: a requested hash is in *)
(* flight until its download completes, completed downloads are handed out *)
(* one by one, those of finalized blocks first and those of proofs last,   *)
(* and nothing else completes before all of them are taken.  A download    *)
(* that peers can deliver completes.                                       *)
(***************************************************************************)
CONSTANTS
    Hash,           \* the hashes that may be requested
    Deliverable     \* Deliverable[k]: the requests of kind k that peers can satisfy

VARIABLES
    inflight,       \* inflight[k]: requests of kind k that have not completed
    outcomes        \* outcomes[k]: completed downloads that have not been taken

queueVars == <<inflight, outcomes>>

Kind == {"finalized", "full", "proof"}
Empty == [k \in Kind |-> {}]

QueueInit == inflight = Empty /\ outcomes = Empty

\* The step of the engine that takes an outcome, or any other, may add requests.
MoreRequests(k) == {S \in SUBSET Hash : inflight[k] \subseteq S}
AddsRequests ==
    inflight' \in [ finalized : MoreRequests("finalized"), full : MoreRequests("full"),
                    proof : MoreRequests("proof") ]

Request ==
    /\ AddsRequests
    /\ UNCHANGED outcomes

\* The download of h completes, maybe together with others.
Completable(k) == SUBSET (inflight[k] \cap Deliverable[k])
Complete(k, h) ==
    /\ outcomes = Empty
    /\ h \in inflight[k] \cap Deliverable[k]
    /\ outcomes' \in [ finalized : Completable("finalized"), full : Completable("full"),
                       proof : Completable("proof") ]
    /\ h \in outcomes'[k]
    /\ inflight' = [j \in Kind |-> inflight[j] \ outcomes'[j]]

Take(k, h) ==
    /\ h \in outcomes[k]
    /\ k # "finalized" => outcomes["finalized"] = {}
    /\ k = "proof" => outcomes["full"] = {}
    /\ outcomes' = [outcomes EXCEPT ![k] = @ \ {h}]
    /\ AddsRequests

QueueNext ==
    \/ Request
    \/ \E k \in Kind, h \in Hash : Complete(k, h) \/ Take(k, h)

QueueSpec == QueueInit /\ [][QueueNext]_queueVars

\* Every download that can complete does, even if others complete again and
\* again, and completed ones are taken.
QueueFairSpec ==
    /\ QueueSpec
    /\ \A k \in Kind, h \in Hash : SF_queueVars(Complete(k, h)) /\ WF_queueVars(Take(k, h))
=============================================================================
