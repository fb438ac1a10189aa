# TLA+ verification of zk-ress

zk-ress is a stateless Ethereum execution client. A consensus client sends it
payloads and forkchoice updates over the engine API; it downloads headers,
bodies and execution proofs from peers, verifies blocks in memory, and keeps a
short in-memory chain. This directory models the node from the engine API down
to the connections to peers, checks it with TLC on small instances, and proves
the central invariants and refinements with TLAPS for every block tree, every
client and every behaviour of peers.

## 1. Inventory

| Component (source) | State | Operations | Interaction | What makes it correct |
|---|---|---|---|---|
| Block buffer (`crates/engine/src/tree/block_buffer.rs`) | `blocks`, `proofs`, `parent_to_child`, `earliest_blocks`, `lru` | insert block/proof, remove block (with children), evict old blocks, lowest ancestor | owned by the tree; the engine also calls it directly | indexes agree with the blocks; the limit holds; what leaves takes its proof along; connecting finds every ready descendant |
| Chain state, provider (`crates/provider`) | canonical hashes by number, validated blocks, hashes by number, proofs | insert block, update canonical hashes, prune on finalization, `block_hash` | written by the engine task, read by execution and by the protocol handler that serves peers | canonical hashes are one chain up to the head; pruning keeps the head and the BLOCKHASH window |
| Engine tree (`crates/engine/src/tree/mod.rs`) | canonical head, forkchoice tracker, invalid headers, buffer, provider | `on_new_payload`, `on_downloaded_block`, `on_forkchoice_updated`, `try_connect_buffered_blocks`, `make_canonical` | called by the engine; returns events (download, make canonical) | no invalid block is admitted; answers are right; reorganisations are exact |
| Consensus engine (`crates/engine/src/engine.rs`) | parked payload, tree, downloader, message stream | `poll`, `on_download_outcome`, `on_engine_message` | one task; outcomes before the parked payload before messages | every parked payload is answered; a block is inserted as soon as block, proof and parent are there; sync completes; the client sees what the engine API promises |
| Downloader (`crates/engine/src/download`) | three vectors of futures, a queue of outcomes | request block / proof / finalized block, `poll` | futures send requests to the network and retry; the engine polls | only what was asked for is delivered; no future sleeps without a request; every deliverable download completes |
| Network manager and handle (`crates/network`) | rotation of connections, pending requests, two channels, wakers | `fetch_*`, `poll`, `on_peer_request` | its own task; channels from the handle, from the subprotocol and to connections | a request is in one place; an open connection stays in the rotation; the task is woken for whatever it can do |
| Verifier, root (`crates/verifier`), EVM database (`crates/evm`) | a sparse trie per call; storage tries moved to threads and back | `verify`, `calculate_state_root`, `basic`, `storage`, `code_by_hash`, `block_hash` | called by `insert_block`; a pool of threads for storage tries | the root is right as far as the witness goes; a complete witness gives the right verdict |
| Engine API adapter (`bin/adapter`) | none between requests | `forward_request` | proxies two servers to reth and ress | ress sees what reth saw, in the same order; the payload id is the one of reth |
| RPC network adapter (`crates/testing/src/rpc_adapter.rs`) | none between requests | headers, bodies, proof | one task per request with concurrent lookups at an RPC node | answers have the form the futures accept; every request is answered |
| Launcher, CLI, RPC (`bin/zk-ress`), `bin/reth` | wiring | stores genesis, spawns tasks | - | - |

What is hard: blocks, proofs and ancestors arrive in any order over three
queues; a finalized block is downloaded over a long time and applied to a head
that has moved; a payload waits for its proof against a timer; buffered blocks
are connected in a loop one of whose steps may fail; the buffer evicts at a
limit; the cache of invalid blocks forgets; peers answer wrongly, partly or not
at all and close under a request; tasks and futures sleep until a waker is
called. `PROJECT.json` lists these hazards with the source line where each one
bites and the properties that cover it.

## 2. Modules

| Module | Models |
|---|---|
| `Blocks` | The block tree: `Hash`, `Parent`, `Number`; `Ancestry[h]` is the set of blocks a walk along parent hashes visits. |
| `BlockBuffer` | `BlockBuffer`: each method as an operator on a buffer record, the buffer on its own as a specification (`BufferSpec`), and its properties. |
| `ChildrenWalk` | The loops of `remove_block_with_children` and `evict_old_blocks`, block by block, against the sets that `BlockBuffer` uses. |
| `ChainState` | `ChainState` and `ZkRessProvider` as operators on a chain record. |
| `EngineTree` | The variables of the tree and the decisions of its handlers (result of `insert_block`, missing ancestor, invalid ancestors, the branches of a new head). |
| `NewHeadWalk` | The three loops of `on_new_head`, step by step, against the sets that `EngineTree` uses. |
| `ConsensusEngine` | The engine task: one action per handler outcome, the loop over buffered blocks one step per block, downloader queues, parked payload. `Spec`, and `FairSpec` with fairness. |
| `EngineApi` | Abstract: what the client may rely on. Validated blocks, head, sync target and answers; no buffer, downloads, proofs or parking. |
| `EngineProperties` | Everything that is claimed about `ConsensusEngine`, the refinements of `EngineApi` and `DownloadQueue` included. |
| `DownloadQueue` | Abstract: what the engine may rely on from its downloader. |
| `Downloader`, `HeaderRange` | `EngineDownloader` with the futures behind its requests, polled part by part, and the check of a range of headers. |
| `AdvanceLoop` | The loops of `EngineDownloader::poll` over a vector that `swap_remove` and `push` change. |
| `FullBlockRange` | `FetchFullBlockRangeFuture`, which nothing in the repository uses yet. |
| `PeerRequests` | Abstract: what the futures may rely on from the network layer. |
| `NetworkManager` | `RessNetworkHandle` and `RessNetworkManager` with channels and wakers, connections as an external party. |
| `RpcAdapter` | `RpcNetworkAdapter`, the substitute for the network manager. |
| `StateRoot`, `Verifier` | `calculate_state_root`; `verify` with the witness database. |
| `Adapter` | `forward_request` on the two servers of the engine API adapter. |
| `BlocksProofs`, `BlockBufferProofs`, `EngineProofs`, `EngineApiProofs`, `DownloaderProofs`, `NetworkManagerProofs`, `VerifierProofs`, `AdapterProofs` | Theorems and proofs (section 4). |
| `MC*` | Instances for TLC. `MCComponents`, `MCDownloader` and `MCRequests` hold several specifications, of which each behaviour runs one. |

How the modules fit together:

    consensus client
          |            EngineApi      <=  ConsensusEngine
    ConsensusEngine
          |            DownloadQueue  <=  Downloader, and used as such by ConsensusEngine
    Downloader
          |            PeerRequests   <=  NetworkManager, RpcAdapter
    connections

`A <= B` reads: B implements A, checked as a refinement (`INSTANCE ... WITH`);
the safety part of each is proved as well.

Correspondence with the code:

- A block is its hash. Bodies, headers beyond parent and number, proofs'
  contents and timestamps are left out. What `validate_block` says of a block
  is the constant `FailsConsensus`; what `BlockVerifier::verify` may say is the
  constant `Verdicts` (several values when a proof may be faulty or the
  provider may fail). A header or a body on its own is named by the hash of the
  block it belongs to.
- A walk along parent hashes in the code (`lowest_ancestor`, `remove_children`,
  `on_new_head`, `block_hash`) is a set of ancestors in the model, which is the
  same because the tree has no cycles. For `on_new_head` and `remove_children`
  the literal loops are modelled too (`NewHeadWalk`, `ChildrenWalk`); the run
  `components` shows that they end with the sets, and `NewHeadWalkExact` and
  `WalkReachesDescendants` prove it. `LatestValidHash`, which jumps through the
  invalid-header cache, is a recursive function; that the recursion ends is part
  of the proof of `LatestValidHashStaysSound`.
- A handler runs without interleaving (one task, `&mut self`), so it is one
  step. `try_connect_buffered_blocks` is split: `caller` names the handler that
  runs the loop, `connecting` the blocks taken out and not inserted yet. No
  other action is enabled meanwhile. The loop order is any order that puts
  parents before children, which includes the depth-first order of the code.
  The loop has no step for `AlreadySeen`: no block it inserts is validated
  (`ReadyBlocksNotStored`, checked and proved).
- `response` is the answer sent in the step that led to the state.
- `inflight` and `outcomes` are sets per kind. `EngineDownloader::poll` refills
  the queue only when it is empty, in the order finalized, full, proof; within
  a kind any order is allowed, since peers may answer in any. `Deliverable`
  says which requests a peer can satisfy: a finalized block needs
  `AncestorWindow` headers below it, genesis has no proof, nobody has the zero
  hash.
- `ForgetInvalidHeader` stands for both ways in which the (external) cache drops
  an entry. `TrackForkchoice` is the (external) forkchoice tracker.
- `Persistent` says whether the client may repeat an update it has sent; the
  number of messages is bounded by `MaxMessages` otherwise.
- `Downloader`: a request of a future is new, waiting for a peer, or answered.
  Requests are only sent, and their wakers registered, when the future is
  polled; a request made anew inside a poll must be polled again in the same
  poll, as the loops of the code do. A poll of the engine polls every future
  once (`AdvanceLoop` shows that the loop does).
- `FullBlockRange`: the loop over the bodies of an answer takes one step per
  body, as each is compared with the header at its own position; a new request
  is made when the loop is over.
- `NetworkManager`: a poll of the task is several steps, one for each turn of
  its loop, so that channels may change in between. `requests_waker` and
  `events_waker` are the wakers registered with the channels, `woken` that the
  runtime will poll. `on_peer_request` is one step: it only reads the
  connections. A closed connection drops the requests it holds.
- `StateRoot`: a root is the contents it commits to (no collisions). The
  external sparse trie is modelled by what it reveals: an update of a path that
  the witness does not reveal fails, and so does the removal of a leaf whose
  sibling is missing. Threads finish in any order.
- `Verifier`: the external EVM runs blocks of one transaction that reads one slot
  and writes another. What a block claims about receipts and the post-state
  may be right or wrong. A lookup in the witness database finds a value, finds
  nothing or fails, as in the code.
- `RpcAdapter`: lookups of a task run at the same time; the chain of the node may
  change between any two of them and any of them may fail.
- `Adapter`: a request is at the adapter, at reth or at ress. A node that
  cannot be reached, or answers something that is not JSON, ends the task of
  the connection (the code unwraps).
- 256, the limit of the buffer and the window of ancestors, are the constants
  `BufferLimit` and `AncestorWindow`.
- Definitions commented "Faulty variant" are wrong versions of the definition
  that follows them. They are used to see that each property can fail.

## 3. Runs

| Run | Instance | Checks |
|---|---|---|
| `sync` | `g`-`a1`-`a2`-`a3` with a fork `b2`; three messages out of payloads `a1`, `a3`, `b2` and five forkchoice updates | `CanonicalSound`, `NoStrandedBlock`, `PiecesPending`, `SyncTargetBecomesHead`, `ImplementsEngineApi` |
| `rejected` | `x2` invalid with a child `x3`, `y2` fails the consensus checks, `a2` may get any verdict or be malformed, `b2` cannot be recovered; an update with an inconsistent safe block, one with a zero head; a buffer of two blocks; a cache that forgets | `NoInvalidBlockAdmitted`, `InvalidHeadersSound`, `LatestValidHashSound`, `NoStrandedBlock`, `ImplementsEngineApi` |
| `finalized` | `g` to `a4` with a fork `b3`, a window of two ancestors | `BlockHashExact`, `ReadyBlocksNotStored`, `FollowsDownloadQueue`, `ImplementsEngineApi` |
| `liveness` | `g`-`a1`-`a2`-`a3`, `FairSpec`, any number of messages: payload `a1`, updates to `a2` and to `a3` with safe block `a2` | `SyncCompletes`, `ParkedPayloadAnswered`, `RepeatedUpdatesComplete` |
| `downloads` | the downloader: one request of each kind for `a3`, a window of two, a stray block `b2`; or the future for a range of three full blocks, with wrong bodies in front of, between and behind right ones; fair | `OutcomesAuthentic`, `RangeInOrder`, `ImplementsFairDownloadQueue`, `RangeDownloaded` |
| `requests` | the network manager: two fetches, three connections of which two are active at once, one peer refused; or the RPC adapter: pairs of requests for headers, bodies and a proof; fair | `RequestsConserved`, `OpenConnectionsKept`, `NoLostWakeup`, `AnswersUsable`, `ImplementsPeerRequests`, `SubstitutesNetworkManager` |
| `components` | the buffer: any sequence of calls for five blocks with a fork, limit 3; its loops over descendants: any buffer of five blocks, with and without proofs and links | `BufferIndexed`, `BufferBounded`, `EvictsRightBlocks`, `DroppedBlocksLoseProofs`, `WalkTakesDescendants`, `AncestorsComeFirst` |
| | the walk to a new head: every pair of heads and set of stored blocks of a tree of eight; the polling loop: vectors of up to four requests | `WalkFindsBranches`, `EachPolledOnce`, `NoRequestLost` |
| | the verifier: two accounts with two slots, right and wrong claims, witnesses that leave things out; direct calls of `calculate_state_root` as well | `StateRootExact`, `CompleteWitnessSound`, `CompleteProofDecides` |
| | the engine API adapter: two connections, three requests | `RessFollowsReth` |
| `zero_hash` | as `rejected` | `ZeroHashMeansPow`, violated |
| `finalized_late` | as `finalized` | `CanonicalSound`, violated |
| `range_shifted` | as `downloads` | `RangeConnected`, violated |
| `network_lost_wakeup` | the network manager of `requests` | `ConnectedRequestsEnd`, violated |
| `payload_id_lost` | as `components` | `RethPayloadIdReturned`, violated |

What they show, beyond the comments at the properties:

- The client of the engine sees an engine that validates blocks whose parent is
  validated, moves its head only to validated blocks, and answers `VALID`,
  `INVALID` and `SYNCING` in agreement with it (`ImplementsEngineApi`). The
  fact that the head is always a validated block is part of that refinement.
- Whatever is buffered is being completed: a proof or an ancestor that is
  missing has been requested (`PiecesPending`), and no block stays buffered
  when block, proof and parent are there (`NoStrandedBlock`). Together with the
  guarantees of `DownloadQueue` this is why sync completes.
- The engine uses its downloader as `DownloadQueue` says
  (`FollowsDownloadQueue`), the downloader implements `DownloadQueue` with
  fairness from peers that answer honestly now and then
  (`ImplementsFairDownloadQueue`), and both the network manager and the RPC
  adapter implement `PeerRequests`, the interface the futures use.

Bounds. The trees have the shapes that the code tells apart: a chain with a
block, its parent and its grandparent missing, a fork at a height that the
canonical chain occupies, a finalized block with a window below it and blocks
above it. Three messages are enough for a payload, an update that makes it
canonical, and an update that takes it back, with downloads in between in every
order; more repeat the same pieces (in `liveness` there is no bound). Limits of
the buffer are one below the number of blocks a run can have in it, so that
eviction happens. Three connections with two active ones give the rotation a
connection that closes while another request uses the next one. Deadlock is not
checked: the clients of the runs stop sending and loops end.

Fairness, and what justifies it:

- The engine (`FairSpec` of `ConsensusEngine`): weak fairness of its own steps
  and of the timer of a parked payload, since the runtime polls the task when
  an outcome, a message or the timer is ready. Deliverable downloads have
  strong fairness, because a request that fails is sent again; the `downloads`
  run shows that the futures provide it.
- The downloader and the range future: weak fairness of polls, strong fairness
  of honest answers (a peer that has the data answers at some time if it is asked
  again and again).
- The network manager: weak fairness of polls that its wakers cause; an active
  connection answers or closes.
- Nothing is assumed of the consensus client. That it repeats its update is the
  hypothesis `ClientPersists` of `RepeatedUpdatesComplete`. `SyncCompletes` is
  about updates without a safe block: one with a safe block that is not
  canonical yet only starts a download (`tree/mod.rs:262`) and is completed by a
  repetition.
- `ImplementsPeerRequests` claims the liveness part of `PeerRequests` only while
  no peer has been refused; `network_lost_wakeup` shows why.

Some properties hold under restrictions only. `CanonicalSound` and
`NoStrandedBlock` are not claimed in `finalized`, for the reasons given next.
In `finalized` no block of a fork is stored, since a late finalized block would
break `BlockHashExact` there as well; forks are left to its theorem.
`PiecesPending` and `SyncTargetBecomesHead` are
checked while no finalized block can be downloaded (the window of headers is
longer than the chain); section 4 states under what restrictions they are proved.

### Disagreements between the code and what it says

Five are kept as runs that must find a violation:

- `network_lost_wakeup`: `manager.rs:76` matches only `Established` events. Any
  other event is consumed, the channel is not polled again, and no waker is
  registered. The task sleeps through the next connection.
- `finalized_late`: `on_finalized_block` sets the head to a finalized block that
  was requested long ago, and the canonical hashes above it stay.
- `zero_hash`: the answer for a known invalid block carries a zero latest valid
  hash when no valid ancestor can be determined (`tree/mod.rs:773`), where the
  comment asks for null and keeps zero for proof-of-work blocks (`:809`-`812`).
  `LatestValidHashSound` says when the code answers zero: on proof of work, or
  where the walk ends because nothing is known below a rejected ancestor.
- `range_shifted`: a wrong body that comes before a right one in the same answer
  is skipped together with its header (`futs.rs:487`), and the bodies behind it
  are paired with the headers before theirs. `RangeInOrder` says what is left: a
  chain of headers from the requested block, and bodies of lower blocks of it.
- `payload_id_lost`: the engine API adapter answers with the response of ress
  (`bin/adapter/src/main.rs:85`-`105`), where its README speaks of the one of reth
  (`bin/adapter/README.md:5`). If ress answers with an error the payload id of
  reth is lost.

Seen while modelling, with no run of their own:

- A finalized block is stored without connecting its buffered children
  (`engine.rs:128`); an update to such a child then asks for a block that is
  there, again and again (`tree/mod.rs:246`-`270`).
- A block that is known is requested again (`tree/mod.rs:673`, `:879`).
- Pruning removes the part of a fork below the finalized block, after which an
  update to the fork is answered `VALID` and the head stays
  (`chain_state.rs:151`, `:30`).
- `remove_children` unlinks a child that has no proof yet and leaves it in the
  buffer (`block_buffer.rs:216`, `:282`).
- A finalized block with fewer than 256 ancestors is never delivered
  (`futs.rs:238`).
- A witness that lacks an account makes the database answer "no account"
  (`db.rs:44`), so a block with an incomplete witness can look invalid.
- A fatal error while a buffered descendant of a block is connected ends the
  handler before `make_canonical`: the block is stored, the client is told of an
  error, and the sync target is not the head (`tree/mod.rs:517`,
  `:578`).
- An update with a safe or finalized block off the chain of its new head is
  answered with an invalid state but keeps the new head, and the sync target of
  an earlier update stays (`tree/mod.rs:201`).
- A payload that is not well formed takes the buffered proof of the hash it
  claims out of the buffer, so the block with that hash, still buffered, has to
  wait for a proof that nobody requests until it is sent anew (`engine.rs:201`).
- The RPC adapter asks for the witness by number (`rpc_adapter.rs:147`), so a
  reorganisation in between gives the proof of another block.

## 4. Proofs

TLAPS proves the following for all constants that satisfy the named assumptions
(`BlocksAssumption`: parents exist and numbers rise by one;
`BufferLimitAssumption`, `AncestorWindowAssumption`, `VerifierAssumption`,
`MessagesAssumption`, `TrustedBlocksAssumption`, `NoneAssumption`,
`DownloaderAssumption`, `HeadersAssumption`, `VectorsAssumption`,
`RangeAssumption`, `NetworkAssumption`, `StateAssumption`, `SlotAssumption`,
`VerdictAssumption`, `ProxyAssumption`, `AdapterAssumption`,
`StartBuffersAssumption`, `AbsentAssumption`). TLC evaluates each
of them in a run. Block trees are not
assumed finite.

The block tree, `BlocksProofs`. `Ancestry` is the least parent-closed set, is
transitive and linear in the block number, ends at genesis and has a block of
every number in between. A set of numbers below a bound is finite, so a walk
has a highest block with a given property; this replaces the induction over
data that the provers lack.

The buffer, `BlockBufferProofs`.

- `BufferTypeCorrect`, `BufferStaysIndexed`, `BufferStaysBounded`. The inductive
  invariant is `SoundBuffer`: the type, `Indexed` and the bound together. The
  bound is not inductive alone, because the code counts the keys of the recency
  list; it needs that the keys are exactly the blocks and that the order is
  total, so that a full list has an oldest entry to drop.
- `DroppedBlocksHaveNoProofs` and `EvictionTakesRightBlocks` are the two action
  properties, each shown call by call from `SoundBuffer`.
- `WalkReachesDescendants` and `AncestorsReturnedFirst`, of the loops over
  descendants. `ChildrenInv` relates the buffer during the call to the one at its
  start: it lacks the blocks that were found and leave and the links below the
  parents that were looked at (`Rest`), and the children of these have been found.
  When the stack is empty, what was found is therefore closed under links, and
  `Reached` is the least such set. The loop takes links away while it follows
  them, so it must not come back to a parent whose links are gone before its
  children are known; that a block has one parent makes this impossible. For the
  order, the ancestors of whatever is still to come have been looked at already.
  `StartBuffersAssumption` says that the buffer of the call is one whose indexes
  agree, which `BufferStaysIndexed` proves of every buffer there is.

The engine, `EngineProofs`.

- `EngineBufferIndexed` and `EngineBufferBounded` carry the buffer's invariant
  over to the engine, each of whose actions changes the buffer only through the
  operators. `EngineTypeCorrect` needs it too: the hash to download is the
  parent of a `CHOOSE`n lowest ancestor, which exists only in a sound buffer.
- `InvalidBlocksNeverAdmitted` and `InvalidHeadersStaySound`. The invariant
  `ValidityInv` conjoins type, buffer soundness, the two properties and
  `FinalizedTrusted`: blocks requested or delivered as finalized are untainted.
  It rests on `TrustedBlocksAssumption`, the trust the code places in the
  consensus client.
- `ReadyBlocksNeverStored`. The invariant `ReadyInv` adds that the blocks of the
  loop have left the buffer (otherwise inserting one would leave a validated
  copy behind) and that there are none while no handler runs the loop.
- `NoBlockStranded`. The invariant `StrandInv` says that every ready block is
  linked to its parent, so that the loop will find it, and that its parent is
  neither validated nor in the loop. The hypothesis `FinalizedBeforeChildren`
  excludes the one handler that stores a block without connecting its children,
  `on_downloaded_finalized_block`, in the one case where it matters: a ready
  child is there before the finalized block. Without it the property is false
  (payload `a3` and its proof, then an update whose finalized block `a2` is
  downloaded); in `sync` and `rejected` no finalized block can be downloaded.

- `LatestValidHashStaysSound`. The walk through the cache is a recursive
  function, which the prover only unfolds once it is known to have a value:
  `WalkExists` gives a solution of its equation, by a least counterexample in the
  block number (an entry leads to the parent of an ancestor, so the walk falls).
  `WalkSound` then follows, also by a least counterexample, that the walk stops
  at an ancestor and passes only descendants of rejected blocks, and that where
  it finds no stored block nothing is known below the last rejected one. It needs
  nothing but `ValidityInv`: what the cache has forgotten makes the answer less
  precise, and the zero hash is answered in the two cases of the property only.
- `PiecesStayPending`. The invariant `PendingInv` speaks of blocks and proofs
  wherever they are (validated, buffered, in the loop, requested, delivered): of
  each block that is somewhere the proof is somewhere, and of each block that has
  both the parent is. Its hypotheses are the ways in which the code does forget
  what it needs. `BufferHasRoom`: an eviction takes a block with its proof while
  its descendants stay. `NothingPruned`: a validated block, and its proof, may be
  dropped while its full block is under way once more. `FaultFree`: a malformed
  payload takes away a buffered proof, a good block rejected for a faulty proof,
  or one without recoverable senders, is not asked for again, and a fatal error
  drops the rest of the loop. Finalized blocks may be downloaded at any time.

The engine API, `EngineApiProofs`.

- `EngineImplementsApi`: every step of the engine is a step of `EngineApi` or
  leaves what the client sees alone. `ApiInv` collects what the simulation
  needs: `ValidityInv`, `ReadyInv`, that the two indexes of the chain state
  agree, that the head and the block whose children are being connected are
  stored, that a finalized block is either requested or delivered, and that the
  block of a parked payload is not validated behind its back.
  `HeadNeverForgotten` is the part about the head on its own.
- The hypothesis is `ConsistentClient`: an update names a finalized block on the
  chain of its head, as the protocol demands; the code does not check it. With
  an update that breaks this rule (head on one fork, finalized block on another,
  after a late finalized download) pruning removes the head itself.
- `EngineFollowsDownloadQueue`, without a hypothesis.

The canonical chain, in the second part of `EngineApiProofs`.

- `CanonicalHashesStaySound` and `BlockHashStaysExact`. The invariant
  `CanonicalInv` says that the canonical hashes are the chain of the head from
  some number on (`ChainOf`), and that for each stored block the window of
  hashes below it is kept, as blocks or as canonical hashes (`WindowKept`).
- The hypothesis is `FinalizedInTime`: a finalized block arrives while the head
  is below it on its chain, by no more than the window of headers that comes
  along. `finalized_late` shows `CanonicalSound` violated by a block that is too
  late; one too far above the head leaves a gap in the hashes.

- `StoredTargetIsHead`: a validated sync target is the head once the handler
  that stored it has ended (`SyncTargetBecomesHead`). `TargetInv` adds to
  `ApiInv` that the stored blocks have no gaps (`NoGaps`: between a stored block
  and a stored ancestor all are stored, which pruning by number keeps) and that a
  stored target is the head or belongs to the running handler. `on_new_head` then
  finds it as soon as one stored block is on both chains, which is the hypothesis
  `TargetAttached`; without pruning genesis is such a block. `TargetUndisturbed`
  names the three steps by which the engine leaves a stored target: a finalized
  block that arrives late takes the head, or leaves a gap; a fatal error ends the
  handler before `make_canonical`; an update that turns out inconsistent moves
  the head and keeps the target.
- `NewHeadWalkExact`: the loops of `on_new_head` compute the sets that
  `EngineTree` uses, for every tree. `WalkInv` says what each walk has collected
  (the blocks from its start down to the current one), that the walks are
  apart until they meet, and how their heights compare in each loop. A walk
  from genesis is a case of its own.

The downloader, `DownloaderProofs`.

- `OutcomesStayAuthentic`. The invariant `DownloaderInv` says what a future has
  brought so far: no header but the one asked for, no body that does not fit
  once the header is there, and no request for ancestors before the block is
  right. `FallingRange` shows that a range of headers that falls by parent
  hashes is part of the walk from its first header and no longer than it; this
  gives both that the headers are ancestors and that a finalized block with
  fewer ancestors than the window never completes.
- `DownloaderImplementsQueue`: the safety part of `ImplementsFairDownloadQueue`.
- `EachPolledOnceHolds`, `NoRequestLostHolds`, of the loops over the futures. The
  invariant `LoopInv` says that the positions up to the index hold the requests
  they held at the start, not polled yet, and that all above it have been polled.
  This is what makes `swap_remove` safe in a loop that runs downwards: the
  request it moves into the hole comes from above.
- `RangeStaysInOrder`: `RangeInv` says that each body received is one of a header
  at its own position or further down (`BodiesInOrder`), which holds because the
  loop accepts at most one body for each that it looks at (`LoopBounds`). Nothing
  is assumed of the peers. That the bodies fit their headers exactly is false, as
  `range_shifted` shows.

The network, `NetworkManagerProofs`.

- `NetworkTypeCorrect`, `RequestsStayConserved`, for any number of calls and
  connections.
- `OpenConnectionsStayKept`. `ConnectionsInv` adds that a connection is announced
  once and not before it is made.
- `NoWakeupLost`. `WakeInv` relates each waker to its channel at every point of
  the poll: a registered waker means an empty channel, and a task that has
  looked at its connections has nothing left to forward.
- `ManagerImplementsPeerRequests`: the safety part of `ImplementsPeerRequests`.

The verifier, `VerifierProofs`.

- `StateRootStaysExact`: any number of accounts and slots, any state, update and
  witness, any order in which the threads finish. `RootInv` says where each
  storage trie is (untouched, sent, or put back, and then updated from the
  revealed one), that an account is as before until it is written and right
  afterwards if the witness covers it, and that a covered update does not fail.
  `FatesExact` shows that the slot-by-slot update gives the storage of the
  reference. The one demand on an update, `StateUpdate`, is that a storage
  changes together with its account, which execution guarantees.
- `CompleteWitnessDecidesRight` and `CompleteProofAlwaysDecides`. `VerifyInv` goes
  along the stages of `verify`; in the last one it contains `RootInv` and that, with
  a complete witness, the update and the receipts are the ones of the full
  state (`DatabaseExact`). Blocks have one transaction, as in the model.

The adapters, `AdapterProofs`.

- `RessStaysBehindReth`. What a node received is its
  log of calls, of which the property selects those of one connection; the
  selection (`Entries`) is a recursive function on sequences that is shown to
  exist and to follow `Append` by a least counterexample in the length. `ProxyInv`
  says per connection that ress is behind reth by the request the task is passing
  on and no more, also after the task has died (`OneBehind`).
- `AnswersStayUsable`. `RpcInv` says that a request is in the channel or has a
  task (`QueuedOnce`), and that as long as the chain has not moved each lookup
  that ended found its block of that chain (`ResultsClean`). A header range of
  such results falls by parent hashes (`AcceptHeaders`), so the future accepts it.
- `RpcImplementsPeerRequests`: the safety part of `SubstitutesNetworkManager`.

Only model-checked, and why:

- Liveness: `SyncCompletes`, `ParkedPayloadAnswered`, `RepeatedUpdatesComplete`,
  `RangeDownloaded`, and the fairness parts of the three refinements
  `ImplementsFairDownloadQueue`, `ImplementsPeerRequests` and
  `SubstitutesNetworkManager`. Temporal reasoning under fairness, and the
  `ENABLED` in it, are beyond the prover.
- Everything else the passing runs check is proved as well, under the
  hypotheses named above where a theorem has them.

## 5. Not modelled

- The launcher, the command line and the RPC server (`bin/zk-ress`): wiring and
  I/O, except that genesis is stored before the engine starts, which is `Init`.
- The stateful reth node (`bin/reth`), the subprotocol, the EVM, the sparse
  trie, the consensus rules, the cache of invalid headers and the forkchoice
  tracker are external; they appear by what the code uses of them.
- Metrics, logging, and events for subscribers: no influence on the state.
- HTTP and JSON; the adapters are modelled at the level of requests.
- Payload attributes beyond the checks that `on_forkchoice_updated` makes: the
  node builds no payloads.

## 6. Plan

Done: all components of section 1 that keep state; the abstract specifications
and refinements of section 2; liveness; the theorems of section 4.

Left:

1. The walk of `block_hash` as a literal loop beside `NewHeadWalk` and
   `ChildrenWalk`.
2. `Downloader` composed with `PeerRequests` in place of its own peers.
3. `PiecesPending` with evictions and pruning: a weaker property that names what
   has to be asked for again, since the property itself is false there.
