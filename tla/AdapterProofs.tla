--------------------------- MODULE AdapterProofs ----------------------------
(***************************************************************************)
(* The two adapters, for any number of connections, requests and blocks.   *)
(* The proxy passes the engine requests of reth on to ress in their order. *)
(* The RPC adapter sends answers that the downloader can use, and          *)
(* implements PeerRequests as the network manager does.                    *)
(***************************************************************************)
EXTENDS RpcAdapter, Adapter, BlocksProofs

-----------------------------------------------------------------------------
(* The entries of a log.  Their definition is recursive: it is shown to    *)
(* have one solution, which gives the two equations that are used.         *)

\* A set of numbers has a least one.
LEMMA LeastNumber ==
    ASSUME NEW S \in SUBSET Nat, S # {}
    PROVE  \E n \in S : \A m \in S : n <= m
<1>1. PICK k \in S : TRUE
  OBVIOUS
<1> DEFINE N == 0..k
           T == {0..n : n \in S \cap N}
<1>2. IsFiniteSet(N) /\ IsWellFoundedOn(StrictSubsetOrdering(N), FiniteSubsetsOf(N))
  BY FS_Interval, FS_StrictSubsetOrderingWellFounded
<1>3. \A n \in S \cap N : 0..n \in SUBSET N /\ IsFiniteSet(0..n)
  BY FS_Interval
<1>4. T \subseteq FiniteSubsetsOf(N) /\ T # {}
  BY <1>3 DEF FiniteSubsetsOf
<1> HIDE DEF T
<1>5. PICK t \in T : \A u \in T : ~(<<u, t>> \in StrictSubsetOrdering(N))
  BY <1>2, <1>4, WFMin
<1>6. PICK n \in S \cap N : t = 0..n
  BY <1>5 DEF T
<1>7. ASSUME NEW m \in S, m < n PROVE FALSE
  <2>1. m \in S \cap N /\ 0..m \subseteq 0..n /\ n \in 0..n /\ n \notin 0..m
    BY <1>7
  <2>2. <<0..m, 0..n>> \in StrictSubsetOrdering(N)
    BY <1>3, <2>1 DEF StrictSubsetOrdering
  <2>3. 0..m \in T
    BY <2>1 DEF T
  <2>. QED  BY <1>5, <1>6, <2>2, <2>3
<1>. QED  BY <1>7

\* The entries up to position n, from those up to the position before.
Next(before, log, n, S) == IF log[n] \in S THEN Append(before, log[n]) ELSE before

\* f holds the entries of log up to each position.
UpTo(f, log, S) ==
    f = [n \in 0..Len(log) |-> IF n = 0 THEN <<>> ELSE Next(f[n - 1], log, n, S)]

LEMMA UpToExists ==
    ASSUME NEW T, NEW log \in Seq(T), NEW S
    PROVE  \E f \in [0..Len(log) -> Seq(T)] : UpTo(f, log, S)
<1> DEFINE N == Len(log)
           Solves(f, k) == f[0] = <<>> /\ \A n \in 1..k : f[n] = Next(f[n - 1], log, n, S)
           Stuck == {k \in 0..N : ~\E f \in [0..k -> Seq(T)] : Solves(f, k)}
<1>1. Stuck = {}
  <2>1. SUFFICES ASSUME Stuck # {} PROVE FALSE
    OBVIOUS
  <2>2. PICK k \in Stuck : \A m \in Stuck : k <= m
    <3>1. Stuck \in SUBSET Nat  OBVIOUS
    <3> HIDE DEF Stuck
    <3>. QED  BY <2>1, <3>1, LeastNumber
  <2>3. CASE k = 0
    <3> DEFINE f == [n \in 0..0 |-> <<>>]
    <3>1. f \in [0..0 -> Seq(T)] /\ f[0] = <<>>
      OBVIOUS
    <3>2. Solves(f, 0)
      BY <3>1
    <3>. QED  BY <2>3, <3>1, <3>2
  <2>4. CASE k # 0
    <3>0. N \in Nat /\ k \in 0..N
      OBVIOUS
    <3>1. k - 1 \in 0..N /\ k - 1 \notin Stuck
      <4> HIDE DEF N, Stuck
      <4>. QED  BY <2>2, <2>4, <3>0
    <3>2. PICK g \in [0..(k - 1) -> Seq(T)] : Solves(g, k - 1)
      BY <3>1
    <3> DEFINE f == [n \in 0..k |-> IF n = k THEN Next(g[k - 1], log, k, S) ELSE g[n]]
    <3>3. k \in 1..N /\ k - 1 \in 0..(k - 1) /\ log[k] \in T /\ g[k - 1] \in Seq(T)
      BY <2>2, <2>4, <3>1, <3>2
    <3>4. Next(g[k - 1], log, k, S) \in Seq(T)
      BY <3>3 DEF Next
    <3>5. f \in [0..k -> Seq(T)]
      BY <3>2, <3>3, <3>4
    <3>6. /\ f[k] = Next(g[k - 1], log, k, S) /\ \A n \in 0..(k - 1) : f[n] = g[n]
      BY <3>3
    <3> HIDE DEF f
    <3>7. ASSUME NEW n \in 1..k PROVE f[n] = Next(f[n - 1], log, n, S)
      <4>1. CASE n = k
        BY <4>1, <3>3, <3>6
      <4>2. CASE n # k
        <5>1. n \in 1..(k - 1) /\ n \in 0..(k - 1) /\ n - 1 \in 0..(k - 1)
          BY <4>2, <3>3
        <5>. QED  BY <5>1, <3>2, <3>6
      <4>. QED  BY <4>1, <4>2
    <3>8. f[0] = <<>>
      BY <3>2, <3>3, <3>6
    <3>. QED  BY <2>2, <3>5, <3>7, <3>8
  <2>. QED  BY <2>3, <2>4
<1>2. PICK f \in [0..N -> Seq(T)] : Solves(f, N)
  <2>1. N \in 0..N
    OBVIOUS
  <2>2. N \notin Stuck
    <3> HIDE DEF Stuck
    <3>. QED  BY <1>1
  <2>. QED  BY <2>1, <2>2
<1>3. ASSUME NEW n \in 0..N
      PROVE  f[n] = IF n = 0 THEN <<>> ELSE Next(f[n - 1], log, n, S)
  BY <1>2
<1>4. f = [n \in 0..N |-> f[n]]
  OBVIOUS
<1>5. UpTo(f, log, S)
  BY <1>3, <1>4 DEF UpTo
<1>. QED  BY <1>5

\* Two logs with a common beginning have the same entries there.
LEMMA UpToUnique ==
    ASSUME NEW f, NEW log, NEW g, NEW more, NEW S, NEW k \in Nat,
           Len(log) \in Nat, Len(more) \in Nat, k <= Len(log), k <= Len(more),
           \A n \in 1..k : log[n] = more[n],
           UpTo(f, log, S), UpTo(g, more, S)
    PROVE  f[k] = g[k]
<1> DEFINE Differ == {n \in 0..k : f[n] # g[n]}
<1>1. SUFFICES ASSUME Differ # {} PROVE FALSE
  OBVIOUS
<1>2. PICK n \in Differ : \A m \in Differ : n <= m
  <2>1. Differ \in SUBSET Nat  OBVIOUS
  <2> HIDE DEF Differ
  <2>. QED  BY <1>1, <2>1, LeastNumber
<1>3. n \in 0..Len(log) /\ n \in 0..Len(more)
  OBVIOUS
<1>4. f[n] = IF n = 0 THEN <<>> ELSE Next(f[n - 1], log, n, S)
  BY <1>3 DEF UpTo
<1>5. g[n] = IF n = 0 THEN <<>> ELSE Next(g[n - 1], more, n, S)
  BY <1>3 DEF UpTo
<1>6. n # 0
  BY <1>2, <1>4, <1>5
<1>7. f[n - 1] = g[n - 1] /\ log[n] = more[n]
  BY <1>2, <1>6
<1>. QED  BY <1>2, <1>4, <1>5, <1>7 DEF Next

LEMMA EntriesOfSeq ==
    ASSUME NEW T, NEW log \in Seq(T), NEW S
    PROVE  Entries(log, S) \in Seq(T)
<1> DEFINE f == CHOOSE x : UpTo(x, log, S)
<1>1. Len(log) \in Nat
  OBVIOUS
<1>2. Entries(log, S) = f[Len(log)]
  BY DEF Entries, UpTo, Next
<1>3. PICK x \in [0..Len(log) -> Seq(T)] : UpTo(x, log, S)
  BY UpToExists
<1>4. UpTo(f, log, S)
  BY <1>3
<1> HIDE DEF f
<1>5. f[Len(log)] = x[Len(log)]
  BY <1>1, <1>3, <1>4, UpToUnique
<1>. QED  BY <1>1, <1>2, <1>3, <1>5

\* Appending to a log appends to its entries, or leaves them alone.
LEMMA EntriesAppend ==
    ASSUME NEW T, NEW log \in Seq(T), NEW e \in T, NEW S
    PROVE  /\ Entries(log, S) \in Seq(T)
           /\ Entries(Append(log, e), S) =
                 IF e \in S THEN Append(Entries(log, S), e) ELSE Entries(log, S)
<1> DEFINE more == Append(log, e)
           k == Len(log)
           f == CHOOSE x : UpTo(x, log, S)
           g == CHOOSE x : UpTo(x, more, S)
<1>1. /\ more \in Seq(T) /\ k \in Nat /\ Len(more) = k + 1
      /\ more[k + 1] = e /\ \A n \in 1..k : log[n] = more[n]
  OBVIOUS
<1>2. Entries(log, S) = f[k] /\ Entries(more, S) = g[Len(more)]
  BY DEF Entries, UpTo, Next
<1> HIDE DEF more, k
<1>3. UpTo(f, log, S) /\ UpTo(g, more, S)
  BY <1>1, UpToExists
<1> HIDE DEF f, g
<1>4. f[k] = g[k]
  BY <1>1, <1>3, UpToUnique DEF k
<1>5. f[k] \in Seq(T)
  BY <1>2, EntriesOfSeq
<1>6. g[k + 1] = Next(g[k], more, k + 1, S)
  <2>1. k + 1 \in 0..Len(more) /\ k + 1 # 0 /\ (k + 1) - 1 = k
    BY <1>1
  <2>. QED  BY <1>3, <2>1 DEF UpTo
<1>. QED  BY <1>1, <1>2, <1>4, <1>5, <1>6 DEF Next, more

LEMMA EntriesEmpty == ASSUME NEW S PROVE Entries(<<>>, S) = <<>>
<1> DEFINE f == CHOOSE x : UpTo(x, <<>>, S)
<1>1. Len(<<>>) = 0
  OBVIOUS
<1>2. Entries(<<>>, S) = f[0]
  BY <1>1 DEF Entries, UpTo, Next
<1>3. UpTo(f, <<>>, S)
  <2>1. <<>> \in Seq({})  OBVIOUS
  <2>. QED  BY <2>1, UpToExists
<1> HIDE DEF f
<1>4. f[0] = <<>>
  BY <1>1, <1>3 DEF UpTo
<1>. QED  BY <1>2, <1>4

-----------------------------------------------------------------------------
(* The proxy.                                                              *)

Exchanges == Clients \X Calls
On(c, Q) == {c} \X Q

Received(c) == Entries(reth, On(c, EngineCalls))
PassedOn(c) == Entries(ress, On(c, Calls))

Task == [stage : {"idle", "reth", "ress", "closed"},
         request : Calls \cup {Nil}, payload_id : Nat \cup {Nil}]

ProxyTypeOK ==
    /\ proxies \in [Clients -> Task]
    /\ reth \in Seq(Exchanges)
    /\ ress \in Seq(Exchanges)

\* A task that waits holds a request, for ress one of the engine.
HoldsRequest(c) ==
    /\ proxies[c].stage = "reth" => proxies[c].request \in Calls /\ proxies[c].payload_id = Nil
    /\ proxies[c].stage = "ress" => proxies[c].request \in EngineCalls

\* ress is behind reth by the request that the task is about to pass on; a
\* connection that failed leaves ress at most one request behind, for good.
OneBehind(c) ==
    /\ proxies[c].stage \in {"idle", "reth"} => PassedOn(c) = Received(c)
    /\ proxies[c].stage = "ress" => Received(c) = Append(PassedOn(c), <<c, proxies[c].request>>)
    /\ proxies[c].stage = "closed" =>
          \/ PassedOn(c) = Received(c)
          \/ \E e \in Exchanges : Received(c) = Append(PassedOn(c), e)

ProxyInv ==
    /\ ProxyTypeOK
    /\ \A c \in Clients : HoldsRequest(c) /\ OneBehind(c)

\* A request that a node receives appears among those of its own connection.
LEMMA ReceivedByNode ==
    ASSUME NEW log \in Seq(Exchanges), NEW c \in Clients, NEW r \in Calls,
           NEW d \in Clients, NEW Q
    PROVE  /\ Entries(log, On(d, Q)) \in Seq(Exchanges)
           /\ Append(log, <<c, r>>) \in Seq(Exchanges)
           /\ Entries(Append(log, <<c, r>>), On(d, Q)) =
                 IF c = d /\ r \in Q THEN Append(Entries(log, On(d, Q)), <<c, r>>)
                 ELSE Entries(log, On(d, Q))
<1>1. <<c, r>> \in Exchanges /\ (<<c, r>> \in On(d, Q) <=> c = d /\ r \in Q)
  BY DEF Exchanges, On
<1>2. Append(log, <<c, r>>) \in Seq(Exchanges)
  BY <1>1
<1>3. ASSUME NEW e \in Exchanges, NEW S
      PROVE  /\ Entries(log, S) \in Seq(Exchanges)
             /\ Entries(Append(log, e), S) =
                   IF e \in S THEN Append(Entries(log, S), e) ELSE Entries(log, S)
  BY EntriesAppend
<1>4. /\ Entries(log, On(d, Q)) \in Seq(Exchanges)
      /\ Entries(Append(log, <<c, r>>), On(d, Q)) =
            IF <<c, r>> \in On(d, Q) THEN Append(Entries(log, On(d, Q)), <<c, r>>)
            ELSE Entries(log, On(d, Q))
  BY <1>1, <1>3
<1>. QED  BY <1>1, <1>2, <1>4

\* The same for a node that may have received the request of c.
LEMMA ReceivedBySome ==
    ASSUME ProxyTypeOK, NEW c \in Clients, NEW r \in Calls, NEW d \in Clients,
           reth' \in {reth, Append(reth, <<c, r>>)}, ress' \in {ress, Append(ress, <<c, r>>)}
    PROVE  /\ reth' \in Seq(Exchanges) /\ ress' \in Seq(Exchanges)
           /\ d # c => PassedOn(d)' = PassedOn(d) /\ Received(d)' = Received(d)
           /\ Received(c)' \in {Received(c), Append(Received(c), <<c, r>>)}
           /\ PassedOn(c)' \in {PassedOn(c), Append(PassedOn(c), <<c, r>>)}
           /\ reth' = reth => Received(c)' = Received(c)
           /\ ress' = ress => PassedOn(c)' = PassedOn(c)
<1>1. reth \in Seq(Exchanges) /\ ress \in Seq(Exchanges)
  BY DEF ProxyTypeOK
<1>2. /\ reth' \in Seq(Exchanges)
      /\ d # c => Received(d)' = Received(d)
      /\ Received(c)' \in {Received(c), Append(Received(c), <<c, r>>)}
  <2>1. CASE reth' = reth
    BY <1>1, <2>1 DEF Received
  <2>2. CASE reth' = Append(reth, <<c, r>>)
    <3>1. reth' \in Seq(Exchanges)
      BY <1>1, <2>2, ReceivedByNode
    <3>2. ASSUME NEW e \in Clients
          PROVE  Entries(reth', On(e, EngineCalls)) =
                    IF c = e /\ r \in EngineCalls THEN Append(Entries(reth, On(e, EngineCalls)), <<c, r>>)
                    ELSE Entries(reth, On(e, EngineCalls))
      BY <1>1, <2>2, ReceivedByNode
    <3>. QED  BY <3>1, <3>2 DEF Received
  <2>. QED  BY <2>1, <2>2
<1>3. /\ ress' \in Seq(Exchanges)
      /\ d # c => PassedOn(d)' = PassedOn(d)
      /\ PassedOn(c)' \in {PassedOn(c), Append(PassedOn(c), <<c, r>>)}
  <2>1. CASE ress' = ress
    BY <1>1, <2>1 DEF PassedOn
  <2>2. CASE ress' = Append(ress, <<c, r>>)
    <3>1. ress' \in Seq(Exchanges)
      BY <1>1, <2>2, ReceivedByNode
    <3>2. ASSUME NEW e \in Clients
          PROVE  Entries(ress', On(e, Calls)) =
                    IF c = e /\ r \in Calls THEN Append(Entries(ress, On(e, Calls)), <<c, r>>)
                    ELSE Entries(ress, On(e, Calls))
      BY <1>1, <2>2, ReceivedByNode
    <3>. QED  BY <3>1, <3>2 DEF PassedOn
  <2>. QED  BY <2>1, <2>2
<1>4. (reth' = reth => Received(c)' = Received(c)) /\ (ress' = ress => PassedOn(c)' = PassedOn(c))
  BY DEF Received, PassedOn
<1>. QED  BY <1>2, <1>3, <1>4

LEMMA ProxyInvInit == ProxyInit => ProxyInv
<1> SUFFICES ASSUME ProxyInit PROVE ProxyInv
  OBVIOUS
<1>1. ProxyTypeOK
  BY DEF ProxyInit, ProxyTypeOK, NoTask, Task
<1>2. ASSUME NEW c \in Clients PROVE PassedOn(c) = Received(c)
  BY EntriesEmpty DEF ProxyInit, PassedOn, Received
<1>3. ASSUME NEW c \in Clients PROVE proxies[c].stage = "idle"
  BY DEF ProxyInit, NoTask
<1>. QED
  BY <1>1, <1>2, <1>3 DEF ProxyInv, HoldsRequest, OneBehind

\* What a step of the task of c leaves alone: the other connections.
LEMMA OthersStay ==
    ASSUME ProxyInv, NEW c \in Clients, NEW r \in Calls, NEW d \in Clients, d # c,
           proxies'[d] = proxies[d],
           reth' \in {reth, Append(reth, <<c, r>>)}, ress' \in {ress, Append(ress, <<c, r>>)}
    PROVE  (HoldsRequest(d) /\ OneBehind(d))'
<1>1. HoldsRequest(d)'
  BY DEF ProxyInv, HoldsRequest
<1>2. PassedOn(d)' = PassedOn(d) /\ Received(d)' = Received(d)
  BY ReceivedBySome DEF ProxyInv
<1>3. OneBehind(d)'
  BY <1>2 DEF ProxyInv, OneBehind
<1>. QED  BY <1>1, <1>3

LEMMA ProxyInvStep == ProxyInv /\ [ProxyNext]_proxyVars => ProxyInv'
<1> SUFFICES ASSUME ProxyInv, [ProxyNext]_proxyVars PROVE ProxyInv'
  OBVIOUS
<1>1. CASE UNCHANGED proxyVars
  BY <1>1 DEF proxyVars, ProxyInv, ProxyTypeOK, HoldsRequest, OneBehind, PassedOn, Received
<1>2. SUFFICES ASSUME NEW c \in Clients,
                      \/ \E r \in Calls : SendCall(c, r)
                      \/ FromReth(c) \/ FromRess(c) \/ Fail(c)
               PROVE  ProxyInv'
  BY <1>1 DEF ProxyNext
<1>3. /\ ProxyTypeOK /\ HoldsRequest(c) /\ OneBehind(c)
  BY DEF ProxyInv
<1>4. CASE \E r \in Calls : SendCall(c, r)
  <2> PICK r \in Calls : SendCall(c, r)
    BY <1>4
  <2>1. ProxyTypeOK'
    BY <1>3 DEF SendCall, ProxyTypeOK, Task
  <2>2. /\ proxies'[c] = [stage |-> "reth", request |-> r, payload_id |-> Nil]
        /\ proxies[c].stage = "idle" /\ reth' = reth /\ ress' = ress
        /\ \A d \in Clients : d # c => proxies'[d] = proxies[d]
    BY <1>3 DEF SendCall, ProxyTypeOK
  <2>3. (HoldsRequest(c) /\ OneBehind(c))'
    BY <1>3, <2>2 DEF HoldsRequest, OneBehind, PassedOn, Received
  <2>4. ASSUME NEW d \in Clients, d # c
        PROVE  (HoldsRequest(d) /\ OneBehind(d))'
    BY <2>2, <2>4, OthersStay
  <2>. QED  BY <2>1, <2>3, <2>4 DEF ProxyInv
<1>5. CASE FromReth(c)
  <2> DEFINE r == proxies[c].request
  <2>0. r \in Calls /\ proxies[c].payload_id = Nil /\ proxies[c].stage = "reth"
    BY <1>3, <1>5 DEF FromReth, HoldsRequest
  <2>1. /\ reth' = Append(reth, <<c, r>>) /\ ress' = ress
        /\ reth' \in Seq(Exchanges)
        /\ Len(reth') \in DOMAIN reth' /\ reth'[Len(reth')] = <<c, r>>
    BY <1>3, <1>5, <2>0, ReceivedByNode DEF FromReth, ProxyTypeOK
  <2>2. CASE IsEngineMethod(r)
    <3>1. PICK id \in IF r \in Builds THEN {Len(reth'), Nil} ELSE {Nil} :
              proxies' = [proxies EXCEPT ![c].stage = "ress", ![c].payload_id = id]
      BY <1>5, <2>2 DEF FromReth
    <3>2. id \in Nat \cup {Nil} /\ id \in {Len(reth'), Nil}
      BY <2>1, <3>1
    <3>3. /\ proxies'[c] = [stage |-> "ress", request |-> r, payload_id |-> id]
          /\ \A d \in Clients : d # c => proxies'[d] = proxies[d]
          /\ proxies' \in [Clients -> Task]
      <4>1. proxies[c] \in Task /\ proxies'[c] = [proxies[c] EXCEPT !.stage = "ress", !.payload_id = id]
        BY <1>3, <3>1 DEF ProxyTypeOK
      <4>2. proxies'[c] = [stage |-> "ress", request |-> r, payload_id |-> id]
        BY <4>1 DEF Task
      <4>3. proxies'[c] \in Task
        BY <2>0, <3>2, <4>2 DEF Task
      <4>. QED  BY <1>3, <3>1, <4>2, <4>3 DEF ProxyTypeOK
    <3>4. r \in EngineCalls
      BY <2>0, <2>2 DEF EngineCalls
    <3>5. Received(c)' = Append(Received(c), <<c, r>>) /\ PassedOn(c)' = PassedOn(c)
      <4>1. reth \in Seq(Exchanges)
        BY <1>3 DEF ProxyTypeOK
      <4>2. Entries(Append(reth, <<c, r>>), On(c, EngineCalls)) =
              Append(Entries(reth, On(c, EngineCalls)), <<c, r>>)
        BY <2>0, <3>4, <4>1, ReceivedByNode
      <4>3. PassedOn(c)' = PassedOn(c)
        BY <2>1 DEF PassedOn
      <4>. QED  BY <2>1, <4>2, <4>3 DEF Received
    <3>6. OneBehind(c)'
      BY <1>3, <2>0, <3>3, <3>5 DEF OneBehind
    <3>7. HoldsRequest(c)'
      BY <3>3, <3>4 DEF HoldsRequest
    <3>8. ASSUME NEW d \in Clients, d # c
          PROVE  (HoldsRequest(d) /\ OneBehind(d))'
      BY <2>0, <2>1, <3>3, <3>8, OthersStay
    <3>9. ProxyTypeOK'
      BY <1>3, <2>1, <3>1, <3>3 DEF ProxyTypeOK
    <3>. QED  BY <3>6, <3>7, <3>8, <3>9 DEF ProxyInv
  <2>3. CASE ~IsEngineMethod(r)
    <3>1. proxies' = [proxies EXCEPT ![c] = NoTask]
      BY <1>5, <2>3 DEF FromReth, Respond
    <3>2. /\ proxies'[c] = NoTask /\ ProxyTypeOK'
          /\ \A d \in Clients : d # c => proxies'[d] = proxies[d]
      BY <1>3, <2>1, <3>1 DEF ProxyTypeOK, NoTask, Task
    <3>3. r \notin EngineCalls
      BY <2>3 DEF EngineCalls
    <3>4. Received(c)' = Received(c) /\ PassedOn(c)' = PassedOn(c)
      BY <1>3, <2>0, <2>1, <3>3, ReceivedByNode DEF ProxyTypeOK, Received, PassedOn
    <3>5. (HoldsRequest(c) /\ OneBehind(c))'
      BY <1>3, <2>0, <3>2, <3>4 DEF HoldsRequest, OneBehind, NoTask
    <3>6. ASSUME NEW d \in Clients, d # c
          PROVE  (HoldsRequest(d) /\ OneBehind(d))'
      BY <2>0, <2>1, <3>2, <3>6, OthersStay
    <3>. QED  BY <3>2, <3>5, <3>6 DEF ProxyInv
  <2>. QED  BY <2>2, <2>3
<1>6. CASE FromRess(c)
  <2> DEFINE r == proxies[c].request
  <2>0. r \in Calls /\ r \in EngineCalls /\ proxies[c].stage = "ress"
    BY <1>3, <1>6 DEF FromRess, HoldsRequest, EngineCalls
  <2>1. ress' = Append(ress, <<c, r>>) /\ reth' = reth
    BY <1>6 DEF FromRess
  <2>2. proxies' = [proxies EXCEPT ![c] = NoTask]
    BY <1>6 DEF FromRess, Respond
  <2>3. /\ proxies'[c] = NoTask /\ ProxyTypeOK'
        /\ \A d \in Clients : d # c => proxies'[d] = proxies[d]
    <3>1. ress' \in Seq(Exchanges) /\ NoTask \in Task
      BY <1>3, <2>0, <2>1, ReceivedByNode DEF ProxyTypeOK, NoTask, Task
    <3>. QED  BY <1>3, <2>1, <2>2, <3>1 DEF ProxyTypeOK
  <2>4. Received(c)' = Received(c) /\ PassedOn(c)' = Append(PassedOn(c), <<c, r>>)
    BY <1>3, <2>0, <2>1, ReceivedByNode DEF ProxyTypeOK, Received, PassedOn
  <2>5. HoldsRequest(c)' /\ OneBehind(c)'
    <3>1. proxies'[c].stage = "idle"
      BY <2>3 DEF NoTask
    <3>2. PassedOn(c)' = Received(c)'
      BY <1>3, <2>0, <2>4 DEF OneBehind
    <3>. QED  BY <3>1, <3>2 DEF HoldsRequest, OneBehind
  <2>6. ASSUME NEW d \in Clients, d # c
        PROVE  (HoldsRequest(d) /\ OneBehind(d))'
    BY <2>0, <2>1, <2>3, <2>6, OthersStay
  <2>. QED  BY <2>3, <2>5, <2>6 DEF ProxyInv
<1>7. CASE Fail(c)
  <2> DEFINE r == proxies[c].request
  <2>0. r \in Calls /\ proxies[c].stage \in {"reth", "ress"}
        /\ (proxies[c].stage = "ress" => r \in EngineCalls)
    BY <1>3, <1>7 DEF Fail, HoldsRequest, EngineCalls
  <2>1. /\ reth' \in {reth, Append(reth, <<c, r>>)} /\ ress' \in {ress, Append(ress, <<c, r>>)}
        /\ proxies[c].stage = "reth" => ress' = ress
        /\ proxies[c].stage = "ress" => reth' = reth
    BY <1>7 DEF Fail
  <2>2. /\ proxies'[c] = Closed /\ ProxyTypeOK'
        /\ \A d \in Clients : d # c => proxies'[d] = proxies[d]
    <3>1. proxies' = [proxies EXCEPT ![c] = Closed]
      BY <1>7 DEF Fail
    <3>2. reth' \in Seq(Exchanges) /\ ress' \in Seq(Exchanges)
      BY <1>3, <2>0, <2>1, ReceivedBySome
    <3>. QED  BY <1>3, <3>1, <3>2 DEF ProxyTypeOK, Closed, Task
  <2>3. /\ <<c, r>> \in Exchanges
        /\ Received(c)' \in {Received(c), Append(Received(c), <<c, r>>)}
        /\ PassedOn(c)' \in {PassedOn(c), Append(PassedOn(c), <<c, r>>)}
        /\ reth' = reth => Received(c)' = Received(c)
        /\ ress' = ress => PassedOn(c)' = PassedOn(c)
    <3>1. <<c, r>> \in Exchanges
      BY <2>0 DEF Exchanges
    <3>. QED  BY <1>3, <2>0, <2>1, <3>1, ReceivedBySome
  <2>4. OneBehind(c)'
    <3>0. proxies'[c].stage = "closed"
      BY <2>2 DEF Closed
    <3>1. CASE proxies[c].stage = "reth"
      <4>1. PassedOn(c)' = PassedOn(c) /\ PassedOn(c) = Received(c)
        BY <1>3, <2>1, <2>3, <3>1 DEF OneBehind
      <4>. QED  BY <2>3, <3>0, <4>1 DEF OneBehind
    <3>2. CASE proxies[c].stage = "ress"
      <4>1. Received(c)' = Received(c) /\ Received(c) = Append(PassedOn(c), <<c, r>>)
        BY <1>3, <2>1, <2>3, <3>2 DEF OneBehind
      <4>. QED  BY <2>3, <3>0, <4>1 DEF OneBehind
    <3>. QED  BY <2>0, <3>1, <3>2
  <2>5. HoldsRequest(c)'
    BY <2>2 DEF HoldsRequest, Closed
  <2>6. ASSUME NEW d \in Clients, d # c
        PROVE  (HoldsRequest(d) /\ OneBehind(d))'
    BY <2>0, <2>1, <2>2, <2>6, OthersStay
  <2>. QED  BY <2>2, <2>4, <2>5, <2>6 DEF ProxyInv
<1>. QED  BY <1>2, <1>4, <1>5, <1>6, <1>7

\* However requests of several connections interleave and fail, what ress
\* received on a connection is a beginning of the engine requests that reth
\* received there.
THEOREM RessStaysBehindReth == ProxySpec => []RessFollowsReth
<1>1. ASSUME NEW s \in Seq(Exchanges)
      PROVE  IsPrefix(s, s) /\ \A e \in Exchanges : IsPrefix(s, Append(s, e))
  BY DEF IsPrefix
<1>2. ProxyInv => RessFollowsReth
  <2> SUFFICES ASSUME ProxyInv, NEW c \in Clients
               PROVE  IsPrefix(PassedOn(c), Received(c))
    BY DEF RessFollowsReth, PassedOn, Received, On
  <2>1. PassedOn(c) \in Seq(Exchanges)
    BY EntriesOfSeq DEF ProxyInv, ProxyTypeOK, PassedOn
  <2>2. proxies[c].stage = "ress" => <<c, proxies[c].request>> \in Exchanges
    BY DEF ProxyInv, HoldsRequest, EngineCalls, Exchanges
  <2>3. PassedOn(c) = Received(c) \/ \E e \in Exchanges : Received(c) = Append(PassedOn(c), e)
    BY <2>2 DEF ProxyInv, ProxyTypeOK, Task, OneBehind
  <2>4. CASE PassedOn(c) = Received(c)
    BY <1>1, <2>1, <2>4
  <2>5. CASE \E e \in Exchanges : Received(c) = Append(PassedOn(c), e)
    BY <1>1, <2>1, <2>5
  <2>. QED  BY <2>3, <2>4, <2>5
<1>. QED  BY <1>2, ProxyInvInit, ProxyInvStep, PTL DEF ProxySpec

-----------------------------------------------------------------------------
(* The RPC adapter.                                                        *)

Results == Hash \cup {"waiting", None}

RpcTypeOK ==
    /\ head \in Heads
    /\ running \in BOOLEAN
    /\ requests \in Seq(Requests)
    /\ DOMAIN tasks = Requests
    /\ clean \in [Requests -> BOOLEAN]
    /\ DOMAIN answers = Requests

\* A request is once in the channel, and has no task then.
QueuedOnce ==
    /\ \A i, j \in DOMAIN requests : requests[i] = requests[j] => i = j
    /\ \A i \in DOMAIN requests : Idle(requests[i])

\* A task has as many results as its request has lookups, and bodies are
\* those that were asked for.
ResultsTyped(r) ==
    ~Idle(r) =>
        /\ tasks[r] \in [1..Lookups(r) -> Results]
        /\ r.kind = "bodies" =>
              \A i \in DOMAIN tasks[r] : tasks[r][i] \in {"waiting", None, r.hashes[i]}

\* As long as r is clean its results are from the chain of the present head.
ResultsClean(r) ==
    ~Idle(r) /\ clean[r] =>
        /\ OnChain(r)
        /\ \A i \in DOMAIN tasks[r] : tasks[r][i] # None /\ tasks[r][i] \in {"waiting", Found(r, i)}

\* AnswersUsable, for one request and an answer a.
Usable(r, a) ==
    /\ r.kind = "headers" /\ a.clean =>
          \/ r.limit > MaxServe + 1 \/ r.limit > MaxItems \/ r.limit > Number[r.start] + 1
          \/ AcceptHeaders(r.start, r.limit, a.items)
    /\ r.kind = "bodies" => \A i \in DOMAIN a.items : a.items[i] = r.hashes[i]
    /\ r.kind = "proof" /\ a.clean => a.items = <<r.hash>>

RpcInv ==
    /\ RpcTypeOK
    /\ QueuedOnce
    /\ \A r \in Requests : ResultsTyped(r) /\ ResultsClean(r) /\ Usable(r, answers[r])

LEMMA LookupsPositive ==
    ASSUME NEW r \in Requests
    PROVE  /\ Lookups(r) \in Nat \ {0}
           /\ \/ r.kind = "headers" /\ r.start \in Hash /\ r.limit \in Nat \ {0} /\ Number[r.start] \in Nat
              \/ r.kind = "bodies" /\ r.hashes \in Seq(Hash) /\ Lookups(r) = Len(r.hashes)
              \/ r.kind = "proof" /\ r.hash \in Hash /\ Lookups(r) = 2
<1>1. CASE r \in [kind : {"headers"}, start : Hash, limit : Nat \ {0}]
  BY <1>1, BlocksAssumption, AdapterAssumption DEF Lookups, Minimum
<1>2. CASE r \in [kind : {"bodies"}, hashes : Seq(Hash) \ {<<>>}]
  BY <1>2 DEF Lookups
<1>3. CASE r \in [kind : {"proof"}, hash : Hash]
  BY <1>3 DEF Lookups
<1>. QED  BY <1>1, <1>2, <1>3, AdapterAssumption DEF RequestForms

\* The chain of the node has one block for each number up to that of h.
LEMMA CanonicalExact ==
    ASSUME head \in Heads, NEW h \in Ancestry[head], NEW n \in Nat, n <= Number[h]
    PROVE  /\ Canonical(n) \in Ancestry[head] /\ Number[Canonical(n)] = n
           /\ \A x \in Ancestry[head] : Number[x] = n => x = Canonical(n)
<1>1. head \in Hash /\ Number[h] \in Nat /\ Number[head] \in Nat /\ Number[h] <= Number[head]
  BY AncestryNumber, AdapterAssumption
<1>2. \E x \in Ancestry[head] : Number[x] = n
  BY <1>1, AncestryComplete
<1>3. Canonical(n) \in Ancestry[head] /\ Number[Canonical(n)] = n
  BY <1>2 DEF Canonical
<1>. QED  BY <1>1, <1>3, AncestryLinear

\* Every result of a clean headers request belongs to the chain.
LEMMA FoundHeader ==
    ASSUME head \in Heads, NEW r \in Requests, r.kind = "headers", OnChain(r),
           NEW i \in 1..(Number[r.start] + 1)
    PROVE  /\ Found(r, i) \in Ancestry[head]
           /\ Number[Found(r, i)] = Number[r.start] - (i - 1)
<1>1. r.start \in Ancestry[head] /\ r.start \in Hash /\ Number[r.start] \in Nat
  BY LookupsPositive DEF OnChain
<1>2. CASE i = 1
  BY <1>1, <1>2 DEF Found
<1>3. CASE i # 1
  <2>1. Number[r.start] - (i - 1) \in Nat /\ Number[r.start] - (i - 1) <= Number[r.start]
    BY <1>1
  <2>2. Found(r, i) = Canonical(Number[r.start] - (i - 1))
    BY <1>3 DEF Found
  <2>. QED  BY <1>1, <2>1, <2>2, CanonicalExact
<1>. QED  BY <1>2, <1>3

\* The headers a node returns fall from the start block, each followed by its
\* parent.
LEMMA FoundRange ==
    ASSUME head \in Heads, NEW r \in Requests, r.kind = "headers", OnChain(r),
           r.limit <= Number[r.start] + 1, NEW items \in Seq(Results), Len(items) = r.limit,
           \A i \in DOMAIN items : items[i] = Found(r, i)
    PROVE  AcceptHeaders(r.start, r.limit, items)
<1> DEFINE s == Number[r.start]
<1>0. /\ r.start \in Hash /\ s \in Nat /\ r.limit \in Nat \ {0} /\ head \in Hash
      /\ Ancestry[head] \cap InvalidHeaders = {} /\ DOMAIN items = 1..r.limit
  BY LookupsPositive, AdapterAssumption
<1>1. ASSUME NEW i \in 1..r.limit
      PROVE  items[i] \in Ancestry[head] /\ Number[items[i]] = s - (i - 1)
  <2>1. i \in DOMAIN items /\ i \in 1..(s + 1)
    BY <1>0
  <2>. QED  BY <2>1, FoundHeader
<1>2. ASSUME NEW i \in 1..(r.limit - 1)
      PROVE  Parent[items[i]] = items[i + 1]
  <2>1. i \in 1..r.limit /\ i + 1 \in 1..r.limit
    BY <1>0
  <2>2. /\ items[i] \in Ancestry[head] /\ Number[items[i]] = s - (i - 1)
        /\ items[i + 1] \in Ancestry[head] /\ Number[items[i + 1]] = s - i
    BY <1>0, <1>1, <2>1
  <2>3. items[i] \in Hash /\ items[i] # Genesis
    BY <1>0, <2>1, <2>2, AncestryClosed, BlocksAssumption
  <2>4. Parent[items[i]] \in Ancestry[head] /\ Number[Parent[items[i]]] = s - i
    <3>1. /\ Parent[items[i]] \in Hash
          /\ Number[items[i]] = Number[Parent[items[i]]] + 1
          /\ Number[Parent[items[i]]] \in Nat
      BY <2>3, BlocksAssumption
    <3>2. ParentClosed(Ancestry[head])
      BY <1>0, AncestryClosed
    <3>3. Parent[items[i]] \in Ancestry[head]
      BY <2>2, <3>1, <3>2 DEF ParentClosed
    <3>4. \A m \in Nat, k \in Nat : m + 1 = s - (k - 1) => m = s - k
      <4>1. s \in Nat  BY <1>0
      <4> HIDE DEF s
      <4>. QED  BY <4>1
    <3>5. i \in Nat /\ i >= 1
      BY <1>0, <2>1
    <3>. QED  BY <2>2, <3>1, <3>3, <3>4, <3>5
  <2>. QED  BY <1>0, <2>2, <2>4, AncestryLinear
<1>3. items[1] = r.start
  BY <1>0 DEF Found
<1>4. \A i \in DOMAIN items : items[i] \notin InvalidHeaders
  BY <1>0, <1>1
<1>. QED  BY <1>0, <1>2, <1>3, <1>4 DEF AcceptHeaders, ValidHeaderRange

LEMMA FoundTyped ==
    ASSUME head \in Heads, NEW r \in Requests, NEW i \in 1..Lookups(r)
    PROVE  Found(r, i) \in Hash \cup {None}
<1>1. \A n : Canonical(n) \in Hash \cup {None}
  <2>1. Ancestry[head] \subseteq Hash
    BY AncestryClosed, AdapterAssumption
  <2>. QED  BY <2>1 DEF Canonical
<1>2. r.kind = "bodies" => r.hashes[i] \in Hash
  BY LookupsPositive
<1>. QED  BY <1>1, <1>2, LookupsPositive DEF Found

\* A function on 1..n is a sequence.
LEMMA IsASeq ==
    ASSUME NEW T, NEW n \in Nat, NEW s \in [1..n -> T]
    PROVE  s \in Seq(T) /\ Len(s) = n
  OBVIOUS

\* A task that has all the results it needs sends an answer of use.
LEMMA ReplyUsable ==
    ASSUME RpcInv, NEW r \in Requests, ~Idle(r), NEW n \in 0..Len(tasks[r]), Complete(r, n)
    PROVE  Usable(r, [items |-> Response(r, n), clean |-> clean[r]])
<1> DEFINE a == [items |-> Response(r, n), clean |-> clean[r]]
<1>0. /\ head \in Heads /\ tasks[r] \in [1..Lookups(r) -> Results] /\ Lookups(r) \in Nat \ {0}
      /\ clean[r] \in BOOLEAN
  BY LookupsPositive DEF RpcInv, RpcTypeOK, ResultsTyped
<1>1. /\ tasks[r] \in Seq(Results) /\ Len(tasks[r]) = Lookups(r)
      /\ DOMAIN tasks[r] = 1..Lookups(r) /\ n \in 0..Lookups(r)
  <2>1. tasks[r] \in Seq(Results) /\ Len(tasks[r]) = Lookups(r)
    BY <1>0, IsASeq
  <2>. QED  BY <1>0, <2>1
<1>2. \A i \in 1..n : tasks[r][i] \notin {"waiting", None}
  BY DEF Complete
<1>3. /\ SubSeq(tasks[r], 1, n) \in Seq(Results) /\ Len(SubSeq(tasks[r], 1, n)) = n
      /\ DOMAIN SubSeq(tasks[r], 1, n) = 1..n
      /\ \A i \in 1..n : SubSeq(tasks[r], 1, n)[i] = tasks[r][i]
  BY <1>0, <1>1
<1>4. ASSUME clean[r]
      PROVE  /\ OnChain(r) /\ (n = Lookups(r) \/ n = MaxItems)
             /\ \A i \in 1..n : tasks[r][i] = Found(r, i)
  <2>1. /\ OnChain(r)
        /\ \A i \in 1..Lookups(r) : tasks[r][i] # None /\ tasks[r][i] \in {"waiting", Found(r, i)}
    BY <1>1, <1>4 DEF RpcInv, ResultsClean
  <2>2. n = Lookups(r) \/ n = MaxItems
    <3>1. SUFFICES ASSUME n # Lookups(r), n # MaxItems PROVE FALSE
      OBVIOUS
    <3>2. n + 1 \in 1..Lookups(r) /\ n < Len(tasks[r])
      BY <1>0, <1>1, <3>1
    <3>. QED  BY <2>1, <3>1, <3>2 DEF Complete
  <2>3. \A i \in 1..n : i \in 1..Lookups(r)
    BY <1>0, <1>1
  <2>. QED  BY <1>2, <2>1, <2>2, <2>3
<1>5. CASE r.kind = "headers"
  <2>1. SUFFICES ASSUME clean[r], r.limit <= MaxServe + 1, r.limit <= MaxItems,
                        r.limit <= Number[r.start] + 1
                 PROVE  AcceptHeaders(r.start, r.limit, a.items)
    <3>1. r.limit \in Nat /\ Number[r.start] \in Nat
      BY <1>5, LookupsPositive
    <3>. QED  BY <1>5, <2>1, <3>1, AdapterAssumption DEF Usable
  <2>2. r.limit \in Nat \ {0} /\ Number[r.start] \in Nat
    BY <1>5, LookupsPositive
  <2>3. Lookups(r) = r.limit
    BY <1>5, <2>1, <2>2, AdapterAssumption DEF Lookups, Minimum
  <2>4. n = r.limit
    BY <1>1, <1>4, <2>1, <2>2, <2>3, AdapterAssumption
  <2>5. a.items = SubSeq(tasks[r], 1, n)
    BY <1>5 DEF Response
  <2>6. /\ a.items \in Seq(Results) /\ Len(a.items) = r.limit
        /\ \A i \in DOMAIN a.items : a.items[i] = Found(r, i)
    BY <1>3, <1>4, <2>1, <2>4, <2>5
  <2> HIDE DEF a
  <2>. QED  BY <1>0, <1>4, <1>5, <2>1, <2>6, FoundRange
<1>6. CASE r.kind = "bodies"
  <2>1. a.items = SubSeq(tasks[r], 1, n)
    BY <1>6 DEF Response
  <2>2. ASSUME NEW i \in 1..n PROVE tasks[r][i] = r.hashes[i]
    <3>1. i \in DOMAIN tasks[r]
      BY <1>0, <1>1
    <3>. QED  BY <1>2, <1>6, <3>1 DEF RpcInv, ResultsTyped
  <2>. QED  BY <1>3, <1>6, <2>1, <2>2 DEF Usable
<1>7. CASE r.kind = "proof"
  <2>1. SUFFICES ASSUME clean[r] PROVE a.items = <<r.hash>>
    BY <1>7 DEF Usable
  <2>2. r.hash \in Hash /\ Lookups(r) = 2 /\ r.hash \in Ancestry[head] /\ Number[r.hash] \in Nat
    BY <1>4, <1>7, <2>1, LookupsPositive, BlocksAssumption DEF OnChain
  <2>3. n = 2
    BY <1>1, <1>4, <2>1, <2>2, AdapterAssumption
  <2>4. tasks[r][2] = Canonical(Number[r.hash])
    BY <1>4, <1>7, <2>1, <2>3 DEF Found
  <2>5. Canonical(Number[r.hash]) = r.hash
    BY <1>0, <2>2, CanonicalExact
  <2>. QED  BY <1>7, <2>3, <2>4, <2>5 DEF Response
<1>. QED  BY <1>5, <1>6, <1>7, LookupsPositive

LEMMA RpcInvInit == RpcInit => RpcInv
<1> SUFFICES ASSUME RpcInit PROVE RpcInv
  OBVIOUS
<1>1. RpcTypeOK
  <2>1. head \in Heads /\ requests \in Seq(Requests)
    BY DEF RpcInit
  <2>3. running \in BOOLEAN
    BY DEF RpcInit
  <2>2. DOMAIN tasks = Requests /\ clean \in [Requests -> BOOLEAN] /\ DOMAIN answers = Requests
    BY DEF RpcInit
  <2>. QED  BY <2>1, <2>2, <2>3 DEF RpcTypeOK
<1>3. QueuedOnce
  BY DEF RpcInit, QueuedOnce
<1>2. ASSUME NEW r \in Requests
      PROVE  Idle(r) /\ answers[r] = [items |-> <<>>, clean |-> FALSE]
  BY DEF RpcInit, Idle
<1>. QED  BY <1>1, <1>2, <1>3 DEF RpcInv, ResultsTyped, ResultsClean, Usable

\* A request that a step does not touch.
LEMMA RequestStays ==
    ASSUME NEW r \in Requests, ResultsTyped(r), ResultsClean(r), Usable(r, answers[r]),
           tasks'[r] = tasks[r], answers'[r] = answers[r],
           ~clean'[r] \/ (clean'[r] = clean[r] /\ head' = head)
    PROVE  (ResultsTyped(r) /\ ResultsClean(r))' /\ Usable(r, answers'[r])
<1>1. ResultsTyped(r)'
  BY DEF ResultsTyped, Idle
<1>2. CASE ~clean'[r]
  BY <1>1, <1>2 DEF ResultsClean
<1>3. CASE clean'[r] = clean[r] /\ head' = head
  BY <1>1, <1>3 DEF ResultsClean, Idle, OnChain, Found, Canonical
<1>. QED  BY <1>1, <1>2, <1>3

LEMMA RpcInvStep == RpcInv /\ [RpcNext]_rpcVars => RpcInv'
<1> SUFFICES ASSUME RpcInv, [RpcNext]_rpcVars PROVE RpcInv'
  OBVIOUS
<1> DEFINE Good(r) == (ResultsTyped(r) /\ ResultsClean(r))' /\ Usable(r, answers'[r])
           Goal == RpcTypeOK' /\ QueuedOnce' /\ \A r \in Requests : Good(r)
<1>0. SUFFICES Goal
  BY DEF RpcInv
<1>1. /\ RpcTypeOK /\ QueuedOnce
      /\ \A r \in Requests : ResultsTyped(r) /\ ResultsClean(r) /\ Usable(r, answers[r])
  BY DEF RpcInv
<1>2. ASSUME UNCHANGED <<requests, tasks>>
      PROVE  QueuedOnce'
  BY <1>1, <1>2 DEF QueuedOnce, Idle
<1>3. CASE UNCHANGED rpcVars
  <2>1. ASSUME NEW r \in Requests PROVE Good(r)
    BY <1>1, <1>3, RequestStays DEF rpcVars
  <2>. QED  BY <1>1, <1>2, <1>3, <2>1 DEF rpcVars, RpcTypeOK
<1>4. ASSUME NEW h \in Heads, Reorg(h) PROVE Goal
  <2>1. ASSUME NEW r \in Requests PROVE Good(r)
    BY <1>1, <1>4, RequestStays DEF Reorg
  <2>. QED  BY <1>1, <1>2, <1>4, <2>1 DEF Reorg, RpcTypeOK
<1>5. ASSUME NEW r \in Requests, Send(r) PROVE Goal
  <2>1. /\ requests' = Append(requests, r) /\ UNCHANGED <<head, running, tasks, clean, answers>>
        /\ Idle(r) /\ \A i \in DOMAIN requests : requests[i] # r
    BY <1>5 DEF Send
  <2>2. ASSUME NEW q \in Requests PROVE Good(q)
    BY <1>1, <2>1, RequestStays
  <2>3. RpcTypeOK'
    BY <1>1, <2>1 DEF RpcTypeOK
  <2>4. QueuedOnce'
    BY <1>1, <2>1 DEF QueuedOnce, Idle, RpcTypeOK
  <2>. QED  BY <2>2, <2>3, <2>4
<1>6. ASSUME NEW r \in Requests, Reply(r) PROVE Goal
  <2>1. PICK n \in 0..Len(tasks[r]) :
            /\ Complete(r, n)
            /\ answers' = [answers EXCEPT ![r] = [items |-> Response(r, n), clean |-> clean[r]]]
    BY <1>6 DEF Reply
  <2>2. /\ ~Idle(r) /\ tasks' = [tasks EXCEPT ![r] = <<>>]
        /\ UNCHANGED <<head, running, requests, clean>>
    BY <1>6 DEF Reply
  <2>3. Good(r)
    <3>1. tasks'[r] = <<>> /\ answers'[r] = [items |-> Response(r, n), clean |-> clean[r]]
      BY <1>1, <2>1, <2>2 DEF RpcTypeOK
    <3>. QED  BY <2>1, <2>2, <3>1, ReplyUsable DEF ResultsTyped, ResultsClean, Idle
  <2>4. ASSUME NEW q \in Requests, q # r PROVE Good(q)
    <3>1. tasks'[q] = tasks[q] /\ answers'[q] = answers[q] /\ clean'[q] = clean[q] /\ head' = head
      BY <1>1, <2>1, <2>2, <2>4 DEF RpcTypeOK
    <3>. QED  BY <1>1, <3>1, RequestStays
  <2>5. RpcTypeOK'
    BY <1>1, <2>1, <2>2 DEF RpcTypeOK
  <2>6. QueuedOnce'
    <3>1. \A i \in DOMAIN requests : requests[i] \in Requests
      BY <1>1 DEF RpcTypeOK
    <3>2. \A q \in Requests : Idle(q) => Idle(q)'
      BY <1>1, <2>2 DEF Idle, RpcTypeOK
    <3>. QED  BY <1>1, <2>2, <3>1, <3>2 DEF QueuedOnce
  <2>. QED  BY <2>3, <2>4, <2>5, <2>6
<1>7. ASSUME NEW r \in Requests, NEW i \in DOMAIN tasks[r], Lookup(r, i) PROVE Goal
  <2>1. PICK result \in {Found(r, i), None} :
            /\ tasks' = [tasks EXCEPT ![r][i] = result]
            /\ clean' = [clean EXCEPT ![r] = @ /\ result # None]
    BY <1>7 DEF Lookup
  <2>2. UNCHANGED <<head, running, requests, answers>>
    BY <1>7 DEF Lookup
  <2>3. /\ ~Idle(r) /\ tasks[r] \in [1..Lookups(r) -> Results] /\ i \in 1..Lookups(r)
    <3>1. ~Idle(r)
      BY DEF Idle
    <3>. QED  BY <1>1, <3>1 DEF ResultsTyped
  <2>4. /\ tasks'[r] = [tasks[r] EXCEPT ![i] = result]
        /\ DOMAIN tasks'[r] = DOMAIN tasks[r] /\ tasks'[r][i] = result
        /\ \A j \in DOMAIN tasks[r] : j # i => tasks'[r][j] = tasks[r][j]
        /\ clean'[r] = (clean[r] /\ result # None)
    BY <1>1, <2>1, <2>3 DEF RpcTypeOK
  <2>5. ~Idle(r)'
    BY <2>3, <2>4 DEF Idle
  <2>6. result \in Results /\ (r.kind = "bodies" => result \in {None, r.hashes[i]})
    <3>1. Found(r, i) \in Hash \cup {None}
      BY <1>1, <2>3, FoundTyped DEF RpcTypeOK
    <3>. QED  BY <2>1, <3>1 DEF Results, Found
  <2>7. ResultsTyped(r)'
    <3>1. tasks'[r] \in [1..Lookups(r) -> Results]
      BY <2>3, <2>4, <2>6
    <3>2. ASSUME r.kind = "bodies", NEW j \in DOMAIN tasks[r]
          PROVE  tasks'[r][j] \in {"waiting", None, r.hashes[j]}
      BY <1>1, <2>3, <2>4, <2>6, <3>2 DEF ResultsTyped
    <3>. QED  BY <2>4, <3>1, <3>2 DEF ResultsTyped
  <2>8. ResultsClean(r)'
    <3>1. SUFFICES ASSUME clean'[r]
                   PROVE  /\ OnChain(r)'
                          /\ \A j \in DOMAIN tasks[r] :
                                tasks'[r][j] # None /\ tasks'[r][j] \in {"waiting", Found(r, j)'}
      BY <2>4 DEF ResultsClean
    <3>2. clean[r] /\ result # None /\ result = Found(r, i)
      BY <1>1, <2>1, <2>4, <3>1 DEF RpcTypeOK
    <3>3. /\ OnChain(r)
          /\ \A j \in DOMAIN tasks[r] : tasks[r][j] # None /\ tasks[r][j] \in {"waiting", Found(r, j)}
      BY <1>1, <2>3, <3>2 DEF ResultsClean
    <3>4. OnChain(r)' = OnChain(r) /\ \A j : Found(r, j)' = Found(r, j)
      BY <2>2 DEF OnChain, Found, Canonical
    <3>. QED  BY <2>4, <3>2, <3>3, <3>4 DEF OnChain
  <2>9. Good(r)
    BY <1>1, <2>2, <2>7, <2>8
  <2>10. ASSUME NEW q \in Requests, q # r PROVE Good(q)
    <3>1. tasks'[q] = tasks[q] /\ answers'[q] = answers[q] /\ clean'[q] = clean[q] /\ head' = head
      BY <1>1, <2>1, <2>2, <2>10 DEF RpcTypeOK
    <3>. QED  BY <1>1, <3>1, RequestStays
  <2>11. RpcTypeOK'
    BY <1>1, <2>1, <2>2 DEF RpcTypeOK
  <2>12. QueuedOnce'
    <3>1. \A k \in DOMAIN requests : requests[k] \in Requests
      BY <1>1 DEF RpcTypeOK
    <3>2. \A q \in Requests : Idle(q) => Idle(q)'
      BY <1>1, <2>1, <2>3 DEF Idle, RpcTypeOK
    <3>. QED  BY <1>1, <2>2, <3>1, <3>2 DEF QueuedOnce
  <2>. QED  BY <2>9, <2>10, <2>11, <2>12
<1>8. CASE Start
  <2>1. ASSUME NEW r \in Requests PROVE Good(r)
    BY <1>1, <1>8, RequestStays DEF Start
  <2>. QED  BY <1>1, <1>2, <1>8, <2>1 DEF Start, RpcTypeOK
<1>9. CASE Spawn
  <2>0. PICK r \in Requests : r = Head(requests)
    BY <1>1, <1>9 DEF Spawn, RpcTypeOK
  <2>1. /\ requests # <<>> /\ requests \in Seq(Requests)
        /\ 1 \in DOMAIN requests /\ requests[1] = r
        /\ requests' = Tail(requests) /\ UNCHANGED <<head, running, answers>>
        /\ tasks' = [tasks EXCEPT ![r] = [i \in 1..Lookups(r) |-> "waiting"]]
        /\ clean' = [clean EXCEPT ![r] = OnChain(r)]
    BY <1>1, <1>9, <2>0 DEF Spawn, RpcTypeOK
  <2>2. Lookups(r) \in Nat \ {0}
    BY LookupsPositive
  <2>3. /\ tasks'[r] = [i \in 1..Lookups(r) |-> "waiting"] /\ clean'[r] = OnChain(r)
        /\ tasks'[r] \in [1..Lookups(r) -> Results]
        /\ DOMAIN tasks'[r] = 1..Lookups(r) /\ \A i \in 1..Lookups(r) : tasks'[r][i] = "waiting"
    BY <1>1, <2>1 DEF RpcTypeOK, Results
  <2>4. Good(r)
    <3>1. OnChain(r)' = OnChain(r)
      BY <2>1 DEF OnChain
    <3>. QED  BY <1>1, <2>1, <2>3, <3>1, AdapterAssumption DEF ResultsTyped, ResultsClean
  <2>5. ASSUME NEW q \in Requests, q # r PROVE Good(q)
    <3>1. tasks'[q] = tasks[q] /\ answers'[q] = answers[q] /\ clean'[q] = clean[q] /\ head' = head
      BY <1>1, <2>1, <2>5 DEF RpcTypeOK
    <3>. QED  BY <1>1, <3>1, RequestStays
  <2>6. RpcTypeOK'
    <3>1. OnChain(r) \in BOOLEAN
      BY DEF OnChain
    <3>. QED  BY <1>1, <2>1, <3>1 DEF RpcTypeOK
  <2>7. QueuedOnce'
    <3>1. ASSUME NEW i \in DOMAIN requests'
          PROVE  i + 1 \in DOMAIN requests /\ requests'[i] = requests[i + 1] /\ i \in Nat /\ i # 0
      BY <2>1
    <3>2. ASSUME NEW i \in DOMAIN requests' PROVE requests'[i] \in Requests /\ requests'[i] # r
      BY <1>1, <2>1, <3>1 DEF QueuedOnce
    <3>3. ASSUME NEW i \in DOMAIN requests' PROVE tasks'[requests'[i]] = <<>>
      <4>1. tasks[requests'[i]] = <<>>
        BY <1>1, <3>1 DEF QueuedOnce, Idle
      <4>. QED  BY <1>1, <2>1, <3>2, <4>1 DEF RpcTypeOK
    <3>4. ASSUME NEW i \in DOMAIN requests', NEW j \in DOMAIN requests', requests'[i] = requests'[j]
          PROVE  i = j
      <4>1. i + 1 = j + 1
        BY <1>1, <3>1, <3>4 DEF QueuedOnce
      <4>. QED  BY <3>1, <4>1
    <3>. QED  BY <3>3, <3>4 DEF QueuedOnce, Idle
  <2>. QED  BY <2>4, <2>5, <2>6, <2>7
<1>. QED  BY <1>3, <1>4, <1>5, <1>6, <1>7, <1>8, <1>9 DEF RpcNext

\* Every answer of the RPC adapter is one that the future which asked can use,
\* however lookups fail and the chain of the node changes between them.
THEOREM AnswersStayUsable == RpcSpec => []AnswersUsable
<1>1. RpcInv => AnswersUsable
  BY DEF RpcInv, Usable, AnswersUsable, ServedRangeAccepted, BodiesAligned, WitnessOfCanonicalBlock
<1>. QED  BY <1>1, RpcInvInit, RpcInvStep, PTL DEF RpcSpec

-----------------------------------------------------------------------------
(* The RPC adapter in the place of the network manager.                    *)

\* Who holds r, from whether it has a task and whether it is in the channel.
HolderOf(idle, queued) == IF ~idle THEN "rpc" ELSE IF queued THEN "manager" ELSE "nobody"

InChannel(r) == \E i \in DOMAIN requests : requests[i] = r

LEMMA HolderIs ==
    /\ RpcHolder = [r \in Requests |-> HolderOf(Idle(r), InChannel(r))]
    /\ RpcHolder' = [r \in Requests |-> HolderOf(Idle(r)', InChannel(r)')]
  BY DEF RpcHolder, HolderOf, InChannel

\* The holder of a request stays the same if nothing happens to it.
LEMMA HolderUnchanged ==
    ASSUME NEW r \in Requests, Idle(r)' = Idle(r), InChannel(r)' = InChannel(r)
    PROVE  RpcHolder'[r] = RpcHolder[r]
  BY HolderIs DEF HolderOf

LEMMA RpcRefinementStep ==
    ASSUME RpcInv, RpcInv', [RpcNext]_rpcVars
    PROVE  Peers!AbsNext \/ UNCHANGED Peers!absVars
<1> DEFINE Goal == Peers!AbsNext \/ UNCHANGED Peers!absVars
           Available == IF running THEN {"rpc"} ELSE {}
<1>0. RpcTypeOK /\ QueuedOnce /\ RpcTypeOK' /\ QueuedOnce'
  BY DEF RpcInv
<1>1. ASSUME UNCHANGED <<requests, tasks>> PROVE RpcHolder' = RpcHolder
  BY <1>1 DEF RpcHolder, Idle
<1>2. CASE UNCHANGED <<running, requests, tasks>>
  BY <1>1, <1>2 DEF Peers!absVars
<1>3. CASE Start
  <2>1. RpcHolder' = RpcHolder /\ "rpc" \notin Available /\ Available' = Available \cup {"rpc"}
    BY <1>1, <1>3 DEF Start
  <2>2. Peers!Open("rpc")
    BY <2>1 DEF Peers!Open
  <2>. QED  BY <2>2 DEF Peers!AbsNext
<1>4. ASSUME NEW r \in Requests, Send(r) PROVE Goal
  <2>1. /\ requests' = Append(requests, r) /\ tasks' = tasks /\ running' = running
        /\ Idle(r) /\ ~InChannel(r) /\ requests \in Seq(Requests)
    BY <1>0, <1>4 DEF Send, InChannel, RpcTypeOK
  <2>2. Idle(r)' /\ InChannel(r)'
    BY <2>1 DEF Idle, InChannel
  <2>3. ASSUME NEW q \in Requests, q # r PROVE RpcHolder'[q] = RpcHolder[q]
    <3>1. Idle(q)' = Idle(q) /\ (InChannel(q)' <=> InChannel(q))
      BY <2>1, <2>3 DEF Idle, InChannel
    <3>. QED  BY <3>1, HolderUnchanged DEF InChannel
  <2>4. RpcHolder[r] = "nobody" /\ RpcHolder'[r] = "manager"
    BY <2>1, <2>2, HolderIs DEF HolderOf
  <2>5. RpcHolder' = [RpcHolder EXCEPT ![r] = "manager"]
    BY <2>3, <2>4, HolderIs
  <2>6. Peers!Ask(r)
    BY <2>1, <2>4, <2>5 DEF Peers!Ask, Peers!Nobody, Peers!Manager
  <2>. QED  BY <2>6 DEF Peers!AbsNext
<1>5. CASE Spawn
  <2>0. PICK r \in Requests : r = Head(requests)
    BY <1>0, <1>5 DEF Spawn, RpcTypeOK
  <2>1. /\ requests # <<>> /\ requests \in Seq(Requests) /\ requests' = Tail(requests)
        /\ running /\ running' = running
        /\ tasks' = [tasks EXCEPT ![r] = [i \in 1..Lookups(r) |-> "waiting"]]
        /\ DOMAIN tasks = Requests
    BY <1>0, <1>5, <2>0 DEF Spawn, RpcTypeOK
  <2>2. 1 \in DOMAIN requests /\ requests[1] = r /\ Idle(r) /\ InChannel(r)
    <3>1. 1 \in DOMAIN requests /\ requests[1] = r
      BY <2>0, <2>1
    <3>. QED  BY <1>0, <3>1 DEF QueuedOnce, InChannel
  <2>3. ~Idle(r)'
    BY <2>1, LookupsPositive DEF Idle
  <2>4. ASSUME NEW q \in Requests, q # r PROVE RpcHolder'[q] = RpcHolder[q]
    <3>1. Idle(q)' = Idle(q)
      BY <2>1, <2>4 DEF Idle
    <3>2. InChannel(q) => InChannel(q)'
      <4>1. SUFFICES ASSUME NEW i \in DOMAIN requests, requests[i] = q PROVE InChannel(q)'
        BY DEF InChannel
      <4>2. i # 1 /\ i \in 2..Len(requests)
        BY <2>1, <2>2, <2>4, <4>1
      <4>3. i - 1 \in DOMAIN requests' /\ requests'[i - 1] = requests[i]
        BY <2>1, <4>2
      <4>. QED  BY <4>1, <4>3 DEF InChannel
    <3>3. InChannel(q)' => InChannel(q)
      BY <2>1 DEF InChannel
    <3>. QED  BY <3>1, <3>2, <3>3, HolderUnchanged DEF InChannel
  <2>5. RpcHolder[r] = "manager" /\ RpcHolder'[r] = "rpc"
    BY <2>2, <2>3, HolderIs DEF HolderOf
  <2>6. RpcHolder' = [RpcHolder EXCEPT ![r] = "rpc"]
    BY <2>4, <2>5, HolderIs
  <2>7. Peers!Forward(r, "rpc")
    BY <2>1, <2>5, <2>6 DEF Peers!Forward, Peers!Manager
  <2>. QED  BY <2>7 DEF Peers!AbsNext
<1>6. ASSUME NEW r \in Requests, Reply(r) PROVE Goal
  <2>1. /\ ~Idle(r) /\ requests' = requests /\ running' = running
        /\ tasks' = [tasks EXCEPT ![r] = <<>>] /\ DOMAIN tasks = Requests
    BY <1>0, <1>6 DEF Reply, RpcTypeOK
  <2>2. Idle(r)' /\ ~InChannel(r)'
    BY <1>0, <2>1 DEF Idle, InChannel, QueuedOnce
  <2>3. ASSUME NEW q \in Requests, q # r PROVE RpcHolder'[q] = RpcHolder[q]
    <3>1. Idle(q)' = Idle(q) /\ InChannel(q)' = InChannel(q)
      BY <2>1, <2>3 DEF Idle, InChannel
    <3>. QED  BY <3>1, HolderUnchanged
  <2>4. RpcHolder[r] = "rpc" /\ RpcHolder'[r] = "nobody"
    BY <2>1, <2>2, HolderIs DEF HolderOf
  <2>5. RpcHolder' = [q \in Requests |-> IF q \in {r} THEN "nobody" ELSE RpcHolder[q]]
    BY <2>3, <2>4, HolderIs
  <2>6. Peers!Settle(r)
    BY <2>1, <2>4, <2>5 DEF Peers!Settle, Peers!Release, Peers!Nobody
  <2>. QED  BY <2>6 DEF Peers!AbsNext
<1>7. ASSUME NEW r \in Requests, NEW i \in DOMAIN tasks[r], Lookup(r, i) PROVE Goal
  <2>1. /\ DOMAIN tasks = Requests /\ requests' = requests /\ running' = running
        /\ \E result : tasks' = [tasks EXCEPT ![r][i] = result]
    BY <1>0, <1>7 DEF Lookup, RpcTypeOK
  <2>2. ~Idle(r) /\ tasks[r] \in [1..Lookups(r) -> Results]
    <3>1. ~Idle(r)
      BY DEF Idle
    <3>. QED  BY <3>1 DEF RpcInv, ResultsTyped
  <2>3. DOMAIN tasks'[r] = DOMAIN tasks[r] /\ \A q \in Requests : q # r => tasks'[q] = tasks[q]
    BY <2>1, <2>2
  <2>4. ASSUME NEW q \in Requests PROVE Idle(q)' = Idle(q) /\ InChannel(q)' = InChannel(q)
    <3>1. ~Idle(r)'
      BY <2>3 DEF Idle
    <3>. QED  BY <2>1, <2>2, <2>3, <3>1 DEF Idle, InChannel
  <2>5. RpcHolder' = RpcHolder
    BY <2>4, HolderIs
  <2>. QED  BY <2>1, <2>5 DEF Peers!absVars
<1>8. ASSUME NEW h \in Heads, Reorg(h) PROVE Goal
  BY <1>2, <1>8 DEF Reorg
<1>. QED  BY <1>2, <1>3, <1>4, <1>5, <1>6, <1>7, <1>8 DEF RpcNext, rpcVars

\* The RPC adapter implements PeerRequests, for any requests: each is held by
\* the channel, then by one task, and ends there.
THEOREM RpcImplementsPeerRequests == RpcSpec => Peers!AbsSpec
<1>1. RpcInit => Peers!AbsInit
  <2> SUFFICES ASSUME RpcInit PROVE Peers!AbsInit
    OBVIOUS
  <2>1. ~running /\ requests = <<>> /\ \A r \in Requests : Idle(r)
    BY DEF RpcInit, Idle
  <2>2. RpcHolder = [r \in Requests |-> "nobody"]
    BY <2>1 DEF RpcHolder
  <2>. QED  BY <2>1, <2>2 DEF Peers!AbsInit, Peers!Nobody
<1>2. RpcInv /\ RpcInv' /\ [RpcNext]_rpcVars => [Peers!AbsNext]_Peers!absVars
  BY RpcRefinementStep DEF Peers!absVars
<1>. QED  BY <1>1, <1>2, RpcInvInit, RpcInvStep, PTL DEF RpcSpec, Peers!AbsSpec
=============================================================================
