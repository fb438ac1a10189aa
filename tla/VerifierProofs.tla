--------------------------- MODULE VerifierProofs ---------------------------
(***************************************************************************)
(* The state root is right as far as the witness goes, and the verdict     *)
(* with it, for every state, update, block and witness, whatever the order *)
(* in which the threads finish.                                            *)
(***************************************************************************)
EXTENDS Verifier, FiniteSetTheorems, TLAPS

-----------------------------------------------------------------------------
(* The order of addresses.                                                 *)

\* A non-empty set of natural numbers has a least element.
LEMMA MinInSet ==
    ASSUME NEW S \in SUBSET Nat, S # {}
    PROVE  Min(S) \in S
<1>1. PICK n \in S : TRUE
  OBVIOUS
<1>. DEFINE N == 0 .. n
            U == {x \in S : x <= n}
            T == {0 .. x : x \in U}
<1>2. IsFiniteSet(N) /\ IsWellFoundedOn(StrictSubsetOrdering(N), FiniteSubsetsOf(N))
  BY FS_Interval, FS_StrictSubsetOrderingWellFounded
<1>3. \A x \in U : 0 .. x \in SUBSET N
  OBVIOUS
<1>4. \A x \in U : IsFiniteSet(0 .. x)
  BY <1>2, <1>3, FS_Subset
<1>5. T \subseteq FiniteSubsetsOf(N) /\ T # {}
  BY <1>3, <1>4 DEF FiniteSubsetsOf
<1>. HIDE DEF T
<1>6. PICK m \in T : \A t \in T : ~(<<t, m>> \in StrictSubsetOrdering(N))
  BY <1>2, <1>5, WFMin
<1>7. PICK x \in U : m = 0 .. x
  BY <1>6 DEF T
<1>8. ASSUME NEW y \in S, ~(x <= y) PROVE FALSE
  <2>1. y \in U /\ 0 .. y \in SUBSET N
    BY <1>3, <1>8
  <2>2. 0 .. y \subseteq 0 .. x /\ x \in 0 .. x /\ x \notin 0 .. y
    BY <1>8
  <2>3. <<0 .. y, 0 .. x>> \in StrictSubsetOrdering(N)
    BY <1>3, <2>1, <2>2 DEF StrictSubsetOrdering
  <2>4. 0 .. y \in T
    BY <2>1 DEF T
  <2>. QED  BY <1>6, <1>7, <2>3, <2>4
<1>9. \E z \in S : \A y \in S : z =< y
  BY <1>8
<1>. QED  BY <1>9 DEF Min

-----------------------------------------------------------------------------
(* The update of one storage trie.                                         *)

\* The trie that the thread of a takes, and what it may send.
Taken(a) ==
    IF state.storages[a].wiped \/ RevealedStorages(pre, witness)[a] = Absent THEN RevealedEmpty
    ELSE RevealedStorages(pre, witness)[a]

Fates(a) == UpdatedTries(Taken(a), state.storages[a].storage)

\* Revealed tries are tries of the state.
LEMMA RevealedTries ==
    ASSUME pre \in States, witness \in Witnesses, NEW a \in Addresses
    PROVE  /\ RevealedStorages(pre, witness)[a] \in Tries \cup {Absent}
           /\ RevealedStorages(pre, witness)[a] # Absent =>
                 /\ a \in witness.accounts /\ witness.slots[a] # Absent
                 /\ pre[a].storage # EmptyStorage
                 /\ RevealedStorages(pre, witness)[a] =
                       [content |-> pre[a].storage, revealed |-> witness.slots[a]]
           /\ a \in witness.accounts /\ witness.slots[a] # Absent /\ pre[a].storage # EmptyStorage =>
                 /\ RevealedStorages(pre, witness)[a] # Absent
                 /\ RevealedStorages(pre, witness)[a] =
                       [content |-> pre[a].storage, revealed |-> witness.slots[a]]
<1>. DEFINE found == a \in witness.accounts /\ witness.slots[a] # Absent /\ pre[a].storage # EmptyStorage
            trie == [content |-> pre[a].storage, revealed |-> witness.slots[a]]
<1>1. RevealedStorages(pre, witness)[a] = IF found THEN trie ELSE Absent
  BY DEF RevealedStorages
<1>2. ASSUME found PROVE trie \in Tries /\ trie # Absent
  <2>1. pre[a].storage \in [Slots -> Nat] /\ witness.slots[a] \in SUBSET Slots
    BY <1>2 DEF States, Witnesses
  <2>2. trie \in Tries
    BY <2>1 DEF Tries
  <2>. QED  BY <2>2, AbsentAssumption
<1>. QED  BY <1>1, <1>2

\* The thread has a trie, and sends one or an error.
LEMMA FatesTyped ==
    ASSUME pre \in States, witness \in Witnesses, StateUpdate(state), NEW a \in DOMAIN state.storages
    PROVE  a \in Addresses /\ Taken(a) \in Tries /\ Fates(a) \subseteq Tries \cup {Absent}
<1>1. a \in Addresses
  BY DEF StateUpdate
<1>2. RevealedEmpty \in Tries
  BY DEF RevealedEmpty, Tries, EmptyStorage
<1>3. Taken(a) \in Tries
  BY <1>1, <1>2, RevealedTries DEF Taken
<1>. DEFINE trie == Taken(a)
            changes == state.storages[a].storage
            hidden == DOMAIN changes \ trie.revealed
            content == [s \in Slots |-> IF s \in DOMAIN changes \ hidden THEN changes[s]
                                        ELSE trie.content[s]]
<1>4. [trie EXCEPT !.content = content] \in Tries
  <2>1. \A s \in DOMAIN changes : changes[s] \in Nat
    BY DEF StateUpdate
  <2>. HIDE DEF changes, trie
  <2>2. content \in [Slots -> Nat]
    BY <1>3, <2>1 DEF Tries, trie
  <2>. HIDE DEF content
  <2>. QED  BY <1>3, <2>2 DEF Tries, trie
<1>5. Fates(a) \subseteq {[trie EXCEPT !.content = content]} \cup {Absent}
  BY DEF Fates, UpdatedTries
<1>. QED  BY <1>1, <1>3, <1>4, <1>5

\* When the witness covers the account, the updated trie is the storage after
\* the update, and with the siblings there is no error.
LEMMA FatesExact ==
    ASSUME pre \in States, witness \in Witnesses, StateUpdate(state), NEW a \in DOMAIN state.storages,
           Covers(witness, pre, state, a)
    PROVE  /\ \A trie \in Fates(a) \ {Absent} : trie.content = PostStorage(pre, state, a)
           /\ witness.siblings => Absent \notin Fates(a)
<1>. DEFINE taken == Taken(a)
            changes == state.storages[a].storage
            hidden == DOMAIN changes \ taken.revealed
            content == [s \in Slots |-> IF s \in DOMAIN changes \ hidden THEN changes[s]
                                        ELSE taken.content[s]]
<1>1. a \in Addresses /\ taken \in Tries
  BY FatesTyped
<1>2. DOMAIN changes \subseteq Slots
  BY DEF StateUpdate
<1>3. ASSUME state.storages[a].wiped \/ pre[a].storage = EmptyStorage
      PROVE  hidden = {} /\ content = PostStorage(pre, state, a)
  <2>1. taken = RevealedEmpty
    BY <1>1, <1>3, RevealedTries DEF Taken
  <2>2. taken.content = EmptyStorage /\ taken.revealed = Slots
    BY <2>1 DEF RevealedEmpty
  <2>3. hidden = {}
    BY <1>2, <2>2
  <2>4. content = PostStorage(pre, state, a)
    BY <1>3, <2>2, <2>3 DEF PostStorage, EmptyStorage
  <2>. QED  BY <2>3, <2>4
<1>4. ASSUME ~state.storages[a].wiped /\ pre[a].storage # EmptyStorage
      PROVE  hidden = {} /\ content = PostStorage(pre, state, a)
  <2>1. /\ a \in witness.accounts /\ witness.slots[a] # Absent
        /\ DOMAIN changes \subseteq witness.slots[a]
    BY <1>4 DEF Covers
  <2>2. taken = [content |-> pre[a].storage, revealed |-> witness.slots[a]]
    BY <1>1, <1>4, <2>1, RevealedTries DEF Taken
  <2>3. taken.content = pre[a].storage /\ hidden = {}
    BY <2>1, <2>2
  <2>4. content = PostStorage(pre, state, a)
    BY <1>4, <2>3 DEF PostStorage
  <2>. QED  BY <2>3, <2>4
<1>5. hidden = {} /\ content = PostStorage(pre, state, a)
  BY <1>3, <1>4
<1>6. Fates(a) = {Absent : s \in hidden \cup IF witness.siblings THEN {} ELSE {s \in DOMAIN changes : changes[s] = 0}}
        \cup IF hidden \subseteq {s \in DOMAIN changes : changes[s] = 0}
             THEN {[taken EXCEPT !.content = content]} ELSE {}
  BY DEF Fates, UpdatedTries
<1>7. [taken EXCEPT !.content = content] \in Tries
  <2>1. content \in [Slots -> Nat]
    <3>1. \A s \in DOMAIN changes : changes[s] \in Nat
      BY DEF StateUpdate
    <3>. HIDE DEF changes, taken
    <3>. QED  BY <1>1, <3>1 DEF Tries
  <2>. HIDE DEF content, taken
  <2>. QED  BY <1>1, <2>1 DEF Tries
<1>8. [taken EXCEPT !.content = content].content = content
  <2>. HIDE DEF content, taken
  <2>. QED  BY <1>1 DEF Tries
<1>. HIDE DEF hidden, content, taken, changes
<1>. QED  BY <1>5, <1>6, <1>7, <1>8, AbsentAssumption

-----------------------------------------------------------------------------
(* The inductive invariant of calculate_state_root.                        *)

Sent == {results[i].address : i \in DOMAIN results}

RootTypeOK ==
    /\ pre \in States /\ witness \in Witnesses /\ StateUpdate(state)
    /\ accounts \in States
    /\ storages \in [Addresses -> Tries \cup {Absent}]
    /\ todo \subseteq DOMAIN state.storages
    /\ results \in Seq([address : DOMAIN state.storages, trie : Tries \cup {Absent}])
    /\ pending \subseteq DOMAIN state.accounts
    /\ status \in {"running", "failed", "done"}

\* A storage trie is where it was, on its way, or put back as updated.
StoragesTracked ==
    /\ \A i \in DOMAIN results : results[i].trie \in Fates(results[i].address)
    /\ \A a \in todo \cup (Addresses \ DOMAIN state.storages) :
          storages[a] = RevealedStorages(pre, witness)[a]
    /\ status # "failed" =>
          \A a \in DOMAIN state.storages \ (todo \cup Sent) : storages[a] \in Fates(a) \ {Absent}

\* An account is as it was until it is written, and then right if covered.
AccountsTracked ==
    /\ \A a \in pending \cup (Addresses \ DOMAIN state.accounts) : accounts[a] = pre[a]
    /\ status # "failed" =>
          \A a \in DOMAIN state.accounts \ pending :
             Covers(witness, pre, state, a) => accounts[a] = PostState(pre, state)[a]
    /\ status = "done" => pending = {}

RootInv == RootTypeOK /\ StoragesTracked /\ AccountsTracked /\ CoveredUpdateSucceeds

\* What a step of the call cannot change.
LEMMA SameFates ==
    ASSUME UNCHANGED <<pre, witness, state>>
    PROVE  \A a : Fates(a)' = Fates(a)
  BY DEF Fates, Taken, UpdatedTries, RevealedStorages

\* A thread takes and sends a storage trie.
LEMMA UpdateStorageStep ==
    ASSUME RootInv, NEW b \in Addresses, UpdateStorage(b)
    PROVE  RootInv'
<1>1. /\ b \in todo /\ b \in DOMAIN state.storages /\ todo' = todo \ {b}
      /\ storages' = [storages EXCEPT ![b] = Absent]
      /\ UNCHANGED <<pre, witness, state, accounts, pending, status>>
  BY DEF UpdateStorage, RootInv, RootTypeOK
<1>2. RootTypeOK /\ StoragesTracked /\ AccountsTracked /\ CoveredUpdateSucceeds
  BY DEF RootInv
<1>3. storages[b] = RevealedStorages(pre, witness)[b]
  BY <1>1, <1>2 DEF StoragesTracked
<1>4. PICK result \in Fates(b) : results' = Append(results, [address |-> b, trie |-> result])
  BY <1>3 DEF UpdateStorage, Fates, Taken
<1>5. Fates(b) \subseteq Tries \cup {Absent}
  BY <1>1, <1>2, FatesTyped DEF RootTypeOK
<1>. DEFINE sent == [address |-> b, trie |-> result]
<1>6. sent \in [address : DOMAIN state.storages, trie : Tries \cup {Absent}]
      /\ sent.address = b /\ sent.trie = result
  BY <1>1, <1>4, <1>5
<1>. HIDE DEF sent
<1>7. results' = Append(results, sent)
      /\ results \in Seq([address : DOMAIN state.storages, trie : Tries \cup {Absent}])
  BY <1>2, <1>4 DEF sent, RootTypeOK
<1>8. /\ results' \in Seq([address : DOMAIN state.storages, trie : Tries \cup {Absent}])
      /\ DOMAIN results' = 1..(Len(results) + 1) /\ DOMAIN results = 1..Len(results)
      /\ Len(results) \in Nat
      /\ \A i \in DOMAIN results : results'[i] = results[i]
      /\ results'[Len(results) + 1] = sent
  BY <1>6, <1>7
<1>9. RootTypeOK'
  BY <1>1, <1>2, <1>8 DEF RootTypeOK
<1>10. Sent' = Sent \cup {b}
  BY <1>6, <1>8 DEF Sent
<1>11. \A a : Fates(a)' = Fates(a)
  BY <1>1, SameFates
<1>12. StoragesTracked'
  <2>1. \A i \in DOMAIN results' : results'[i].trie \in Fates(results'[i].address)
    BY <1>2, <1>4, <1>6, <1>8 DEF StoragesTracked
  <2>2. \A a \in todo' \cup (Addresses \ DOMAIN state.storages) :
           storages'[a] = RevealedStorages(pre, witness)[a]
    BY <1>1, <1>2 DEF StoragesTracked, RootTypeOK, StateUpdate
  <2>3. status # "failed" =>
           \A a \in DOMAIN state.storages \ (todo' \cup Sent') : storages'[a] \in Fates(a) \ {Absent}
    BY <1>1, <1>2, <1>10 DEF StoragesTracked, RootTypeOK, StateUpdate
  <2>. QED  BY <1>1, <1>11, <2>1, <2>2, <2>3 DEF StoragesTracked
<1>13. AccountsTracked' /\ CoveredUpdateSucceeds'
  BY <1>1, <1>2 DEF AccountsTracked, CoveredUpdateSucceeds
<1>. QED  BY <1>9, <1>12, <1>13 DEF RootInv

\* What a thread sent is put back, or ends the call.
LEMMA InsertStorageTrieStep ==
    ASSUME RootInv, InsertStorageTrie
    PROVE  RootInv'
<1>. DEFINE result == Head(results)
            b == result.address
<1>1. /\ todo = {} /\ results # <<>> /\ status = "running" /\ results' = Tail(results)
      /\ UNCHANGED <<pre, witness, accounts, state, todo, pending>>
      /\ \/ result.trie = Absent /\ status' = "failed" /\ UNCHANGED storages
         \/ /\ result.trie # Absent
            /\ storages' = [storages EXCEPT ![b] = result.trie] /\ UNCHANGED status
  BY DEF InsertStorageTrie
<1>2. RootTypeOK /\ StoragesTracked /\ AccountsTracked /\ CoveredUpdateSucceeds
  BY DEF RootInv
<1>3. /\ results \in Seq([address : DOMAIN state.storages, trie : Tries \cup {Absent}])
      /\ result = results[1] /\ 1 \in DOMAIN results
      /\ results' \in Seq([address : DOMAIN state.storages, trie : Tries \cup {Absent}])
      /\ Len(results) \in Nat /\ DOMAIN results = 1..Len(results)
      /\ DOMAIN results' = 1..(Len(results) - 1)
      /\ \A i \in DOMAIN results' : results'[i] = results[i + 1] /\ i + 1 \in DOMAIN results
  BY <1>1, <1>2 DEF RootTypeOK
<1>4. /\ result \in [address : DOMAIN state.storages, trie : Tries \cup {Absent}]
      /\ b \in DOMAIN state.storages /\ result.trie \in Tries \cup {Absent} /\ result.trie \in Fates(b)
  <2>1. result \in [address : DOMAIN state.storages, trie : Tries \cup {Absent}]
    <3>. DEFINE R == [address : DOMAIN state.storages, trie : Tries \cup {Absent}]
    <3>1. results \in Seq(R) /\ 1 \in DOMAIN results /\ result = results[1]
      BY <1>3
    <3>. HIDE DEF R, result
    <3>2. result \in R
      BY <3>1
    <3>. QED  BY <3>2 DEF R
  <2>2. result.trie \in Fates(b)
    BY <1>2, <1>3 DEF StoragesTracked
  <2>. QED
    <3>. HIDE DEF result
    <3>. QED  BY <2>1, <2>2
<1>. HIDE DEF result
<1>5. Sent = Sent' \cup {b}
  <2>1. ASSUME NEW i \in DOMAIN results, i # 1
        PROVE  i - 1 \in DOMAIN results' /\ results[i] = results'[i - 1]
    BY <1>3, <2>1
  <2>2. Sent \subseteq Sent' \cup {b}
    BY <1>3, <2>1 DEF Sent
  <2>3. Sent' \subseteq Sent /\ b \in Sent
    BY <1>3 DEF Sent
  <2>. QED  BY <2>2, <2>3
<1>6. \A a : Fates(a)' = Fates(a)
  BY <1>1, SameFates
<1>7. RootTypeOK'
  BY <1>1, <1>2, <1>3, <1>4 DEF RootTypeOK
<1>8. \A i \in DOMAIN results' : results'[i].trie \in Fates(results'[i].address)
  BY <1>2, <1>3 DEF StoragesTracked
<1>9. CASE result.trie = Absent /\ status' = "failed" /\ UNCHANGED storages
  <2>1. StoragesTracked'
    BY <1>1, <1>2, <1>6, <1>8, <1>9 DEF StoragesTracked
  <2>2. AccountsTracked'
    BY <1>1, <1>2, <1>9 DEF AccountsTracked
  <2>3. witness.siblings => ~Covers(witness, pre, state, b)
    BY <1>2, <1>4, <1>9, FatesExact DEF RootTypeOK
  <2>4. b \in DOMAIN state.accounts
    BY <1>2, <1>4 DEF RootTypeOK, StateUpdate
  <2>5. ~witness.siblings \/ \E a \in DOMAIN state.accounts : ~Covers(witness, pre, state, a)
    BY <2>3, <2>4
  <2>6. CoveredUpdateSucceeds'
    BY <1>1, <2>5 DEF CoveredUpdateSucceeds, Covers
  <2>. QED  BY <1>7, <2>1, <2>2, <2>6 DEF RootInv
<1>10. CASE result.trie # Absent /\ storages' = [storages EXCEPT ![b] = result.trie] /\ UNCHANGED status
  <2>1. \A a \in Addresses \ DOMAIN state.storages : storages'[a] = RevealedStorages(pre, witness)[a]
    BY <1>2, <1>4, <1>10 DEF StoragesTracked, RootTypeOK
  <2>2. \A a \in DOMAIN state.storages \ Sent' : storages'[a] \in Fates(a) \ {Absent}
    BY <1>1, <1>2, <1>4, <1>5, <1>10 DEF StoragesTracked, RootTypeOK, StateUpdate
  <2>3. StoragesTracked'
    BY <1>1, <1>6, <1>8, <2>1, <2>2 DEF StoragesTracked
  <2>4. AccountsTracked' /\ CoveredUpdateSucceeds'
    BY <1>1, <1>2, <1>10 DEF AccountsTracked, CoveredUpdateSucceeds
  <2>. QED  BY <1>7, <2>3, <2>4 DEF RootInv
<1>. QED  BY <1>1, <1>9, <1>10

\* An account is written, with the storage root that is known by then.
LEMMA UpdateAccountStep ==
    ASSUME RootInv, UpdateAccount
    PROVE  RootInv'
<1>. DEFINE b == Min(pending)
            removed == Written(b) = EmptyAccount
<1>1. /\ todo = {} /\ results = <<>> /\ status = "running" /\ pending # {}
      /\ pending' = pending \ {b}
      /\ \/ /\ b \in witness.accounts
            /\ accounts' = [accounts EXCEPT ![b] = Written(b)]
            /\ UNCHANGED status
         \/ /\ b \notin witness.accounts
            /\ UNCHANGED <<accounts, status>>
         \/ /\ b \notin witness.accounts \/ ~witness.siblings
            /\ status' = "failed"
            /\ UNCHANGED accounts
      /\ UNCHANGED <<pre, witness, storages, state, todo, results>>
  BY DEF UpdateAccount
<1>2. RootTypeOK /\ StoragesTracked /\ AccountsTracked /\ CoveredUpdateSucceeds
  BY DEF RootInv
<1>3. b \in pending
  <2>1. pending \in SUBSET Nat
    BY <1>2, StateAssumption DEF RootTypeOK, StateUpdate
  <2>. QED  BY <1>1, <2>1, MinInSet
<1>. HIDE DEF b
<1>4. b \in DOMAIN state.accounts /\ b \in Addresses /\ accounts[b] = pre[b]
  BY <1>2, <1>3 DEF RootTypeOK, StateUpdate, AccountsTracked
<1>5. StorageRoot(b) \in [Slots -> Nat]
  <2>1. storages[b] \in Tries \cup {Absent} /\ accounts[b].storage \in [Slots -> Nat]
    BY <1>2, <1>4 DEF RootTypeOK, States
  <2>2. storages[b] # Absent => storages[b].content \in [Slots -> Nat]
    BY <2>1 DEF Tries
  <2>3. EmptyStorage \in [Slots -> Nat]
    BY DEF EmptyStorage
  <2>. QED  BY <2>1, <2>2, <2>3 DEF StorageRoot
<1>6. Written(b) \in [info : Nat, storage : [Slots -> Nat]]
  BY <1>2, <1>4, <1>5 DEF Written, RootTypeOK, StateUpdate
<1>7. Covers(witness, pre, state, b) => Written(b) = PostState(pre, state)[b]
  <2>. SUFFICES ASSUME Covers(witness, pre, state, b)
                PROVE  Written(b) = PostState(pre, state)[b]
    OBVIOUS
  <2>1. b \in witness.accounts
    BY DEF Covers
  <2>2. CASE b \in DOMAIN state.storages
    <3>1. storages[b] \in Fates(b) \ {Absent}
      BY <1>1, <1>2, <2>2 DEF StoragesTracked, Sent
    <3>2. StorageRoot(b) = storages[b].content
      BY <3>1 DEF StorageRoot
    <3>3. storages[b].content = PostStorage(pre, state, b)
      BY <1>2, <2>2, <3>1, FatesExact DEF RootTypeOK
    <3>. QED  BY <1>4, <3>2, <3>3 DEF Written, PostState
  <2>3. CASE b \notin DOMAIN state.storages
    <3>1. storages[b] = RevealedStorages(pre, witness)[b]
      BY <1>2, <1>4, <2>3 DEF StoragesTracked
    <3>2. storages[b] # Absent => storages[b].content = pre[b].storage
      <4>1. pre \in States /\ witness \in Witnesses
        BY <1>2 DEF RootTypeOK
      <4>2. storages[b] # Absent =>
               storages[b] = [content |-> pre[b].storage, revealed |-> witness.slots[b]]
        BY <1>4, <3>1, <4>1, RevealedTries
      <4>. QED  BY <4>2
    <3>3. StorageRoot(b) = pre[b].storage
      BY <1>4, <2>1, <3>2 DEF StorageRoot
    <3>4. PostStorage(pre, state, b) = pre[b].storage
      BY <2>3 DEF PostStorage
    <3>. QED  BY <1>4, <3>3, <3>4 DEF Written, PostState
  <2>. QED  BY <2>2, <2>3
<1>8. b \notin witness.accounts => ~Covers(witness, pre, state, b)
  BY DEF Covers
<1>9. RootTypeOK'
  <2>1. accounts' \in States
    BY <1>1, <1>2, <1>4, <1>6 DEF RootTypeOK, States
  <2>. QED  BY <1>1, <1>2, <2>1 DEF RootTypeOK
<1>10. StoragesTracked'
  <2>1. \A a : Fates(a)' = Fates(a)
    BY <1>1, SameFates
  <2>2. Sent' = Sent
    BY <1>1 DEF Sent
  <2>. QED  BY <1>1, <1>2, <2>1, <2>2 DEF StoragesTracked
<1>11. AccountsTracked'
  <2>1. \A a \in pending' \cup (Addresses \ DOMAIN state.accounts) : accounts'[a] = pre[a]
    BY <1>1, <1>2, <1>4 DEF AccountsTracked, RootTypeOK, States, StateUpdate
  <2>2. ASSUME status' # "failed", NEW a \in DOMAIN state.accounts \ pending',
               Covers(witness, pre, state, a)
        PROVE  accounts'[a] = PostState(pre, state)[a]
    <3>1. CASE a = b
      BY <1>1, <1>2, <1>4, <1>7, <1>8, <2>2, <3>1 DEF RootTypeOK, States
    <3>2. CASE a # b
      <4>1. accounts[a] = PostState(pre, state)[a]
        BY <1>1, <1>2, <2>2, <3>2 DEF AccountsTracked
      <4>2. accounts'[a] = accounts[a]
        BY <1>1, <1>2, <3>2 DEF RootTypeOK, StateUpdate, States
      <4>. QED  BY <4>1, <4>2
    <3>. QED  BY <3>1, <3>2
  <2>3. status' # "done"
    BY <1>1
  <2>. QED  BY <1>1, <2>1, <2>2, <2>3 DEF AccountsTracked
<1>12. CoveredUpdateSucceeds'
  <2>1. status' = "failed" =>
           ~witness.siblings \/ \E a \in DOMAIN state.accounts : ~Covers(witness, pre, state, a)
    BY <1>1, <1>4, <1>8
  <2>. QED  BY <1>1, <2>1 DEF CoveredUpdateSucceeds
<1>. QED  BY <1>9, <1>10, <1>11, <1>12 DEF RootInv

\* Every step of the call keeps the invariant.
LEMMA RootStep ==
    ASSUME RootInv, CalculateStateRoot \/ UNCHANGED <<trieVars, callVars>>
    PROVE  RootInv'
<1>1. ASSUME NEW a \in Addresses, UpdateStorage(a) PROVE RootInv'
  BY <1>1, UpdateStorageStep
<1>2. CASE InsertStorageTrie
  BY <1>2, InsertStorageTrieStep
<1>3. CASE UpdateAccount
  BY <1>3, UpdateAccountStep
<1>4. CASE Finish \/ UNCHANGED <<trieVars, callVars>>
  <2>1. /\ UNCHANGED <<trieVars, state, todo, results, pending>>
        /\ status' = "failed" => status = "failed" \/ witness.accounts = {}
        /\ status = "failed" => status' = "failed"
        /\ status' = "done" => pending = {} \/ status = "done"
        /\ status' \in {"failed", "done", status}
    BY <1>4 DEF Finish, callVars
  <2>2. UNCHANGED <<pre, witness, accounts, storages, state, todo, results, pending>>
    BY <2>1 DEF trieVars
  <2>3. (\A a : Fates(a)' = Fates(a)) /\ Sent' = Sent
    BY <2>2, SameFates DEF Sent
  <2>4. RootTypeOK'
    BY <2>1, <2>2 DEF RootInv, RootTypeOK
  <2>5. StoragesTracked'
    BY <2>1, <2>2, <2>3 DEF RootInv, StoragesTracked
  <2>6. AccountsTracked'
    BY <2>1, <2>2 DEF RootInv, AccountsTracked
  <2>7. CoveredUpdateSucceeds'
    BY <2>1, <2>2 DEF RootInv, CoveredUpdateSucceeds
  <2>. QED  BY <2>4, <2>5, <2>6, <2>7 DEF RootInv
<1>. QED  BY <1>1, <1>2, <1>3, <1>4 DEF CalculateStateRoot

\* The start of a call, on a trie that has just been revealed.
LEMMA RootStarts == RootStart => RootInv
<1>. SUFFICES ASSUME RootStart PROVE RootInv
  OBVIOUS
<1>1. RootTypeOK
  <2>1. storages \in [Addresses -> Tries \cup {Absent}]
    <3>1. \A a \in Addresses : RevealedStorages(pre, witness)[a] \in Tries \cup {Absent}
      BY RevealedTries DEF RootStart
    <3>. QED  BY <3>1 DEF RootStart, RevealedStorages
  <2>. QED  BY <2>1 DEF RootStart, RootTypeOK
<1>2. StoragesTracked
  BY DEF RootStart, StoragesTracked
<1>3. AccountsTracked /\ CoveredUpdateSucceeds
  BY DEF RootStart, AccountsTracked, CoveredUpdateSucceeds
<1>. QED  BY <1>1, <1>2, <1>3 DEF RootInv

\* Finished, the accounts that the witness covers or that do not change are
\* those of the reference.
LEMMA RootExact ==
    ASSUME RootInv
    PROVE  StateRootExact
<1>1. ASSUME status = "done", NEW a \in Addresses,
             a \notin DOMAIN state.accounts \/ Covers(witness, pre, state, a)
      PROVE  accounts[a] = PostState(pre, state)[a]
  <2>1. pending = {}
    BY <1>1 DEF RootInv, AccountsTracked
  <2>2. CASE a \in DOMAIN state.accounts
    BY <1>1, <2>1, <2>2 DEF RootInv, AccountsTracked
  <2>3. CASE a \notin DOMAIN state.accounts
    BY <1>1, <2>3 DEF RootInv, AccountsTracked, PostState
  <2>. QED  BY <2>2, <2>3
<1>2. RootExactWhereCovered
  BY <1>1 DEF RootExactWhereCovered
<1>. QED  BY <1>2 DEF StateRootExact, RootInv

\* calculate_state_root, for every state, update and witness and every order in
\* which the threads finish: what the result says of an account is right if
\* the witness covers the account or the update does not change it, and there
\* is a result when the witness covers the update and has the siblings.
THEOREM StateRootStaysExact == RootSpec => []StateRootExact
<1>1. RootStart => RootInv
  BY RootStarts
<1>2. RootInv /\ [CalculateStateRoot]_<<trieVars, callVars>> => RootInv'
  BY RootStep
<1>3. RootInv => StateRootExact
  BY RootExact
<1>. QED  BY <1>1, <1>2, <1>3, PTL DEF RootSpec

-----------------------------------------------------------------------------
(* The verdict.                                                            *)

\* The parts of verify before the root is calculated, in order.
Before == {"validate", "witness", "execution"}

\* The inductive invariant: the trie is the revealed one until the root is
\* calculated, and with a complete witness what is calculated then is the
\* root after the right update.
VerifyInv ==
    /\ pre \in States /\ witness \in Witnesses /\ block.transaction \in Transactions
    /\ stage \in Before \cup {"root", "end"}
    /\ stage \in Before => accounts = pre /\ results = <<>>
    /\ stage # "end" => verdict = Absent
    /\ stage \in {"witness", "execution", "root"} => block.rules
    /\ stage = "execution" => storages = RevealedStorages(pre, witness)
    /\ stage = "root" =>
          /\ RootInv
          /\ DOMAIN state.accounts = {block.transaction.to}
          /\ \A a \in DOMAIN state.storages : DOMAIN state.storages[a].storage = {Slot}
          /\ TrieComplete =>
                /\ CanSend(pre, block.transaction)
                /\ state = Output(pre, block.transaction).state
                /\ block.receipts = Output(pre, block.transaction).receipts
    /\ CompleteWitnessSound
    /\ CompleteProofDecides

\* On a complete witness the database answers what the state holds.
LEMMA DatabaseExact ==
    ASSUME VerifyInv, stage = "execution"
    PROVE  /\ WitnessDatabase \in States
           /\ TrieComplete =>
                 /\ CanSend(WitnessDatabase, block.transaction) = CanSend(pre, block.transaction)
                 /\ Output(WitnessDatabase, block.transaction) = Output(pre, block.transaction)
<1>. DEFINE tx == block.transaction
<1>1. /\ pre \in States /\ witness \in Witnesses /\ accounts = pre
      /\ storages = RevealedStorages(pre, witness)
      /\ tx.from \in Addresses /\ tx.to \in Addresses
  BY DEF VerifyInv, Before, Transactions
<1>2. ASSUME NEW a \in Addresses
      PROVE  /\ Basic(a) \in Nat
             /\ \A s \in Slots : StorageAt(a, s) \in Nat
  <2>1. Basic(a) \in Nat
    BY <1>1 DEF Basic, States
  <2>2. storages[a] \in Tries \cup {Absent}
    BY <1>1, RevealedTries
  <2>3. \A s \in Slots : StorageAt(a, s) \in Nat
    BY <2>2 DEF StorageAt, Tries
  <2>. QED  BY <2>1, <2>3
<1>3. WitnessDatabase \in States
  BY <1>2 DEF WitnessDatabase, States
<1>4. ASSUME TrieComplete, NEW a \in {tx.from, tx.to}
      PROVE  Basic(a) = pre[a].info /\ StorageAt(a, Slot) = pre[a].storage[Slot]
  <2>1. /\ a \in Addresses /\ a \in witness.accounts
        /\ pre[a].storage # EmptyStorage => witness.slots[a] # Absent /\ Slot \in witness.slots[a]
    BY <1>1, <1>4 DEF TrieComplete
  <2>2. Basic(a) = pre[a].info
    BY <1>1, <2>1 DEF Basic
  <2>3. CASE pre[a].storage = EmptyStorage
    <3>1. storages[a] = Absent
      BY <1>1, <2>1, <2>3, RevealedTries
    <3>. QED  BY <2>2, <2>3, <3>1, SlotAssumption DEF StorageAt, EmptyStorage
  <2>4. CASE pre[a].storage # EmptyStorage
    <3>1. /\ storages[a] # Absent
          /\ storages[a] = [content |-> pre[a].storage, revealed |-> witness.slots[a]]
      BY <1>1, <2>1, <2>4, RevealedTries
    <3>2. storages[a].content = pre[a].storage /\ storages[a].revealed = witness.slots[a]
      BY <3>1
    <3>. QED  BY <2>1, <2>2, <2>4, <3>1, <3>2 DEF StorageAt
  <2>. QED  BY <2>3, <2>4
<1>5. ASSUME TrieComplete, NEW a \in {tx.from, tx.to}
      PROVE  /\ WitnessDatabase[a].info = pre[a].info
             /\ WitnessDatabase[a].storage[Slot] = pre[a].storage[Slot]
  BY <1>1, <1>4, <1>5, SlotAssumption DEF WitnessDatabase
<1>6. TrieComplete =>
         /\ CanSend(WitnessDatabase, tx) = CanSend(pre, tx)
         /\ Output(WitnessDatabase, tx) = Output(pre, tx)
  BY <1>5 DEF CanSend, Output
<1>. QED  BY <1>3, <1>6

\* What the transaction changes: its receiver, and one slot of it.
LEMMA OutputUpdate ==
    ASSUME NEW world \in States, NEW tx \in Transactions
    PROVE  /\ StateUpdate(Output(world, tx).state)
           /\ DOMAIN Output(world, tx).state.accounts = {tx.to}
           /\ DOMAIN Output(world, tx).state.storages = {tx.to}
           /\ DOMAIN Output(world, tx).state.storages[tx.to].storage = {Slot}
<1>. DEFINE value == world[tx.from].storage[Slot]
            info == IF world[tx.to].info = 0 THEN 1 ELSE world[tx.to].info
            out == [accounts |-> [a \in {tx.to} |-> info],
                    storages |-> [a \in {tx.to} |->
                                     [wiped |-> FALSE, storage |-> [s \in {Slot} |-> value]]]]
<1>1. tx.from \in Addresses /\ tx.to \in Addresses
  BY DEF Transactions
<1>2. value \in Nat /\ info \in Nat
  BY <1>1, SlotAssumption DEF States
<1>3. Output(world, tx).state = out
  BY DEF Output
<1>. HIDE DEF value, info
<1>4. /\ DOMAIN out.accounts = {tx.to} /\ out.accounts[tx.to] = info
      /\ DOMAIN out.storages = {tx.to}
      /\ DOMAIN out.storages[tx.to].storage = {Slot}
      /\ out.storages[tx.to].storage[Slot] = value
  OBVIOUS
<1>. HIDE DEF out
<1>5. StateUpdate(out)
  BY <1>1, <1>2, <1>4, SlotAssumption DEF StateUpdate
<1>. QED  BY <1>3, <1>4, <1>5

\* What a verdict depends on besides the verdict.
LEMMA SameBlock ==
    ASSUME UNCHANGED <<pre, witness, block, proof>>
    PROVE  TrulyValid' = TrulyValid /\ TrieComplete' = TrieComplete
  BY DEF TrulyValid, TrieComplete

\* Until there is a verdict nothing is claimed about it.
LEMMA NoVerdictYet == verdict = Absent => CompleteWitnessSound /\ CompleteProofDecides
  BY VerdictAssumption DEF CompleteWitnessSound, CompleteProofDecides

\* A verdict ends the call; it has to be the right one.
LEMMA VerdictStep ==
    ASSUME VerifyInv, UNCHANGED <<pre, witness, block, proof>>, stage' = "end",
           TrieComplete /\ verdict' = "Valid" => TrulyValid,
           TrieComplete /\ verdict' = "Invalid" => ~TrulyValid,
           verdict' = "Fatal" =>
               \/ ~TrieComplete \/ ~witness.siblings
               \/ proof.malformed \/ ~proof.bytecodes
               \/ block.transaction.block_hash = "unknown"
    PROVE  VerifyInv'
<1>1. CompleteWitnessSound' /\ CompleteProofDecides'
  BY SameBlock DEF CompleteWitnessSound, CompleteProofDecides
<1>. QED  BY <1>1 DEF VerifyInv, Before

\* The block is executed.
LEMMA ExecuteBlockStep ==
    ASSUME VerifyInv, ExecuteBlock
    PROVE  VerifyInv'
<1>. DEFINE tx == block.transaction
            output == Output(WitnessDatabase, tx)
<1>1. /\ stage = "execution" /\ UNCHANGED <<pre, witness, accounts, storages, results, block, proof>>
      /\ \/ ~CanSend(WitnessDatabase, tx) /\ verdict' = "Invalid" /\ stage' = "end"
         \/ LookupsFail(tx) /\ verdict' = "Fatal" /\ stage' = "end"
         \/ output.receipts # block.receipts /\ verdict' = "Invalid" /\ stage' = "end"
         \/ /\ CanSend(WitnessDatabase, tx) /\ output.receipts = block.receipts
            /\ state' = output.state
            /\ todo' = DOMAIN output.state.storages
            /\ pending' = DOMAIN output.state.accounts
            /\ status' = "running"
            /\ stage' = "root"
            /\ UNCHANGED verdict
  BY DEF ExecuteBlock, Verdict, trieVars
<1>2. /\ WitnessDatabase \in States /\ tx \in Transactions
      /\ TrieComplete =>
            /\ CanSend(WitnessDatabase, tx) = CanSend(pre, tx)
            /\ output = Output(pre, tx)
  BY <1>1, DatabaseExact DEF VerifyInv
<1>3. /\ pre \in States /\ witness \in Witnesses /\ accounts = pre /\ results = <<>>
      /\ storages = RevealedStorages(pre, witness) /\ block.rules /\ verdict = Absent
  BY <1>1 DEF VerifyInv, Before
<1>. HIDE DEF output
<1>4. CASE ~CanSend(WitnessDatabase, tx) /\ verdict' = "Invalid" /\ stage' = "end"
  <2>1. TrieComplete => ~TrulyValid
    BY <1>2, <1>4 DEF TrulyValid
  <2>. QED  BY <1>1, <1>4, <2>1, VerdictStep
<1>5. CASE LookupsFail(tx) /\ verdict' = "Fatal" /\ stage' = "end"
  <2>1. ~proof.bytecodes \/ tx.block_hash = "unknown"
    BY <1>5 DEF LookupsFail
  <2>. QED  BY <1>1, <1>5, <2>1, VerdictStep
<1>6. CASE output.receipts # block.receipts /\ verdict' = "Invalid" /\ stage' = "end"
  <2>1. TrieComplete => ~TrulyValid
    BY <1>2, <1>6 DEF TrulyValid
  <2>. QED  BY <1>1, <1>6, <2>1, VerdictStep
<1>7. CASE /\ CanSend(WitnessDatabase, tx) /\ output.receipts = block.receipts
           /\ state' = output.state
           /\ todo' = DOMAIN output.state.storages
           /\ pending' = DOMAIN output.state.accounts
           /\ status' = "running"
           /\ stage' = "root"
           /\ UNCHANGED verdict
  <2>1. /\ StateUpdate(output.state)
        /\ DOMAIN output.state.accounts = {tx.to}
        /\ DOMAIN output.state.storages = {tx.to}
        /\ DOMAIN output.state.storages[tx.to].storage = {Slot}
    BY <1>2, OutputUpdate DEF output
  <2>2. RootStart'
    BY <1>1, <1>3, <1>7, <2>1 DEF RootStart
  <2>3. RootInv'
    <3>1. RootStart' => RootInv'
      BY RootStarts, PTL
    <3>. QED  BY <2>2, <3>1
  <2>4. TrieComplete => /\ CanSend(pre, tx)
                        /\ state' = Output(pre, tx).state
                        /\ block.receipts = Output(pre, tx).receipts
    BY <1>2, <1>7
  <2>5. TrieComplete' = TrieComplete
    BY <1>1, SameBlock
  <2>6. verdict' = Absent /\ CompleteWitnessSound' /\ CompleteProofDecides'
    <3>1. verdict' = Absent => CompleteWitnessSound' /\ CompleteProofDecides'
      BY VerdictAssumption DEF CompleteWitnessSound, CompleteProofDecides
    <3>. QED  BY <1>3, <1>7, <3>1
  <2>7. /\ DOMAIN state'.accounts = {tx.to}
        /\ \A a \in DOMAIN state'.storages : DOMAIN state'.storages[a].storage = {Slot}
    BY <1>7, <2>1
  <2>. QED
    BY <1>1, <1>2, <1>3, <1>7, <2>3, <2>4, <2>5, <2>6, <2>7 DEF VerifyInv, Before
<1>. QED  BY <1>1, <1>4, <1>5, <1>6, <1>7

\* The root is compared with the one in the header.
LEMMA CompareRootStep ==
    ASSUME VerifyInv, CompareRoot
    PROVE  VerifyInv'
<1>. DEFINE tx == block.transaction
<1>1. /\ stage = "root" /\ status # "running" /\ stage' = "end"
      /\ UNCHANGED <<pre, witness, block, proof>>
      /\ verdict' = IF status = "failed" THEN "Fatal"
                    ELSE IF accounts = block.post THEN "Valid" ELSE "Invalid"
  BY DEF CompareRoot, Verdict, trieVars
<1>2. /\ RootInv /\ block.rules
      /\ DOMAIN state.accounts = {tx.to}
      /\ \A a \in DOMAIN state.storages : DOMAIN state.storages[a].storage = {Slot}
      /\ TrieComplete => /\ CanSend(pre, tx)
                         /\ state = Output(pre, tx).state
                         /\ block.receipts = Output(pre, tx).receipts
  BY <1>1 DEF VerifyInv
<1>3. RootTypeOK /\ RootExactWhereCovered /\ CoveredUpdateSucceeds
  BY <1>2, RootExact DEF RootInv, StateRootExact
<1>4. ASSUME TrieComplete PROVE \A a \in DOMAIN state.accounts : Covers(witness, pre, state, a)
  BY <1>2, <1>4 DEF TrieComplete, Covers
<1>5. CASE status = "failed"
  <2>1. TrieComplete => ~witness.siblings
    BY <1>2, <1>3, <1>4, <1>5 DEF CoveredUpdateSucceeds, TrieComplete
  <2>. QED  BY <1>1, <1>5, <2>1, VerdictStep
<1>6. CASE status # "failed"
  <2>1. status = "done"
    BY <1>1, <1>3, <1>6 DEF RootTypeOK
  <2>2. ASSUME TrieComplete PROVE accounts = PostState(pre, state)
    <3>1. \A a \in Addresses : accounts[a] = PostState(pre, state)[a]
      BY <1>3, <1>4, <2>1, <2>2 DEF RootExactWhereCovered
    <3>2. accounts \in States
      BY <1>3 DEF RootTypeOK
    <3>3. accounts = [a \in Addresses |-> accounts[a]]
      BY <3>2 DEF States
    <3>4. PostState(pre, state) = [a \in Addresses |-> PostState(pre, state)[a]]
      BY DEF PostState
    <3>. QED  BY <3>1, <3>3, <3>4
  <2>3. TrieComplete => (TrulyValid <=> accounts = block.post)
    BY <1>2, <2>2 DEF TrulyValid
  <2>. QED  BY <1>1, <1>6, <2>3, VerdictStep
<1>. QED  BY <1>5, <1>6

\* The inductive invariant holds.
LEMMA VerifyInvHolds == VerifySpec => []VerifyInv
<1>1. VerifyStart => VerifyInv
  BY NoVerdictYet DEF VerifyStart, VerifyInv, Before
<1>2. VerifyInv /\ [Next]_vars => VerifyInv'
  <2>. SUFFICES ASSUME VerifyInv, [Next]_vars PROVE VerifyInv'
    OBVIOUS
  <2>0. verdict' = Absent => CompleteWitnessSound' /\ CompleteProofDecides'
    BY VerdictAssumption DEF CompleteWitnessSound, CompleteProofDecides
  <2>1. CASE ValidateBlock
    <3>1. /\ stage = "validate" /\ UNCHANGED <<pre, witness, accounts, storages, results, block, proof>>
          /\ \/ block.rules /\ stage' = "witness" /\ UNCHANGED verdict
             \/ ~block.rules /\ verdict' = "Invalid" /\ stage' = "end"
      BY <2>1 DEF ValidateBlock, Verdict, trieVars, callVars
    <3>2. CASE block.rules /\ stage' = "witness" /\ UNCHANGED verdict
      BY <2>0, <3>1, <3>2 DEF VerifyInv, Before
    <3>3. CASE ~block.rules /\ verdict' = "Invalid" /\ stage' = "end"
      <4>1. ~TrulyValid
        BY <3>3 DEF TrulyValid
      <4>. QED  BY <3>1, <3>3, <4>1, VerdictStep
    <3>. QED  BY <3>1, <3>2, <3>3
  <2>2. CASE RevealWitness
    <3>1. /\ stage = "witness" /\ UNCHANGED <<pre, witness, accounts, results, block, proof>>
          /\ \/ proof.malformed /\ verdict' = "Fatal" /\ stage' = "end"
             \/ /\ stage' = "execution" /\ UNCHANGED verdict
                /\ storages' = RevealedStorages(pre, witness)
      BY <2>2 DEF RevealWitness, Verdict, callVars
    <3>2. CASE proof.malformed /\ verdict' = "Fatal" /\ stage' = "end"
      BY <3>1, <3>2, VerdictStep
    <3>3. CASE stage' = "execution" /\ UNCHANGED verdict /\ storages' = RevealedStorages(pre, witness)
      BY <2>0, <3>1, <3>3 DEF VerifyInv, Before
    <3>. QED  BY <3>1, <3>2, <3>3
  <2>3. CASE ExecuteBlock
    BY <2>3, ExecuteBlockStep
  <2>4. CASE CalculateRoot
    <3>1. /\ stage = "root" /\ CalculateStateRoot /\ UNCHANGED <<block, proof, stage, verdict>>
      BY <2>4 DEF CalculateRoot
    <3>2. RootInv /\ RootInv'
      BY <3>1, RootStep DEF VerifyInv
    <3>3. UNCHANGED <<pre, witness, state>>
      BY <3>1 DEF CalculateStateRoot, UpdateStorage, InsertStorageTrie, UpdateAccount, Finish, trieVars
    <3>4. TrieComplete' = TrieComplete
      BY <3>1, <3>3, SameBlock
    <3>. QED  BY <2>0, <3>1, <3>2, <3>3, <3>4 DEF VerifyInv, Before
  <2>5. CASE CompareRoot
    BY <2>5, CompareRootStep
  <2>6. CASE UNCHANGED vars
    <3>1. /\ UNCHANGED <<pre, witness, accounts, storages, results, state, block, proof, stage, verdict>>
          /\ UNCHANGED <<trieVars, callVars>>
      BY <2>6 DEF vars, trieVars, callVars
    <3>2. RootInv => RootInv'
      BY <3>1, RootStep
    <3>3. TrieComplete' = TrieComplete /\ TrulyValid' = TrulyValid
      BY <3>1, SameBlock
    <3>4. CompleteWitnessSound' /\ CompleteProofDecides'
      BY <3>1, <3>3 DEF VerifyInv, CompleteWitnessSound, CompleteProofDecides
    <3>. QED  BY <3>1, <3>2, <3>3, <3>4 DEF VerifyInv, Before
  <2>. QED  BY <2>1, <2>2, <2>3, <2>4, <2>5, <2>6 DEF Next
<1>. QED  BY <1>1, <1>2, PTL DEF VerifySpec

\* ExecutionWitnessVerifier::verify, with a witness that has every account and
\* slot the block reads or writes: it accepts no invalid block and rejects no
\* valid one, whatever the block claims and whatever else the proof lacks.
THEOREM CompleteWitnessDecidesRight == VerifySpec => []CompleteWitnessSound
<1>1. VerifyInv => CompleteWitnessSound
  BY DEF VerifyInv
<1>. QED  BY <1>1, VerifyInvHolds, PTL

\* A verification fails for want of data only: with a complete proof, and block
\* hashes the provider knows, verify says valid or invalid.
THEOREM CompleteProofAlwaysDecides == VerifySpec => []CompleteProofDecides
<1>1. VerifyInv => CompleteProofDecides
  BY DEF VerifyInv
<1>. QED  BY <1>1, VerifyInvHolds, PTL
=============================================================================
