----------------------------- MODULE StateRoot ------------------------------
(***************************************************************************)
(* calculate_state_root (crates/verifier/src/root.rs) on a sparse trie     *)
(* that a witness has revealed in part.  The storage tries of the changed  *)
(* accounts are taken out and updated by a pool of threads, put back in    *)
(* the order in which the threads finish, and then the accounts are        *)
(* updated one by one in the order of their hashed addresses.              *)
(*                                                                         *)
(* Roots are collision free, so the root of a trie is its contents.  An    *)
(* account is what it holds besides its storage (info, 0 for nothing) and  *)
(* its storage; one that holds nothing and has no storage is not in the    *)
(* trie, and neither is a slot with value 0.                               *)
(***************************************************************************)
EXTENDS Naturals, Sequences, FiniteSets, FiniteSetsExt

CONSTANTS
    Addresses,      \* hashed addresses, in the order of the trie
    Slots,          \* hashed slots
    MaxValue,       \* largest value of a slot, and of info
    Absent          \* no storage trie, no node for the root of one, or a failed update

ASSUME StateAssumption ==
    /\ Addresses \subseteq Nat /\ IsFiniteSet(Addresses)
    /\ MaxValue \in Nat

Values == 0..MaxValue
EmptyStorage == [s \in Slots |-> 0]
EmptyAccount == [info |-> 0, storage |-> EmptyStorage]

States == [Addresses -> [info : Nat, storage : [Slots -> Nat]]]

\* A storage trie: its leaves, and the slots whose paths are revealed.
Tries == [content : [Slots -> Nat], revealed : SUBSET Slots]

ASSUME AbsentAssumption == Absent \notin Tries

Witnesses ==
    [ accounts : SUBSET Addresses,
      slots    : [Addresses -> (SUBSET Slots) \cup {Absent}],
      siblings : BOOLEAN ]

\* An update as the execution of a block makes it: a storage changes together
\* with its account.
StateUpdate(update) ==
    /\ DOMAIN update.accounts \subseteq Addresses
    /\ \A a \in DOMAIN update.accounts : update.accounts[a] \in Nat
    /\ DOMAIN update.storages \subseteq DOMAIN update.accounts
    /\ \A a \in DOMAIN update.storages :
          /\ DOMAIN update.storages[a].storage \subseteq Slots
          /\ \A s \in DOMAIN update.storages[a].storage : update.storages[a].storage[s] \in Nat

VARIABLES
    pre,            \* the state after the parent block
    witness,        \* the witness the trie was revealed from: [accounts, slots, siblings], see below
    state,          \* the update: [accounts, storages], functions on changed addresses
    accounts,       \* the leaves of the account trie
    storages,       \* storages[a]: the storage trie of a, or Absent
    todo,           \* changed storages that no thread has taken
    results,        \* channel of updated storage tries
    pending,        \* changed accounts that are still to be written
    status          \* running, failed, or done: then the root is that of accounts

trieVars == <<pre, witness, accounts, storages>>
callVars == <<state, todo, results, pending, status>>

-----------------------------------------------------------------------------
(* The sparse trie.  A witness has the nodes on the paths to some accounts *)
(* and, for each of them, to the slots in slots[a], or not even the root   *)
(* of its storage (Absent); and the siblings that take the place of a      *)
(* removed leaf, or not.                                                   *)

RevealedEmpty == [content |-> EmptyStorage, revealed |-> Slots]

\* The trie of an empty storage is not in the witness.
RevealedStorages(world, w) ==
    [a \in Addresses |->
        IF a \in w.accounts /\ w.slots[a] # Absent /\ world[a].storage # EmptyStorage
        THEN [content |-> world[a].storage, revealed |-> w.slots[a]]
        ELSE Absent]

\* What a trie may be after leaves were written and, for value 0, removed: a
\* leaf that is not revealed cannot be written, and it cannot be removed
\* either, which fails or goes unnoticed.  A removal may also fail for want of
\* a sibling.
UpdatedTries(trie, changes) ==
    LET hidden == DOMAIN changes \ trie.revealed
        removed == {s \in DOMAIN changes : changes[s] = 0}
        content == [s \in Slots |-> IF s \in DOMAIN changes \ hidden THEN changes[s]
                                    ELSE trie.content[s]]
    IN  {Absent : s \in hidden \cup IF witness.siblings THEN {} ELSE removed}
        \cup IF hidden \subseteq removed THEN {[trie EXCEPT !.content = content]} ELSE {}

-----------------------------------------------------------------------------
(* Storage tries.                                                          *)

\* A thread takes the storage trie of a, an empty one if none was revealed,
\* updates it and sends it.
UpdateStorage(a) ==
    /\ a \in todo
    /\ todo' = todo \ {a}
    /\ storages' = [storages EXCEPT ![a] = Absent]
    /\ LET storage == state.storages[a]
           taken == IF storage.wiped \/ storages[a] = Absent THEN RevealedEmpty ELSE storages[a]
       IN  \E result \in UpdatedTries(taken, storage.storage) :
              results' = Append(results, [address |-> a, trie |-> result])
    /\ UNCHANGED <<pre, witness, state, accounts, pending, status>>

\* Faulty variant: the updated trie is not put back.
InsertStorageTrieLost ==
    /\ todo = {} /\ results # <<>> /\ status = "running"
    /\ results' = Tail(results)
    /\ status' = IF Head(results).trie = Absent THEN "failed" ELSE status
    /\ UNCHANGED <<pre, witness, accounts, state, todo, pending, storages>>

\* All threads are done: what they sent is put back, up to the first failure.
InsertStorageTrie ==
    /\ todo = {} /\ results # <<>> /\ status = "running"
    /\ results' = Tail(results)
    /\ LET result == Head(results)
       IN  IF result.trie = Absent
           THEN status' = "failed" /\ UNCHANGED storages
           ELSE storages' = [storages EXCEPT ![result.address] = result.trie] /\ UNCHANGED status
    /\ UNCHANGED <<pre, witness, accounts, state, todo, pending>>

-----------------------------------------------------------------------------
(* Accounts.                                                               *)

\* The root in the account itself, when its storage was neither changed nor
\* revealed; the empty one when the account is not found either.
StorageRoot(a) ==
    IF storages[a] # Absent THEN storages[a].content
    ELSE IF a \in witness.accounts THEN accounts[a].storage
    ELSE EmptyStorage

Written(a) == [info |-> state.accounts[a], storage |-> StorageRoot(a)]

\* An account that holds nothing and has no storage is removed, which is to
\* make it the empty account.
UpdateAccount ==
    /\ todo = {} /\ results = <<>> /\ status = "running" /\ pending # {}
    /\ LET a == Min(pending)
           removed == Written(a) = EmptyAccount
       IN  /\ pending' = pending \ {a}
           /\ \/ /\ a \in witness.accounts
                 /\ accounts' = [accounts EXCEPT ![a] = Written(a)]
                 /\ UNCHANGED status
              \/ /\ a \notin witness.accounts /\ removed
                 /\ UNCHANGED <<accounts, status>>
              \/ /\ a \notin witness.accounts \/ (removed /\ ~witness.siblings)
                 /\ status' = "failed"
                 /\ UNCHANGED accounts
    /\ UNCHANGED <<pre, witness, storages, state, todo, results>>

\* Without any node there is no root.
Finish ==
    /\ todo = {} /\ results = <<>> /\ status = "running" /\ pending = {}
    /\ status' = IF witness.accounts = {} THEN "failed" ELSE "done"
    /\ UNCHANGED <<trieVars, state, todo, results, pending>>

CalculateStateRoot ==
    \/ \E a \in Addresses : UpdateStorage(a)
    \/ InsertStorageTrie \/ UpdateAccount \/ Finish

\* A call with any update, on a trie revealed from any witness of any state.
RootStart ==
    /\ pre \in States /\ witness \in Witnesses /\ StateUpdate(state)
    /\ accounts = pre
    /\ storages = RevealedStorages(pre, witness)
    /\ todo = DOMAIN state.storages
    /\ results = <<>>
    /\ pending = DOMAIN state.accounts
    /\ status = "running"

RootSpec == RootStart /\ [][CalculateStateRoot]_<<trieVars, callVars>>

-----------------------------------------------------------------------------
(* Reference: the update applied to the state.                             *)

\* The storage of a after the update.
PostStorage(world, update, a) ==
    IF a \notin DOMAIN update.storages THEN world[a].storage
    ELSE LET storage == update.storages[a]
         IN  [s \in Slots |->
                IF s \in DOMAIN storage.storage THEN storage.storage[s]
                ELSE IF storage.wiped THEN 0
                ELSE world[a].storage[s]]

PostState(world, update) ==
    [a \in Addresses |->
        IF a \in DOMAIN update.accounts
        THEN [info |-> update.accounts[a], storage |-> PostStorage(world, update, a)]
        ELSE world[a]]

\* The witness reveals the account and every slot of it that the update
\* changes, unless its whole storage goes.
Covers(w, world, update, a) ==
    /\ a \in w.accounts
    /\ a \in DOMAIN update.storages /\ world[a].storage # EmptyStorage =>
          \/ update.storages[a].wiped
          \/ w.slots[a] # Absent /\ DOMAIN update.storages[a].storage \subseteq w.slots[a]

\* Whatever the order in which the threads finish, and whatever the witness
\* leaves out, an account in the result is the one of the reference state if
\* the witness covers it or the update does not change it.
RootExactWhereCovered ==
    status = "done" =>
        \A a \in Addresses :
            a \notin DOMAIN state.accounts \/ Covers(witness, pre, state, a) =>
                accounts[a] = PostState(pre, state)[a]

\* With a witness that covers the update and has the siblings of removed
\* leaves the calculation does not fail.
CoveredUpdateSucceeds ==
    status = "failed" =>
        \/ ~witness.siblings
        \/ witness.accounts = {}
        \/ \E a \in DOMAIN state.accounts : ~Covers(witness, pre, state, a)

\* The result is right as far as the witness goes, and there is one whenever it
\* goes far enough.
StateRootExact == RootExactWhereCovered /\ CoveredUpdateSucceeds
=============================================================================
