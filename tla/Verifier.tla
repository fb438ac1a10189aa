------------------------------ MODULE Verifier ------------------------------
(***************************************************************************)
(* ExecutionWitnessVerifier::verify (crates/verifier/src/lib.rs) with the  *)
(* database and the executor it runs the block on (crates/evm/src), and    *)
(* what the engine tree makes of its errors: a block is valid, invalid, or *)
(* the verification failed, which is fatal.                                *)
(*                                                                         *)
(* A block is one transaction of the account from, which reads its slot    *)
(* and writes what it finds to the same slot of the account to.  The value *)
(* that was read also shows in the receipts.                               *)
(***************************************************************************)
EXTENDS StateRoot

CONSTANT Slot       \* the slot the transaction reads and writes

ASSUME SlotAssumption == Slot \in Slots

\* What the block claims besides its transaction: whether it keeps the rules of
\* header, body and parent, its receipts and the state behind its state root.
\* block_hash: whether the transaction asks for the hash of an ancestor, and
\* whether the provider knows it.
Transactions == [from : Addresses, to : Addresses, block_hash : {"unused", "known", "unknown"}]

VARIABLES
    block,      \* [rules, transaction, receipts, post]
    proof,      \* [malformed, bytecodes]: besides the witness of StateRoot
    stage,      \* the next part of verify
    verdict     \* Absent, or Valid, Invalid or Fatal

ASSUME VerdictAssumption == Absent \notin {"Valid", "Invalid", "Fatal"}

vars == <<trieVars, callVars, block, proof, stage, verdict>>

NoUpdate == [accounts |-> <<>>, storages |-> <<>>]

Verdict(result) == verdict' = result /\ stage' = "end"

-----------------------------------------------------------------------------
(* WitnessDatabase: what is not found in the trie is taken to be empty.    *)

Basic(a) == IF a \in witness.accounts THEN accounts[a].info ELSE 0

StorageAt(a, s) ==
    IF storages[a] # Absent /\ s \in storages[a].revealed THEN storages[a].content[s] ELSE 0

WitnessDatabase ==
    [a \in Addresses |-> [info |-> Basic(a), storage |-> [s \in Slots |-> StorageAt(a, s)]]]

\* The EVM on a state: an account that holds nothing cannot send.
CanSend(world, tx) == world[tx.from].info # 0

Output(world, tx) ==
    LET value == world[tx.from].storage[Slot]
        info == world[tx.to].info
    IN  [ receipts |-> value,
          state |-> [ accounts |-> [a \in {tx.to} |-> IF info = 0 THEN 1 ELSE info],
                      storages |-> [a \in {tx.to} |->
                                       [wiped |-> FALSE, storage |-> [s \in {Slot} |-> value]]] ] ]

-----------------------------------------------------------------------------
\* validate_header, validate_block_pre_execution, validate_header_against_parent.
ValidateBlock ==
    /\ stage = "validate"
    /\ IF block.rules THEN stage' = "witness" /\ UNCHANGED verdict ELSE Verdict("Invalid")
    /\ UNCHANGED <<trieVars, callVars, block, proof>>

\* Nodes that do not decode are an error of the provider.
RevealWitness ==
    /\ stage = "witness"
    /\ IF proof.malformed THEN Verdict("Fatal") ELSE stage' = "execution" /\ UNCHANGED verdict
    /\ storages' = IF proof.malformed THEN storages ELSE RevealedStorages(pre, witness)
    /\ UNCHANGED <<pre, witness, accounts, callVars, block, proof>>

\* Faulty variant: no block hash is ever found.
LookupsFailForHashes(tx) == ~proof.bytecodes \/ tx.block_hash # "unused"

\* Code and block hashes are the lookups of the database that may fail.
LookupsFail(tx) == ~proof.bytecodes \/ tx.block_hash = "unknown"

\* Execute, then validate_block_post_execution.  A transaction that cannot be
\* sent makes the block invalid; a lookup that fails is an internal error.
ExecuteBlock ==
    /\ stage = "execution"
    /\ LET tx == block.transaction
           output == Output(WitnessDatabase, tx)
       IN  IF ~CanSend(WitnessDatabase, tx)
           THEN Verdict("Invalid") /\ UNCHANGED <<state, todo, pending, status>>
           ELSE IF LookupsFail(tx)
           THEN Verdict("Fatal") /\ UNCHANGED <<state, todo, pending, status>>
           ELSE IF output.receipts # block.receipts
           THEN Verdict("Invalid") /\ UNCHANGED <<state, todo, pending, status>>
           ELSE /\ state' = output.state
                /\ todo' = DOMAIN output.state.storages
                /\ pending' = DOMAIN output.state.accounts
                /\ status' = "running"
                /\ stage' = "root"
                /\ UNCHANGED verdict
    /\ UNCHANGED <<trieVars, results, block, proof>>

CalculateRoot ==
    /\ stage = "root"
    /\ CalculateStateRoot
    /\ UNCHANGED <<block, proof, stage, verdict>>

\* Faulty variant: the root is not compared.
CompareRootNot ==
    /\ stage = "root"
    /\ status # "running"
    /\ Verdict(IF status = "failed" THEN "Fatal" ELSE "Valid")
    /\ UNCHANGED <<trieVars, callVars, block, proof>>

\* A root that cannot be calculated is an error of the provider.
CompareRoot ==
    /\ stage = "root"
    /\ status # "running"
    /\ Verdict(IF status = "failed" THEN "Fatal"
               ELSE IF accounts = block.post THEN "Valid" ELSE "Invalid")
    /\ UNCHANGED <<trieVars, callVars, block, proof>>

Next == ValidateBlock \/ RevealWitness \/ ExecuteBlock \/ CalculateRoot \/ CompareRoot

\* A call with any block, on any state, and with any witness of it.
VerifyStart ==
    /\ pre \in States /\ witness \in Witnesses
    /\ block.transaction \in Transactions
    /\ accounts = pre
    /\ storages = [a \in Addresses |-> Absent]
    /\ state = NoUpdate /\ todo = {} /\ results = <<>> /\ pending = {} /\ status = "running"
    /\ stage = "validate"
    /\ verdict = Absent

VerifySpec == VerifyStart /\ [][Next]_vars

-----------------------------------------------------------------------------
\* The block is valid: its rules hold, and executing it on the whole state
\* gives the receipts and the state it claims.
TrulyValid ==
    LET output == Output(pre, block.transaction)
    IN  /\ block.rules
        /\ CanSend(pre, block.transaction)
        /\ output.receipts = block.receipts
        /\ PostState(pre, output.state) = block.post

\* The witness has every account and slot that the execution reads or writes.
TrieComplete ==
    \A a \in {block.transaction.from, block.transaction.to} :
        /\ a \in witness.accounts
        /\ pre[a].storage # EmptyStorage => witness.slots[a] # Absent /\ Slot \in witness.slots[a]

\* With a witness that is complete as to the state, the verdict is never wrong,
\* whatever else is missing: an invalid block is not accepted and a valid one
\* not rejected.
CompleteWitnessSound ==
    TrieComplete =>
        /\ verdict = "Valid" => TrulyValid
        /\ verdict = "Invalid" => ~TrulyValid

\* With a complete proof the verification decides, one way or the other.
CompleteProofDecides ==
    verdict = "Fatal" =>
        \/ ~TrieComplete
        \/ ~witness.siblings
        \/ proof.malformed \/ ~proof.bytecodes
        \/ block.transaction.block_hash = "unknown"
=============================================================================
