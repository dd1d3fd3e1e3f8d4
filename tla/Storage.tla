------------------------------ MODULE Storage -------------------------------
(***************************************************************************)
(* The in-memory chain that the execution task extends and from which the  *)
(* engine downloads.                                                       *)
(*                                                                         *)
(* A hash commits to a header and through its parent hash to the whole     *)
(* chain below it: it is the sequence of the transaction sets of that      *)
(* chain, from the initial block on.  The state of the chain is the set of *)
(* transactions executed so far and stands for the state root.  An         *)
(* optional result is a set of at most one element.  Of the gas only the   *)
(* limit of a block is kept; fees, blooms, timestamps and the              *)
(* fork-dependent header fields are left out.                              *)
(***************************************************************************)
EXTENDS Channels, Functions

CONSTANTS
    StartNumber,        \* number and difficulty of the block the node starts
    StartDifficulty,    \* from: the latest one on disk, or the genesis block
    Oversized           \* the sets of transactions that need more gas than the
                        \* gas_limit of a header, max_gas_limit

ASSUME StartAssumption == StartNumber \in Nat /\ StartDifficulty \in Nat

\* What does not fit into a block does not fit with more transactions either.
ASSUME OversizedAssumption ==
    \A big \in Oversized, more \in SUBSET Txs : big \cup more \in Oversized

VARIABLES headers, hashToNumber, bodies, bestBlock, bestHash, totalDifficulty,
          lock          \* the RwLock around the storage

storageInner == <<headers, hashToNumber, bodies, bestBlock, bestHash, totalDifficulty>>
storageVars == <<storageInner, lock>>

Hashes == Seq(SUBSET Txs)
Headers == [number : Nat, parent : Hashes, txs : SUBSET Txs, root : SUBSET Txs,
            difficulty : Nat]

\* hash_slow
HashOf(header) == Append(header.parent, header.txs)

\* The transactions executed in the chain that ends with block h.
StateAfter(h) == UNION Range(h)

StartHeader == [number |-> StartNumber, parent |-> <<>>, txs |-> {}, root |-> {},
                difficulty |-> StartDifficulty]

Store(f, k, v) == [x \in DOMAIN f \cup {k} |-> IF x = k THEN v ELSE f[x]]

\* Storage::new
StorageInit ==
    /\ headers = [n \in {StartNumber} |-> StartHeader]
    /\ hashToNumber = [h \in {} |-> 0]
    /\ bodies = [h \in {HashOf(StartHeader)} |-> {}]
    /\ bestBlock = StartNumber
    /\ bestHash = HashOf(StartHeader)
    /\ totalDifficulty = StartDifficulty
    /\ lock = "free"

-----------------------------------------------------------------------------

BlockHash(n) == {h \in DOMAIN hashToNumber : hashToNumber[h] = n}

HeaderByNumber(n) == IF n \in DOMAIN headers THEN {headers[n]} ELSE {}

HeaderByHash(h) ==
    IF h \in DOMAIN hashToNumber THEN HeaderByNumber(hashToNumber[h]) ELSE {}

\* Mutant: counting down.
NextNumber_Down == bestBlock - 1
NextNumber == bestBlock + 1

\* build_header_template, completed with the state root of the execution.
HeaderTemplate(txs, root) ==
    [number |-> NextNumber, parent |-> bestHash, txs |-> txs, root |-> root,
     difficulty |-> 2]

\* The header's own number and parent are overwritten.
\* Mutants: the index is updated before the best hash; every block gets the
\* parent that was best when the storage was created.
InsertNewBlock_OldHash(template, body) ==
    LET header == [template EXCEPT !.number = NextNumber, !.parent = bestHash]
        hash == HashOf(header)
    IN /\ bestHash' = hash
       /\ bestBlock' = header.number
       /\ totalDifficulty' = totalDifficulty + header.difficulty
       /\ headers' = Store(headers, header.number, header)
       /\ bodies' = Store(bodies, bestHash, body)
       /\ hashToNumber' = Store(hashToNumber, bestHash, header.number)
InsertNewBlock_FixedParent(template, body) ==
    LET header == [template EXCEPT !.number = NextNumber,
                                   !.parent = HashOf(StartHeader)]
        hash == HashOf(header)
    IN /\ bestHash' = hash
       /\ bestBlock' = header.number
       /\ totalDifficulty' = totalDifficulty + header.difficulty
       /\ headers' = Store(headers, header.number, header)
       /\ bodies' = Store(bodies, hash, body)
       /\ hashToNumber' = Store(hashToNumber, hash, header.number)
InsertNewBlock(template, body) ==
    LET header == [template EXCEPT !.number = NextNumber, !.parent = bestHash]
        hash == HashOf(header)
    IN /\ bestHash' = hash
       /\ bestBlock' = header.number
       /\ totalDifficulty' = totalDifficulty + header.difficulty
       /\ headers' = Store(headers, header.number, header)
       /\ bodies' = Store(bodies, hash, body)
       /\ hashToNumber' = Store(hashToNumber, hash, header.number)

\* The executor rejects a block with a transaction that has been executed before,
\* its nonce is too low, and one that exceeds the gas limit.
Executable(txs, state) == txs \cap state = {} /\ txs \notin Oversized

\* build_and_execute on the state of the provider's latest block, when it
\* succeeds.
BuildAndExecute(txs, state) ==
    /\ Executable(txs, state)
    /\ InsertNewBlock(HeaderTemplate(txs, state \cup txs), txs)

StorageTypeOK ==
    /\ DOMAIN headers \subseteq Nat /\ headers \in [DOMAIN headers -> Headers]
    /\ DOMAIN bodies \subseteq Hashes /\ bodies \in [DOMAIN bodies -> SUBSET Txs]
    /\ DOMAIN hashToNumber \subseteq Hashes
    /\ hashToNumber \in [DOMAIN hashToNumber -> Nat]
    /\ bestBlock \in Nat /\ bestHash \in Hashes /\ totalDifficulty \in Nat
    /\ lock \in {"free", "read", "write"}
=============================================================================
