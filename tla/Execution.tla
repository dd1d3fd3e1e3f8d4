----------------------------- MODULE Execution ------------------------------
(***************************************************************************)
(* The execution layer: the task, the storage with its client, and the     *)
(* engine.  The environment submits transactions to the pool, relays       *)
(* blocks of transactions that have been in the pool (possibly the same    *)
(* one in several blocks, as the block builder reads the pool before       *)
(* earlier blocks are executed), and may end the consumer and the engine.  *)
(***************************************************************************)
EXTENDS Task

CONSTANT MaxBlocks    \* bound: how many blocks are relayed

ASSUME MaxBlocksAssumption == MaxBlocks \in Nat

VARIABLES
    submitted,        \* history: the transactions submitted so far
    sent              \* history: the blocks relayed so far

execVars == <<status, channels, storageVars, engineVars, wakers, woken, taskVars,
              submitted, sent>>

ExecInit ==
    /\ ChannelsInit
    /\ StorageInit
    /\ EngineInit
    /\ TaskInit
    /\ submitted = {}
    /\ sent = <<>>

Tasking == TaskNext /\ UNCHANGED <<submitted, sent>>
Engining == EngineNext /\ UNCHANGED <<taskVars, submitted, sent>>

Submit(t) ==
    /\ t \notin submitted
    /\ pool' = pool \cup {t}
    /\ submitted' = submitted \cup {t}
    /\ UNCHANGED <<status, proposals, decisionSteps, toTask, storageVars, engineVars,
                   wakers, woken, taskVars, sent>>

\* The consumer relays a block to a task that is still there.
Relay(txs) ==
    /\ Running("consumer") /\ Running("task")
    /\ Len(sent) < MaxBlocks
    /\ toTask' = Append(toTask, txs)
    /\ sent' = Append(sent, txs)
    /\ Wake("channel")
    /\ UNCHANGED <<status, pool, proposals, decisionSteps, storageVars, engineVars,
                   taskVars, submitted>>

\* The consumer ends and its sender is dropped.
ConsumerEnds ==
    /\ Running("consumer")
    /\ Ends("consumer", "stopped")
    /\ Wake("channel")
    /\ UNCHANGED <<channels, storageVars, engineVars, taskVars, submitted, sent>>

Environment ==
    \/ \E t \in Txs : Submit(t)
    \/ \E txs \in SUBSET submitted : Relay(txs)
    \/ ConsumerEnds
    \/ EngineEnds /\ UNCHANGED <<taskVars, submitted, sent>>

ExecNext == Tasking \/ Engining \/ Environment

ExecSpec == ExecInit /\ [][ExecNext]_execVars

\* The executor polls a woken task and the engine runs; nothing is assumed of
\* the environment.
ExecFairSpec ==
    /\ ExecSpec
    /\ WF_execVars(Tasking)
    /\ WF_execVars(ForkchoiceUpdated /\ UNCHANGED <<taskVars, submitted, sent>>)
    /\ WF_execVars(Downloads /\ UNCHANGED <<taskVars, submitted, sent>>)

-----------------------------------------------------------------------------
(* Properties *)

\* Every variable of the execution layer has its type.
ExecTypeOK ==
    /\ ChannelsTypeOK
    /\ StorageTypeOK
    /\ EngineTypeOK
    /\ TaskTypeOK
    /\ submitted \in SUBSET Txs
    /\ sent \in Seq(SUBSET Txs)

\* insert_new_block keeps one unbroken chain: the numbers run from the initial
\* block to the best one, each header names the hash of the one below it, every
\* inserted block can be found by its hash with the body its header commits to,
\* and the total difficulty is that of the whole chain.
StorageLinked ==
    /\ DOMAIN headers = StartNumber..bestBlock
    /\ bestHash = HashOf(headers[bestBlock])
    /\ totalDifficulty = StartDifficulty + 2 * (bestBlock - StartNumber)
    /\ \A n \in StartNumber+1..bestBlock :
         LET hash == HashOf(headers[n]) IN
           /\ headers[n].number = n
           /\ headers[n].parent = HashOf(headers[n-1])
           /\ hash \in DOMAIN hashToNumber /\ hashToNumber[hash] = n
           /\ hash \in DOMAIN bodies /\ bodies[hash] = headers[n].txs

\* The blocks the task holds, in the order in which it will execute them.
Waiting ==
    (IF insert.stage \in {"lock", "execute"} THEN <<insert.txs>> ELSE <<>>)
        \o queued \o toTask

\* Every relayed block is executed, being inserted, queued or in the channel,
\* exactly once and in the order of its finalization, however poll is interrupted.
BlocksInOrder ==
    [i \in DOMAIN executed |-> executed[i].txs] \o Waiting = sent

\* A transaction leaves the pool only when a block with it has been stored, and as
\* long as the engine has refused no update that block is canonical or the one the
\* task is inserting: a rejected block leaves its transactions in the pool.
NoTransactionLost ==
    /\ submitted \subseteq pool \cup StateAfter(bestHash)
    /\ errors = 0 => submitted \subseteq pool \cup StateAfter(canonicalHead) \cup insert.txs

\* Unless the engine has refused a fork choice update, every block is executed on
\* the state of its parent, although build_and_execute uses provider.latest():
\* its root is right and no transaction is executed twice.
ExecutedOnParent ==
    errors = 0 =>
        \A n \in StartNumber+1..bestBlock :
            /\ headers[n].root = StateAfter(HashOf(headers[n]))
            /\ Executable(headers[n].txs, StateAfter(headers[n].parent))

\* Block g is h or an ancestor of h: a hash stands for the chain up to its block.
IsAncestor(g, h) == Len(g) <= Len(h) /\ \A i \in 1..Len(g) : g[i] = h[i]

\* The canonical head is a stored block that the engine has executed, and between
\* two inserts it is the best block unless an update has been refused.
CanonicalIsStored ==
    /\ canonicalHead \in imported
    /\ IsAncestor(canonicalHead, bestHash)
    /\ errors = 0 /\ insert.stage \in {"none", "lock", "execute"} =>
         canonicalHead = bestHash /\ latest = bestHash

\* The canonical chain is never rolled back.
CanonicalOnlyGrows == [][IsAncestor(canonicalHead, canonicalHead')]_execVars

\* The headers that a request for the chain at number n stands for: downwards to
\* the block after the initial one, or upwards to the best block.
Smaller(a, b) == IF a < b THEN a ELSE b
Requested(n, limit, direction) ==
    IF direction = "Falling"
    THEN [i \in 1..Smaller(limit, n - StartNumber) |-> headers[n + 1 - i]]
    ELSE [i \in 1..Smaller(limit, bestBlock + 1 - n) |-> headers[n + i - 1]]

\* Whenever the client reads, fetch_headers and fetch_bodies return the requested
\* stretch of the chain, by hash or by number, in both directions and for every
\* limit.
FetchIsExact ==
    lock = "read" =>
        \A n \in StartNumber+1..bestBlock, direction \in Directions,
           limit \in 0..MaxBlocks+1 :
            LET wanted == Requested(n, limit, direction)
            IN /\ FetchHeaders(ByHash(HashOf(headers[n])), limit, direction) = wanted
               /\ FetchHeaders(ByNumber(n), limit, direction) = wanted
               /\ FetchBodies([i \in DOMAIN wanted |-> HashOf(wanted[i])]) =
                    [i \in DOMAIN wanted |-> wanted[i].txs]

\* A task that is parked and not woken has nothing to do, and what it waits for
\* will wake it.
NoLostWakeup ==
    Running("task") /\ taskPc = "parked" /\ ~woken =>
        CASE insert.stage = "none" ->
                /\ queued = <<>> /\ toTask = <<>>
                /\ Running("consumer") /\ "channel" \in wakers
          [] insert.stage = "lock" -> lock # "free" /\ "lock" \in wakers
          [] insert.stage = "await" ->
                reply = {} /\ Running("engine") /\ "engine" \in wakers
          [] OTHER -> FALSE

\* Every relayed block is executed in the end unless the task panics first: the
\* loop of poll never goes to sleep on work.
EveryBlockExecuted ==
    \A k \in 1..MaxBlocks :
        Len(sent) >= k ~> Len(executed) >= k \/ ~Running("task")

\* The loop over SYNCING ends: the engine can read the storage while the task
\* waits for it, and every stored block becomes canonical.
StoredBecomesCanonical ==
    \A k \in 1..MaxBlocks :
        bestBlock >= StartNumber + k ~>
            Len(canonicalHead) > k \/ errors > 0 \/ ~Running("task")

\* When the consumer ends, so does the task: it takes what is left in the channel,
\* finds the channel closed and panics, whatever it is waiting for.
ConsumerEndEndsTask == ~Running("consumer") ~> ~Running("task")

\* "Returns the block hash for the given block number if it exists." (storage.rs,
\* block_hash): every stored header has its hash found by its number.
EveryNumberHasHash == \A n \in DOMAIN headers : BlockHash(n) # {}

\* "we should never produce bad blocks" (client.rs, report_bad_message).
NoBadBlocks == badBlocks = {}
=============================================================================
