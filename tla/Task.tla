-------------------------------- MODULE Task --------------------------------
(***************************************************************************)
(* MalachiteTask: the future that receives finalized blocks and inserts    *)
(* them into the storage and the engine, one at a time.                    *)
(*                                                                         *)
(* The executor polls it when it has been woken.  A poll runs the loop     *)
(* until it has to wait; the inner future `insert_task` is what it waits   *)
(* for, at its stage "lock" for the storage and at "await" for the engine. *)
(* The other threads run between any two actions of a poll.                *)
(***************************************************************************)
EXTENDS Engine

VARIABLES
    taskPc,         \* where the loop of poll is; "parked" between two polls
    queued,         \* blocks received and not yet taken up
    insert,         \* insert_task: its stage, block, hash once executed, and
                    \* whether it has the pipeline's events
    pipelineEvents, \* pipe_line_events is Some
    canonicalHead,  \* what set_canonical_head, set_safe and set_finalized got
    executed        \* history: the blocks executed, and whether that succeeded

taskVars == <<taskPc, queued, insert, pipelineEvents, canonicalHead, executed>>

Stages == {"none", "lock", "execute", "clear", "send", "await"}
NoInsert == [stage |-> "none", txs |-> {}, head |-> <<>>, events |-> FALSE]

\* Spawned by launch_node, which also sets the pipeline's events.
TaskInit ==
    /\ taskPc = "recv"
    /\ queued = <<>>
    /\ insert = NoInsert
    /\ pipelineEvents = TRUE
    /\ canonicalHead = HashOf(StartHeader)
    /\ executed = <<>>
    /\ wakers = {}
    /\ woken = FALSE

At(pc, stage) == Running("task") /\ taskPc = pc /\ insert.stage = stage

Park(source) ==
    /\ taskPc' = "parked"
    /\ wakers' = wakers \cup source
    /\ UNCHANGED woken

\* The insert future is ready: its result becomes pipe_line_events again.
\* Mutant: the loop ends there.
Ready_Parks(events) ==
    /\ insert' = NoInsert
    /\ pipelineEvents' = events
    /\ taskPc' = "parked"
Ready(events) ==
    /\ insert' = NoInsert
    /\ pipelineEvents' = events
    /\ taskPc' = "recv"

-----------------------------------------------------------------------------

Poll ==
    /\ Running("task")
    /\ taskPc = "parked" /\ woken
    /\ taskPc' = "recv"
    /\ woken' = FALSE
    /\ UNCHANGED <<status, channels, storageVars, engineVars, wakers, queued, insert,
                   pipelineEvents, canonicalHead, executed>>

\* poll_recv: a block, nothing yet, or the end of the channel, which panics.
\* Mutants: the channel is read without a waker; its end is taken for "nothing yet".
ReceiveBlock_NoWaker ==
    /\ Running("task")
    /\ taskPc = "recv"
    /\ IF toTask # <<>>
       THEN queued' = Append(queued, Head(toTask)) /\ toTask' = Tail(toTask)
       ELSE UNCHANGED <<queued, toTask>>
    /\ taskPc' = "insert"
    /\ UNCHANGED <<status, pool, proposals, decisionSteps, storageVars, engineVars,
                   wakers, woken, insert, pipelineEvents, canonicalHead, executed>>
ReceiveBlock_IgnoresEnd ==
    /\ Running("task")
    /\ taskPc = "recv"
    /\ IF toTask # <<>>
       THEN /\ queued' = Append(queued, Head(toTask))
            /\ toTask' = Tail(toTask)
            /\ UNCHANGED wakers
       ELSE /\ wakers' = wakers \cup {"channel"}
            /\ UNCHANGED <<queued, toTask>>
    /\ taskPc' = "insert"
    /\ UNCHANGED <<status, pool, proposals, decisionSteps, storageVars, engineVars,
                   woken, insert, pipelineEvents, canonicalHead, executed>>
ReceiveBlock ==
    /\ Running("task")
    /\ taskPc = "recv"
    /\ IF toTask # <<>>
       THEN /\ queued' = Append(queued, Head(toTask))
            /\ toTask' = Tail(toTask)
            /\ taskPc' = "insert"
            /\ UNCHANGED <<status, wakers>>
       ELSE IF Running("consumer")
       THEN /\ wakers' = wakers \cup {"channel"}
            /\ taskPc' = "insert"
            /\ UNCHANGED <<status, queued, toTask>>
       ELSE Ends("task", "no sender") /\ UNCHANGED <<wakers, queued, toTask, taskPc>>
    /\ UNCHANGED <<pool, proposals, decisionSteps, storageVars, engineVars, woken,
                   insert, pipelineEvents, canonicalHead, executed>>

NothingToInsert ==
    /\ At("insert", "none")
    /\ queued = <<>>
    /\ Park({})
    /\ UNCHANGED <<status, channels, storageVars, engineVars, queued, insert,
                   pipelineEvents, canonicalHead, executed>>

\* Mutant: the queue is taken from its end.
StartInsert_PopBack ==
    /\ At("insert", "none")
    /\ queued # <<>>
    /\ insert' = [NoInsert EXCEPT !.stage = "lock", !.txs = queued[Len(queued)],
                                  !.events = pipelineEvents]
    /\ queued' = SubSeq(queued, 1, Len(queued) - 1)
    /\ pipelineEvents' = FALSE
    /\ UNCHANGED <<status, channels, storageVars, engineVars, wakers, woken, taskPc,
                   canonicalHead, executed>>
StartInsert ==
    /\ At("insert", "none")
    /\ queued # <<>>
    /\ insert' = [NoInsert EXCEPT !.stage = "lock", !.txs = Head(queued),
                                  !.events = pipelineEvents]
    /\ queued' = Tail(queued)
    /\ pipelineEvents' = FALSE
    /\ UNCHANGED <<status, channels, storageVars, engineVars, wakers, woken, taskPc,
                   canonicalHead, executed>>

AcquireLock ==
    /\ At("insert", "lock")
    /\ IF lock = "free"
       THEN /\ lock' = "write"
            /\ insert' = [insert EXCEPT !.stage = "execute"]
            /\ UNCHANGED <<taskPc, wakers, woken>>
       ELSE Park({"lock"}) /\ UNCHANGED <<lock, insert>>
    /\ UNCHANGED <<status, channels, storageInner, engineVars, queued,
                   pipelineEvents, canonicalHead, executed>>

\* The block is executed on the provider's latest state and inserted.
ExecuteOk ==
    /\ At("insert", "execute")
    /\ BuildAndExecute(insert.txs, StateAfter(latest))
    /\ executed' = Append(executed, [txs |-> insert.txs, ok |-> TRUE])
    /\ insert' = [insert EXCEPT !.stage = "clear", !.head = bestHash']
    /\ UNCHANGED <<status, channels, lock, engineVars, wakers, woken, taskPc, queued,
                   pipelineEvents, canonicalHead>>

\* drop(storage).  Mutant: the lock is kept while the engine is waited for.
DropStorage_Not == UNCHANGED lock
DropStorage == lock' = "free"

\* Its transactions leave the pool, which others read and fill without the lock
\* of the storage, and the lock is dropped.  Mutant: they stay in the pool.
ClearPool_Not ==
    /\ At("insert", "clear")
    /\ insert' = [insert EXCEPT !.stage = "send"]
    /\ DropStorage
    /\ UNCHANGED <<status, channels, storageInner, engineVars, wakers, woken, taskPc,
                   queued, pipelineEvents, canonicalHead, executed>>
ClearPool ==
    /\ At("insert", "clear")
    /\ pool' = pool \ insert.txs
    /\ insert' = [insert EXCEPT !.stage = "send"]
    /\ DropStorage
    /\ UNCHANGED <<status, proposals, decisionSteps, toTask, storageInner, engineVars,
                   wakers, woken, taskPc, queued, pipelineEvents, canonicalHead,
                   executed>>

\* build_and_execute returns an error, because the executor rejects the block or
\* for a reason of its own (no sender, no state): the block is given up.
\* Mutant: its transactions leave the pool.
ExecuteErr_ClearsPool ==
    /\ At("insert", "execute")
    /\ executed' = Append(executed, [txs |-> insert.txs, ok |-> FALSE])
    /\ pool' = pool \ insert.txs
    /\ Ready(insert.events)
    /\ lock' = "free"
    /\ UNCHANGED <<status, proposals, decisionSteps, toTask, storageInner, engineVars,
                   wakers, woken, queued, canonicalHead>>
ExecuteErr ==
    /\ At("insert", "execute")
    /\ executed' = Append(executed, [txs |-> insert.txs, ok |-> FALSE])
    /\ Ready(insert.events)
    /\ lock' = "free"
    /\ UNCHANGED <<status, channels, storageInner, engineVars, wakers, woken, queued,
                   canonicalHead>>

\* A send to an engine that is gone is ignored here and found out at the await.
SendForkchoice ==
    /\ At("insert", "send")
    /\ fcu' = IF Running("engine") THEN {insert.head} ELSE {}
    /\ reply' = {}
    /\ insert' = [insert EXCEPT !.stage = "await"]
    /\ UNCHANGED <<status, channels, storageVars, target, fetched, imported, badBlocks,
                   latest, errors, wakers, woken, taskPc, queued, pipelineEvents,
                   canonicalHead, executed>>

AwaitReply ==
    /\ At("insert", "await")
    /\ reply = {}
    /\ IF Running("engine")
       THEN Park({"engine"}) /\ UNCHANGED status
       ELSE Ends("task", "no engine") /\ UNCHANGED <<taskPc, wakers, woken>>
    /\ UNCHANGED <<channels, storageVars, engineVars, queued, insert, pipelineEvents,
                   canonicalHead, executed>>

\* Mutants: SYNCING, or a refusal, is taken for VALID.
OnReply_SyncingBreaks(r) ==
    \/ /\ r \in {"Valid", "Syncing"}
       /\ canonicalHead' = insert.head
       /\ Ready(insert.events)
    \/ /\ r \in {"Invalid", "Err"}
       /\ Ready(FALSE)
       /\ UNCHANGED canonicalHead
OnReply_RefusalBreaks(r) ==
    \/ /\ r # "Syncing"
       /\ canonicalHead' = insert.head
       /\ Ready(insert.events)
    \/ /\ r = "Syncing"
       /\ insert' = [insert EXCEPT !.stage = "send"]
       /\ UNCHANGED <<canonicalHead, pipelineEvents, taskPc>>
OnReply(r) ==
    \/ /\ r = "Valid"
       /\ canonicalHead' = insert.head
       /\ Ready(insert.events)
    \/ /\ r = "Syncing"
       /\ insert' = [insert EXCEPT !.stage = "send"]
       /\ UNCHANGED <<canonicalHead, pipelineEvents, taskPc>>
    \/ /\ r \in {"Invalid", "Err"}
       /\ Ready(FALSE)
       /\ UNCHANGED canonicalHead

HandleReply ==
    /\ At("insert", "await")
    /\ \E r \in reply : OnReply(r)
    /\ reply' = {}
    /\ UNCHANGED <<status, channels, storageVars, fcu, target, fetched, imported,
                   badBlocks, latest, errors, wakers, woken, queued, executed>>

TaskNext ==
    \/ Poll \/ ReceiveBlock \/ NothingToInsert \/ StartInsert \/ AcquireLock
    \/ ExecuteOk \/ ClearPool \/ ExecuteErr \/ SendForkchoice \/ AwaitReply
    \/ HandleReply

TaskTypeOK ==
    /\ taskPc \in {"parked", "recv", "insert"}
    /\ queued \in Seq(SUBSET Txs)
    /\ insert \in [stage : Stages, txs : SUBSET Txs, head : Hashes, events : BOOLEAN]
    /\ pipelineEvents \in BOOLEAN
    /\ canonicalHead \in Hashes
    /\ executed \in Seq([txs : SUBSET Txs, ok : BOOLEAN])
=============================================================================
