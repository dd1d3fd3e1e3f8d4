----------------------------- MODULE NodeProofs -----------------------------
(***************************************************************************)
(* Proofs about the whole node, for every set of transactions, every       *)
(* number of workers, every bound and every choice of faults: the          *)
(* execution layer keeps its guarantees inside the node, what is executed  *)
(* is what was built, a block is rejected only for a reason the code has,  *)
(* and main sees its transaction.                                          *)
(***************************************************************************)
EXTENDS Node, EngineProofs

\* The prover of the steps that name no other; most of them need no arithmetic.
USE Zenon

LaunchTypes ==
    /\ stage \in Fallible \cup {"chain", "consumer", "spawn", "subscribe", "watch",
                             "returned"}
    /\ spawned \in SUBSET Threads
    /\ notices \in Seq(Hashes)
    /\ built \in Seq(Values) /\ decided \in 0..Len(built)
    /\ seen \in Seq(Nat)
    /\ gaveUp \subseteq DOMAIN executed

-----------------------------------------------------------------------------
(* The execution layer inside the node.  A thread can also end in ways that *)
(* the execution layer alone does not have: by a panic of another layer, a  *)
(* failed launch or a cancellation.  Those steps touch nothing else.        *)

Halts ==
    /\ status' \in [Threads -> Statuses]
    /\ fcu' \in {fcu, {}}
    /\ wakers' \subseteq wakers /\ woken' \in BOOLEAN
    /\ UNCHANGED <<channels, storageVars, reply, target, fetched, imported, badBlocks,
                   latest, errors, taskVars, submitted, sent>>

\* A thread that ends takes nothing of the execution layer's guarantees with it.
LEMMA HaltsKeeps ==
    ASSUME ExecInv, Halts
    PROVE  ExecInv'
<1>. USE DEF Halts, channels, storageVars, storageInner, taskVars
<1>1. ExecTypes'
  <2>1. ChannelsTypeOK'
    BY DEF ExecInv, ExecTypes, ChannelsTypeOK
  <2>2. StorageTypeOK'
    BY DEF ExecInv, ExecTypes, StorageTypeOK
  <2>3. TaskSideTypes'
    BY DEF ExecInv, ExecTypes, TaskSideTypes
  <2>4. TaskTypeOK'
    BY DEF ExecInv, ExecTypes, TaskTypeOK
  <2>. QED
    BY <2>1, <2>2, <2>3, <2>4 DEF ExecInv, ExecTypes
<1>2. Linked' /\ Indexed' /\ HeadIsBest'
  <2>1. UNCHANGED <<headers, hashToNumber, bodies, bestBlock, bestHash, totalDifficulty,
                    canonicalHead, insert>>
    OBVIOUS
  <2>2. Linked'
    BY <2>1 DEF ExecInv, Linked, StorageLinked
  <2>3. Indexed' /\ HeadIsBest'
    BY <2>1 DEF ExecInv, Indexed, HeadIsBest
  <2>. QED
    BY <2>2, <2>3
<1>3. EngineInv' /\ NothingLost'
  <2>1. EngineInv'
    BY DEF ExecInv, EngineInv, FetchedStored
  <2>2. NothingLost'
    BY DEF ExecInv, NothingLost
  <2>. QED
    BY <2>1, <2>2
<1>4. Faultless' /\ ExecutedOnParent'
  BY DEF ExecInv, Faultless, ExecutedOnParent
<1>. QED
  BY <1>1, <1>2, <1>3, <1>4 DEF ExecInv

\* What is built comes from the pool, and what is relayed from what is built.
Lineage ==
    /\ pool \subseteq submitted
    /\ \A i \in DOMAIN built : built[i].id = i - 1 /\ built[i].txs \subseteq submitted
    /\ Len(sent) <= decided
    /\ \A i \in DOMAIN sent : sent[i] = built[i].txs

\* The ends of threads.
LEMMA ThreadEnds ==
    ASSUME ExecTypes, NEW t \in Threads, NEW s \in Statuses, Ends(t, s)
    PROVE  status' \in [Threads -> Statuses]
BY DEF Ends, ExecTypes, ChannelsTypeOK

\* The steps of the node by what they do to the layers below it.
LEMMA NodeCases ==
    ASSUME ExecTypes, [NodeNext]_nodeVars
    PROVE  \/ UNCHANGED <<execVars, consensusVars>>
           \/ (\E t \in Txs : Submit(t)) /\ UNCHANGED consensusVars
           \/ BuildBlock
           \/ DecideBlock
           \/ RelayBlock
           \/ ConsumerEnds /\ UNCHANGED consensusVars
           \/ Tasking /\ UNCHANGED consensusVars
           \/ (EngineNext \/ EngineEnds) /\ UNCHANGED <<taskVars, submitted, sent, consensusVars>>
           \/ Halts /\ UNCHANGED consensusVars
<1>1. ASSUME Launch
      PROVE  \/ UNCHANGED <<execVars, consensusVars>>
             \/ (\E t \in Txs : Submit(t)) /\ UNCHANGED consensusVars
  BY <1>1, LauncherAssumption DEF Launch, LaunchNext, SetUp, SpawnChain, SpawnConsumer,
     SpawnTask, ConfigureEngine, LaunchRpc, SpawnEngine, NodeStarted, Subscribe,
     SubmitMainTx, GoesOn
<1>2. ASSUME LaunchFails PROVE Halts /\ UNCHANGED consensusVars
  <2>1. Fails /\ UNCHANGED consensusVars
    BY <1>2 DEF LaunchFails
  <2>2. /\ status' = [t \in Threads |-> IF t \in spawned THEN status[t] ELSE "stopped"]
        /\ IF "engine" \in spawned THEN UNCHANGED <<fcu, wakers, woken>>
           ELSE fcu' = {} /\ Wake("engine")
        /\ UNCHANGED <<channels, storageVars, reply, target, fetched, imported,
                       badBlocks, latest, errors, taskVars, submitted, sent>>
    BY <2>1 DEF Fails
  <2>3. status' \in [Threads -> Statuses]
    BY <2>2 DEF ExecTypes, ChannelsTypeOK, Statuses
  <2>4. fcu' \in {fcu, {}} /\ wakers' \subseteq wakers /\ woken' \in BOOLEAN
    BY <2>2 DEF Wake, ExecTypes, TaskSideTypes
  <2>. QED
    BY <2>1, <2>2, <2>3, <2>4 DEF Halts
<1>3. ASSUME Clients PROVE (\E t \in Txs : Submit(t)) /\ UNCHANGED consensusVars
  BY <1>3 DEF Clients, SubmitOther
<1>4. ASSUME BuilderPanics \/ SimulatorStarves \/ SimulatorPanics \/ ConsumerPanics
      PROVE  Halts /\ UNCHANGED consensusVars
  <2>1. /\ \E t \in Threads, s \in Statuses : Ends(t, s)
        /\ UNCHANGED <<channels, storageVars, engineVars, wakers, woken, taskVars,
                       submitted, sent, consensusVars>>
    BY <1>4 DEF BuilderPanics, SimulatorStarves, SimulatorPanics, ConsumerPanics,
       Elsewhere, Log!BuilderPanics, Log!SimulatorStarves, Log!SimulatorPanics,
       Log!ConsumerPanics, Log!Ends, Ends, Threads, Statuses, Panics
  <2>2. status' \in [Threads -> Statuses]
    BY <2>1, ThreadEnds
  <2>. QED
    BY <2>1, <2>2 DEF Halts, engineVars, ExecTypes, TaskSideTypes
<1>5. ASSUME Cancels
      PROVE  \/ Halts /\ UNCHANGED consensusVars
             \/ EngineEnds /\ UNCHANGED <<taskVars, submitted, sent, consensusVars>>
  <2>1. UNCHANGED consensusVars
    BY <1>5 DEF Cancels
  <2>2. CASE CancelConsumer \/ CancelTask
    <3>1. /\ \E t \in Threads, s \in Statuses : Ends(t, s)
          /\ Wake("channel") \/ UNCHANGED <<wakers, woken>>
          /\ UNCHANGED <<channels, storageVars, engineVars, taskVars, submitted, sent>>
      BY <2>2 DEF CancelConsumer, CancelTask, Threads, Statuses
    <3>2. status' \in [Threads -> Statuses]
      BY <3>1, ThreadEnds
    <3>3. wakers' \subseteq wakers /\ woken' \in BOOLEAN
      BY <3>1 DEF Wake, ExecTypes, TaskSideTypes
    <3>. QED
      BY <2>1, <3>1, <3>2, <3>3 DEF Halts, engineVars
  <2>3. CASE CancelEngine
    BY <2>1, <2>3 DEF CancelEngine
  <2>. QED
    BY <1>5, <2>2, <2>3 DEF Cancels
<1>6. ASSUME EngineRuns \/ EnginePanics
      PROVE  /\ EngineNext \/ EngineEnds
             /\ UNCHANGED <<taskVars, submitted, sent, consensusVars>>
  BY <1>6 DEF EngineRuns, Engines, EnginePanics, EngineNext
<1>7. ASSUME TaskRuns PROVE Tasking /\ UNCHANGED consensusVars
  BY <1>7 DEF TaskRuns
<1>8. ASSUME ConsumerStops PROVE ConsumerEnds /\ UNCHANGED consensusVars
  BY <1>8 DEF ConsumerStops
<1>9. ASSUME UNCHANGED nodeVars PROVE UNCHANGED <<execVars, consensusVars>>
  BY <1>9 DEF nodeVars
<1>10. \/ Launch \/ LaunchFails \/ Clients
       \/ BuildBlock \/ BuilderPanics \/ DecideBlock \/ SimulatorPanics
       \/ SimulatorStarves \/ RelayBlock \/ ConsumerPanics \/ ConsumerStops
       \/ TaskRuns \/ EngineRuns \/ EnginePanics \/ Cancels
       \/ UNCHANGED nodeVars
  BY DEF NodeNext, BuilderRuns, SimulatorRuns, ConsumerRuns
<1>. QED
  BY <1>1, <1>2, <1>3, <1>4, <1>5, <1>6, <1>7, <1>8, <1>9, <1>10

\* The block that is relayed is the next one of those built: the log of the blocks
\* relayed grows by it.
LEMMA NextToRelay ==
    ASSUME ExecTypes, LaunchTypes, Lineage, RelayBlock
    PROVE  /\ Len(sent) + 1 \in DOMAIN built /\ Len(sent) \in Nat
           /\ Len(sent) + 1 <= decided
           /\ built[Len(sent) + 1] \in Values
           /\ built[Len(sent) + 1].txs \in SUBSET submitted
           /\ Relay(built[Len(sent) + 1].txs)
<1>. DEFINE Numbered(s) == [i \in DOMAIN s |-> [id |-> i - 1, txs |-> s[i]]]
            k == Len(sent) + 1
<1>1. PICK txs \in SUBSET Txs : Relay(txs) /\ Log!Relay
  BY DEF RelayBlock
<1>2. /\ Len(Numbered(sent)) < decided
      /\ Numbered(sent') = Append(Numbered(sent), built[Len(Numbered(sent)) + 1])
  BY <1>1 DEF Log!Relay
<1>3. /\ sent \in Seq(SUBSET Txs) /\ Len(sent) \in Nat /\ DOMAIN sent = 1..Len(sent)
      /\ built \in Seq(Values) /\ Len(built) \in Nat /\ DOMAIN built = 1..Len(built)
      /\ decided \in 0..Len(built)
  BY SMT DEF ExecTypes, LaunchTypes
<1>4. Numbered(sent) \in Seq(Values) /\ Len(Numbered(sent)) = Len(sent)
  <2>1. \A i \in 1..Len(sent) : [id |-> i - 1, txs |-> sent[i]] \in Values
    BY <1>3, SMT DEF Values
  <2>. QED
    BY <1>3, <2>1, SMT
<1>5. k \in 1..Len(built) /\ k <= decided
  BY <1>2, <1>3, <1>4, SMT
<1>6. built[k] \in Values
  BY <1>3, <1>5, ElementOfSeq
<1>7. Numbered(sent')[k] = built[k]
  <2>1. PICK s \in Seq(Values) : s = Numbered(sent) /\ Len(s) = Len(sent)
    BY <1>4
  <2>2. Append(s, built[k])[Len(s) + 1] = built[k]
    BY <1>6, AppendProperties
  <2>3. Numbered(sent') = Append(s, built[k])
    BY <1>2, <2>1
  <2>. QED
    BY <2>1, <2>2, <2>3
<1>8. DOMAIN sent' = 1..k /\ sent'[k] = txs /\ k \in 1..k
  <2>1. sent' = Append(sent, txs)
    BY <1>1 DEF Relay
  <2>. QED
    BY <1>3, <2>1, SMT
<1>9. Numbered(sent')[k].txs = txs
  BY <1>8
<1>. QED
  BY <1>1, <1>3, <1>5, <1>6, <1>7, <1>9 DEF Lineage

\* Every step of the node is one of the execution layer, or ends a thread.
LEMMA NodeIsExec ==
    ASSUME ExecTypes, LaunchTypes, Lineage, [NodeNext]_nodeVars
    PROVE  [ExecNext]_execVars \/ Halts
<1>1. ASSUME NEW t \in Txs, Submit(t) PROVE ExecNext
  BY <1>1 DEF ExecNext, Environment
<1>2. ASSUME RelayBlock PROVE ExecNext
  BY <1>2, NextToRelay DEF ExecNext, Environment
<1>3. ASSUME ConsumerEnds PROVE ExecNext
  BY <1>3 DEF ExecNext, Environment
<1>4. ASSUME Tasking PROVE ExecNext
  BY <1>4 DEF ExecNext
<1>5. ASSUME EngineNext \/ EngineEnds, UNCHANGED <<taskVars, submitted, sent>> PROVE ExecNext
  BY <1>5 DEF ExecNext, Engining, Environment
<1>6. ASSUME BuildBlock \/ DecideBlock PROVE UNCHANGED execVars
  BY <1>6 DEF BuildBlock, DecideBlock
<1>. QED
  BY <1>1, <1>2, <1>3, <1>4, <1>5, <1>6, NodeCases

\* Which steps change the pool, the chain or the history of blocks.
LEMMA NodeFrame ==
    ASSUME ExecTypes, [NodeNext]_nodeVars
    PROVE  \/ (\E t \in Txs : Submit(t)) /\ UNCHANGED consensusVars
           \/ BuildBlock
           \/ DecideBlock
           \/ RelayBlock
           \/ TaskNext /\ UNCHANGED <<submitted, sent, consensusVars>>
           \/ UNCHANGED <<pool, submitted, bestHash, executed, insert, sent, consensusVars>>
<1>1. ASSUME EngineNext \/ EngineEnds, UNCHANGED <<taskVars, submitted, sent>>
      PROVE  UNCHANGED <<pool, submitted, bestHash, executed, insert, sent>>
  BY <1>1, EngineEffect DEF channels, storageInner, taskVars
<1>2. ASSUME Halts
      PROVE  UNCHANGED <<pool, submitted, bestHash, executed, insert, sent>>
  BY <1>2 DEF Halts, channels, storageVars, storageInner, taskVars
<1>3. ASSUME ConsumerEnds
      PROVE  UNCHANGED <<pool, submitted, bestHash, executed, insert, sent>>
  BY <1>3 DEF ConsumerEnds, channels, storageVars, storageInner, taskVars
<1>4. ASSUME UNCHANGED execVars
      PROVE  UNCHANGED <<pool, submitted, bestHash, executed, insert, sent>>
  BY <1>4 DEF execVars, channels, storageVars, storageInner, taskVars
<1>5. ASSUME Tasking PROVE TaskNext /\ UNCHANGED <<submitted, sent>>
  BY <1>5 DEF Tasking
<1>. QED
  BY <1>1, <1>2, <1>3, <1>4, <1>5, NodeCases

\* What the task does to the pool, the chain and the history of executions.
LEMMA TaskFrame ==
    ASSUME ExecTypes, TaskNext
    PROVE  \/ ExecuteOk /\ UNCHANGED pool
           \/ ExecuteErr /\ UNCHANGED <<pool, bestHash>>
           \/ ClearPool /\ UNCHANGED <<bestHash, executed>>
           \/ /\ UNCHANGED <<pool, bestHash, executed>>
              /\ UNCHANGED insert \/ "clear" \notin {insert.stage, insert'.stage}
<1>1. \/ ExecuteOk /\ UNCHANGED pool
      \/ ExecuteErr /\ UNCHANGED <<pool, bestHash>>
      \/ ClearPool /\ UNCHANGED <<bestHash, executed>>
      \/ /\ UNCHANGED <<pool, bestHash, executed>>
         /\ ~ExecuteOk /\ ~ClearPool
  BY DEF TaskNext, Poll, ReceiveBlock, NothingToInsert, StartInsert, AcquireLock,
     ExecuteOk, ClearPool, ExecuteErr, SendForkchoice, AwaitReply, HandleReply, channels,
     storageVars, storageInner
<1>2. ASSUME ~ExecuteOk, ~ClearPool
      PROVE  UNCHANGED insert \/ "clear" \notin {insert.stage, insert'.stage}
  <2>1. CASE Poll \/ ReceiveBlock \/ NothingToInsert \/ AwaitReply
    BY <2>1 DEF Poll, ReceiveBlock, NothingToInsert, AwaitReply
  <2>2. CASE StartInsert
    <3>1. /\ queued # <<>> /\ insert.stage = "none"
          /\ insert' = [NoInsert EXCEPT !.stage = "lock", !.txs = Head(queued),
                                        !.events = pipelineEvents]
      BY <2>2 DEF StartInsert, At
    <3>2. Head(queued) \in SUBSET Txs /\ pipelineEvents \in BOOLEAN
      BY <3>1, SMT DEF ExecTypes, TaskTypeOK
    <3>. QED
      BY <3>1, <3>2, StartInsertType
  <2>3. CASE AcquireLock
    <3>1. /\ UNCHANGED insert \/ insert' = [insert EXCEPT !.stage = "execute"]
          /\ insert.stage = "lock"
      BY <2>3 DEF AcquireLock, At
    <3>. QED
      BY <3>1, InsertStage DEF ExecTypes, Stages
  <2>4. CASE ExecuteErr
    BY <2>4, NoInsertType DEF ExecuteErr, At, Ready
  <2>5. CASE SendForkchoice
    <3>1. insert.stage = "send" /\ insert' = [insert EXCEPT !.stage = "await"]
      BY <2>5 DEF SendForkchoice, At
    <3>. QED
      BY <3>1, InsertStage DEF ExecTypes, Stages
  <2>6. CASE HandleReply
    <3>1. /\ insert.stage = "await"
          /\ insert' = NoInsert \/ insert' = [insert EXCEPT !.stage = "send"]
      BY <2>6 DEF HandleReply, OnReply, Ready, At
    <3>. QED
      BY <3>1, NoInsertType, InsertStage DEF ExecTypes, Stages
  <2>. QED
    BY <1>2, <2>1, <2>2, <2>3, <2>4, <2>5, <2>6 DEF TaskNext
<1>. QED
  BY <1>1, <1>2

\* Blocks are built from the pool and relayed once decided.
LEMMA LineageNext ==
    ASSUME ExecTypes, LaunchTypes, Lineage, [NodeNext]_nodeVars
    PROVE  Lineage'
<1>1. ASSUME NEW t \in Txs, Submit(t), UNCHANGED consensusVars PROVE Lineage'
  <2>1. /\ pool' = pool \cup {t} /\ submitted' = submitted \cup {t}
        /\ UNCHANGED <<sent, built, decided>>
    BY <1>1 DEF Submit, consensusVars
  <2>. QED
    BY <2>1 DEF Lineage
<1>2. CASE BuildBlock
  <2>1. PICK b : b = [id |-> Len(built), txs |-> pool]
    OBVIOUS
  <2>2. /\ built' = Append(built, b) /\ UNCHANGED <<pool, submitted, sent, decided>>
    BY <1>2, <2>1 DEF BuildBlock, Log!Build, execVars, channels
  <2>3. Len(built) \in Nat /\ pool \in SUBSET Txs /\ built \in Seq(Values)
    BY SMT DEF LaunchTypes, ExecTypes, ChannelsTypeOK
  <2>4. b \in Values /\ b.id = Len(built) /\ b.txs = pool
    BY <2>1, <2>3 DEF Values
  <2>5. /\ DOMAIN built' = 1..Len(built)+1 /\ DOMAIN built = 1..Len(built)
        /\ \A i \in 1..Len(built) : built'[i] = built[i]
        /\ built'[Len(built)+1] = b
    BY <2>2, <2>3, <2>4, SMT
  <2>6. \A i \in DOMAIN sent : i \in 1..Len(built)
    BY <2>3, SMT DEF Lineage, LaunchTypes, ExecTypes
  <2>7. ASSUME NEW i \in DOMAIN built'
        PROVE  built'[i].id = i - 1 /\ built'[i].txs \subseteq submitted'
    <3>1. i \in 1..Len(built) \/ i = Len(built) + 1
      BY <2>3, <2>5, SMT
    <3>2. Len(built) = (Len(built) + 1) - 1
      BY <2>3, SMT
    <3>. QED
      BY <2>2, <2>4, <2>5, <3>1, <3>2 DEF Lineage
  <2>. QED
    BY <2>2, <2>5, <2>6, <2>7 DEF Lineage
<1>3. CASE DecideBlock
  <2>1. decided' = decided + 1 /\ UNCHANGED <<pool, submitted, sent, built>>
    BY <1>3 DEF DecideBlock, Log!Decide, execVars, channels
  <2>2. Len(sent) \in Nat /\ decided \in Nat
    BY SMT DEF LaunchTypes, ExecTypes
  <2>. QED
    BY <2>1, <2>2, SMT DEF Lineage
<1>4. CASE RelayBlock
  <2>1. PICK txs : txs = built[Len(sent) + 1].txs
    OBVIOUS
  <2>2. /\ sent' = Append(sent, txs)
        /\ UNCHANGED <<pool, submitted, built, decided>>
    BY <1>4, <2>1, NextToRelay DEF RelayBlock, Relay, consensusVars
  <2>3. /\ Len(sent) + 1 \in DOMAIN built /\ Len(sent) \in Nat
        /\ Len(sent) + 1 <= decided /\ txs \in SUBSET Txs /\ sent \in Seq(SUBSET Txs)
    BY <1>4, <2>1, NextToRelay DEF ExecTypes
  <2>4. /\ DOMAIN sent' = 1..Len(sent)+1 /\ DOMAIN sent = 1..Len(sent)
        /\ Len(sent') = Len(sent) + 1
        /\ \A i \in 1..Len(sent) : sent'[i] = sent[i]
        /\ sent'[Len(sent)+1] = txs
    BY <2>2, <2>3, SMT
  <2>5. ASSUME NEW i \in DOMAIN sent' PROVE sent'[i] = built'[i].txs
    <3>1. i \in 1..Len(sent) \/ i = Len(sent) + 1
      BY <2>3, <2>4, SMT
    <3>. QED
      BY <2>1, <2>2, <2>4, <3>1 DEF Lineage
  <2>. QED
    BY <2>2, <2>3, <2>4, <2>5 DEF Lineage
<1>5. ASSUME TaskNext, UNCHANGED <<submitted, sent, consensusVars>> PROVE Lineage'
  <2>1. pool' \subseteq pool
    <3>1. ASSUME ClearPool PROVE pool' \subseteq pool
      BY <3>1 DEF ClearPool
    <3>. QED
      BY <1>5, <3>1, TaskFrame
  <2>. QED
    BY <1>5, <2>1 DEF Lineage, consensusVars
<1>6. CASE UNCHANGED <<pool, submitted, bestHash, executed, insert, sent, consensusVars>>
  BY <1>6 DEF Lineage, consensusVars
<1>. QED
  BY <1>1, <1>2, <1>3, <1>4, <1>5, <1>6, NodeFrame

-----------------------------------------------------------------------------
(* Types. *)

\* How a step changes the launcher and what main is notified of.
LEMMA LaunchFrame ==
    ASSUME [NodeNext]_nodeVars
    PROVE  \/ Launch
           \/ LaunchFails
           \/ /\ EngineNext /\ Notify
              /\ UNCHANGED <<taskVars, submitted, sent, stage, spawned, consensusVars>>
           \/ /\ UNCHANGED <<launchVars, latest, errors>>
              /\ Clients \/ UNCHANGED submitted
<1>1. ASSUME Clients PROVE UNCHANGED <<launchVars, latest, errors>>
  BY <1>1 DEF Clients, SubmitOther, Submit, engineVars
<1>2. ASSUME BuildBlock \/ DecideBlock
      PROVE  UNCHANGED <<launchVars, latest, errors>> /\ UNCHANGED submitted
  BY <1>2 DEF BuildBlock, DecideBlock, execVars, engineVars
<1>3. ASSUME BuilderPanics \/ SimulatorStarves \/ SimulatorPanics \/ ConsumerPanics
      PROVE  UNCHANGED <<launchVars, latest, errors>> /\ UNCHANGED submitted
  BY <1>3 DEF BuilderPanics, SimulatorStarves, SimulatorPanics, ConsumerPanics,
     Elsewhere, engineVars
<1>4. ASSUME RelayBlock \/ ConsumerStops
      PROVE  UNCHANGED <<launchVars, latest, errors>> /\ UNCHANGED submitted
  BY <1>4 DEF RelayBlock, Relay, ConsumerStops, ConsumerEnds, engineVars
<1>5. ASSUME TaskRuns
      PROVE  UNCHANGED <<launchVars, latest, errors>> /\ UNCHANGED submitted
  BY <1>5 DEF TaskRuns, Tasking, TaskNext, Poll, ReceiveBlock, NothingToInsert,
     StartInsert, AcquireLock, ExecuteOk, ClearPool, ExecuteErr, SendForkchoice,
     AwaitReply, HandleReply, engineVars
<1>6. ASSUME Cancels \/ EnginePanics
      PROVE  UNCHANGED <<launchVars, latest, errors>> /\ UNCHANGED submitted
  BY <1>6 DEF Cancels, CancelConsumer, CancelTask, CancelEngine, EnginePanics,
     EngineEnds, engineVars
<1>7. ASSUME EngineRuns
      PROVE  /\ EngineNext /\ Notify
             /\ UNCHANGED <<taskVars, submitted, sent, stage, spawned, consensusVars>>
  BY <1>7 DEF EngineRuns, Engines, EngineNext
<1>8. ASSUME UNCHANGED nodeVars
      PROVE  UNCHANGED <<launchVars, latest, errors>> /\ UNCHANGED submitted
  BY <1>8 DEF nodeVars, execVars, engineVars
<1>. QED
  BY <1>1, <1>2, <1>3, <1>4, <1>5, <1>6, <1>7, <1>8
     DEF NodeNext, BuilderRuns, SimulatorRuns, ConsumerRuns

\* While the pool is being cleared of a block, that block is the last one executed.
Clearing ==
    insert.stage = "clear" =>
        Len(executed) > 0 /\ executed[Len(executed)].txs = insert.txs

\* What an execution adds to the history.
LEMMA ExecutionAdds ==
    ASSUME ExecTypes, NEW ok \in BOOLEAN,
           executed' = Append(executed, [txs |-> insert.txs, ok |-> ok])
    PROVE  /\ Len(executed) \in Nat /\ Len(executed') = Len(executed) + 1
           /\ DOMAIN executed = 1..Len(executed) /\ DOMAIN executed' = 1..Len(executed)+1
           /\ \A j \in 1..Len(executed) : executed'[j] = executed[j]
           /\ executed'[Len(executed)+1].txs = insert.txs
           /\ executed'[Len(executed)+1].ok = ok
<1>1. PICK e : e = [txs |-> insert.txs, ok |-> ok]
  OBVIOUS
<1>2. /\ e \in [txs : SUBSET Txs, ok : BOOLEAN] /\ e.txs = insert.txs /\ e.ok = ok
      /\ executed \in Seq([txs : SUBSET Txs, ok : BOOLEAN])
      /\ executed' = Append(executed, e)
  BY <1>1 DEF ExecTypes, TaskTypeOK
<1>3. /\ Len(executed) \in Nat /\ Len(executed') = Len(executed) + 1
      /\ DOMAIN executed = 1..Len(executed) /\ DOMAIN executed' = 1..Len(executed)+1
      /\ \A j \in 1..Len(executed) : executed'[j] = executed[j]
      /\ executed'[Len(executed)+1] = e
  BY <1>2, SMT
<1>. QED
  BY <1>2, <1>3

\* What the task does when it has executed a block, successfully or not.
LEMMA ExecutionIs ==
    ASSUME ExecTypes, ExecuteOk \/ ExecuteErr
    PROVE  /\ insert.stage = "execute"
           /\ \E ok \in BOOLEAN :
                /\ executed' = Append(executed, [txs |-> insert.txs, ok |-> ok])
                /\ insert'.stage = "clear" <=> ok
                /\ ok => bestHash' = Append(bestHash, insert.txs) /\ insert'.txs = insert.txs
                /\ ~ok => ExecuteErr /\ UNCHANGED bestHash
<1>1. CASE ExecuteOk
  <2>1. /\ insert.stage = "execute" /\ bestHash' = Append(bestHash, insert.txs)
        /\ bestHash' \in Hashes
    BY <1>1, ExecuteEffect
  <2>2. /\ executed' = Append(executed, [txs |-> insert.txs, ok |-> TRUE])
        /\ insert' = [insert EXCEPT !.stage = "clear", !.head = bestHash']
    BY <1>1 DEF ExecuteOk
  <2>3. insert'.stage = "clear" /\ insert'.txs = insert.txs
    BY <2>2 DEF ExecTypes, TaskTypeOK
  <2>. QED
    BY <2>1, <2>2, <2>3
<1>2. CASE ExecuteErr
  <2>1. /\ insert.stage = "execute" /\ insert' = NoInsert /\ UNCHANGED bestHash
        /\ executed' = Append(executed, [txs |-> insert.txs, ok |-> FALSE])
    BY <1>2 DEF ExecuteErr, At, Ready, storageInner
  <2>. QED
    BY <1>2, <2>1, NoInsertType
<1>. QED
  BY <1>1, <1>2

\* Clearing the pool ends that stage.
LEMMA ClearIs ==
    ASSUME ExecTypes, ClearPool
    PROVE  /\ insert.stage = "clear" /\ insert'.stage # "clear"
           /\ pool' = pool \ insert.txs
<1>1. /\ insert.stage = "clear" /\ pool' = pool \ insert.txs
      /\ insert' = [insert EXCEPT !.stage = "send"]
  BY DEF ClearPool, At
<1>. QED
  BY <1>1, InsertStage DEF ExecTypes, Stages

\* The pool is cleared of the block that was just executed.
LEMMA ClearingNext ==
    ASSUME ExecTypes, Clearing, [NodeNext]_nodeVars
    PROVE  Clearing'
<1>1. CASE UNCHANGED <<insert, executed>>
  BY <1>1 DEF Clearing
<1>2. CASE TaskNext
  <2>1. CASE ExecuteOk \/ ExecuteErr
    <3>1. PICK ok \in BOOLEAN :
             /\ executed' = Append(executed, [txs |-> insert.txs, ok |-> ok])
             /\ insert'.stage = "clear" <=> ok
             /\ ok => insert'.txs = insert.txs
      BY <2>1, ExecutionIs
    <3>2. /\ Len(executed) \in Nat /\ Len(executed') = Len(executed) + 1
          /\ executed'[Len(executed)+1].txs = insert.txs
      BY <3>1, ExecutionAdds
    <3>3. Len(executed') > 0
      BY <3>2, SMT
    <3>. QED
      BY <3>1, <3>2, <3>3 DEF Clearing
  <2>2. CASE ClearPool
    BY <2>2, ClearIs DEF Clearing
  <2>3. CASE /\ UNCHANGED <<pool, bestHash, executed>>
             /\ UNCHANGED insert \/ "clear" \notin {insert.stage, insert'.stage}
    BY <2>3 DEF Clearing
  <2>. QED
    BY <1>2, <2>1, <2>2, <2>3, TaskFrame
<1>3. ASSUME BuildBlock \/ DecideBlock PROVE UNCHANGED <<insert, executed>>
  BY <1>3 DEF BuildBlock, DecideBlock, execVars, taskVars
<1>4. ASSUME RelayBlock PROVE UNCHANGED <<insert, executed>>
  BY <1>4 DEF RelayBlock, Relay, taskVars
<1>5. ASSUME NEW t \in Txs, Submit(t) PROVE UNCHANGED <<insert, executed>>
  BY <1>5 DEF Submit, taskVars
<1>. QED
  BY <1>1, <1>2, <1>3, <1>4, <1>5, NodeFrame

\* The number of blocks that have left the pool.
LEMMA DoneIs ==
    ASSUME ExecTypes, Clearing
    PROVE  Done \in Nat /\ Done <= Len(executed) /\ Len(executed) \in Nat
<1>1. Len(executed) \in Nat
  BY SMT DEF ExecTypes, TaskTypeOK
<1>. QED
  BY <1>1, SMT DEF Clearing, Done

\* A block appended to those built is a value.
LEMMA BuiltTypes ==
    ASSUME ExecTypes, LaunchTypes, Clearing, [NodeNext]_nodeVars
    PROVE  /\ built' \in Seq(Values) /\ decided' \in 0..Len(built')
           /\ seen' \in Seq(Nat)
<1>1. CASE UNCHANGED consensusVars
  BY <1>1 DEF LaunchTypes, consensusVars
<1>2. CASE BuildBlock
  <2>1. PICK b : b = [id |-> Len(built), txs |-> pool]
    OBVIOUS
  <2>2. built' = Append(built, b) /\ seen' = Append(seen, Done)
        /\ decided' = decided
    BY <1>2, <2>1 DEF BuildBlock, Log!Build
  <2>3. /\ Len(built) \in Nat /\ pool \in SUBSET Txs /\ built \in Seq(Values)
        /\ seen \in Seq(Nat) /\ decided \in 0..Len(built)
    BY SMT DEF LaunchTypes, ExecTypes, ChannelsTypeOK, TaskTypeOK
  <2>4. b \in Values
    BY <2>1, <2>3 DEF Values
  <2>5. PICK d \in Nat : d = Done
    BY DoneIs
  <2>. QED
    BY <2>2, <2>3, <2>4, <2>5, SMT
<1>3. CASE DecideBlock
  <2>1. decided < Len(built) /\ decided' = decided + 1 /\ UNCHANGED <<built, seen>>
    BY <1>3 DEF DecideBlock, Log!Decide
  <2>. QED
    BY <2>1, SMT DEF LaunchTypes
<1>4. ASSUME RelayBlock PROVE UNCHANGED consensusVars
  BY <1>4 DEF RelayBlock
<1>. QED
  BY <1>1, <1>2, <1>3, <1>4, NodeCases

\* The blocks given up are among those executed.
LEMMA GaveUpNext ==
    ASSUME ExecTypes, gaveUp \subseteq DOMAIN executed, [NodeNext]_nodeVars
    PROVE  /\ gaveUp' \subseteq DOMAIN executed'
           /\ TaskRuns \/ UNCHANGED <<gaveUp, executed>>
<1>1. TaskRuns \/ UNCHANGED gaveUp
  BY DEF NodeNext, nodeVars, Launch, LaunchFails, Clients, BuilderRuns, BuildBlock,
     BuilderPanics, SimulatorRuns, DecideBlock, SimulatorPanics, SimulatorStarves,
     ConsumerRuns, RelayBlock, ConsumerPanics, ConsumerStops, EngineRuns, Engines,
     EnginePanics, Cancels, Elsewhere
<1>2. TaskRuns \/ UNCHANGED executed
  <2>1. ASSUME Launch \/ Clients PROVE UNCHANGED executed
    BY <2>1 DEF Launch, LaunchNext, SetUp, SpawnChain, SpawnConsumer, SpawnTask,
       ConfigureEngine, LaunchRpc, SpawnEngine, NodeStarted, Subscribe, SubmitMainTx,
       GoesOn, Clients, SubmitOther, Submit, execVars, taskVars
  <2>2. ASSUME LaunchFails PROVE UNCHANGED executed
    BY <2>2 DEF LaunchFails, Fails, taskVars
  <2>3. ASSUME BuilderRuns \/ SimulatorRuns \/ SimulatorStarves PROVE UNCHANGED executed
    BY <2>3 DEF BuilderRuns, BuildBlock, BuilderPanics, SimulatorRuns, DecideBlock,
       SimulatorPanics, SimulatorStarves, Elsewhere, execVars, taskVars
  <2>4. ASSUME ConsumerRuns PROVE UNCHANGED executed
    BY <2>4 DEF ConsumerRuns, RelayBlock, Relay, ConsumerPanics, ConsumerStops,
       ConsumerEnds, Elsewhere, taskVars
  <2>5. ASSUME EngineRuns \/ EnginePanics \/ Cancels PROVE UNCHANGED executed
    BY <2>5 DEF EngineRuns, Engines, EnginePanics, Cancels, CancelConsumer, CancelTask,
       CancelEngine, taskVars
  <2>6. ASSUME UNCHANGED nodeVars PROVE UNCHANGED executed
    BY <2>6 DEF nodeVars, execVars, taskVars
  <2>. QED
    BY <2>1, <2>2, <2>3, <2>4, <2>5, <2>6 DEF NodeNext
<1>3. ASSUME TaskRuns PROVE gaveUp' \subseteq DOMAIN executed'
  <2>1. TaskNext /\ gaveUp' = gaveUp \cup {i \in {Len(executed) + 1} : FailsToExecute}
    BY <1>3 DEF TaskRuns, Tasking
  <2>2. CASE ExecuteOk \/ ExecuteErr
    <3>1. PICK ok \in BOOLEAN :
             executed' = Append(executed, [txs |-> insert.txs, ok |-> ok])
      BY <2>2, ExecutionIs
    <3>2. /\ DOMAIN executed = 1..Len(executed) /\ DOMAIN executed' = 1..Len(executed)+1
          /\ Len(executed) \in Nat
      BY <3>1, ExecutionAdds
    <3>3. DOMAIN executed \cup {Len(executed) + 1} \subseteq DOMAIN executed'
      BY <3>2, SMT
    <3>. QED
      BY <2>1, <3>3
  <2>3. CASE UNCHANGED executed
    <3>1. ~FailsToExecute
      <4>1. Len(executed) \in Nat
        BY SMT DEF ExecTypes, TaskTypeOK
      <4>2. ~(Len(executed) > Len(executed))
        BY <4>1, SMT
      <4>. QED
        BY <2>3, <4>2 DEF FailsToExecute
    <3>. QED
      BY <2>1, <2>3, <3>1
  <2>. QED
    BY <2>1, <2>2, <2>3, TaskFrame
<1>. QED
  BY <1>1, <1>2, <1>3

\* The launcher's variables keep their types.
LEMMA LaunchTypesNext ==
    ASSUME ExecTypes, LaunchTypes, Clearing, [NodeNext]_nodeVars
    PROVE  LaunchTypes'
<1>1. /\ stage' \in Fallible \cup {"chain", "consumer", "spawn", "subscribe", "watch",
                                   "returned"}
      /\ spawned' \in SUBSET Threads
      /\ notices' \in Seq(Hashes)
  <2>1. CASE Launch
    BY <2>1 DEF Launch, LaunchNext, SetUp, SpawnChain, SpawnConsumer, SpawnTask,
       ConfigureEngine, LaunchRpc, SpawnEngine, NodeStarted, Subscribe, SubmitMainTx,
       GoesOn, LaunchTypes, Fallible, FallibleLaunch, FallibleMain, Threads
  <2>2. CASE LaunchFails
    BY <2>2 DEF LaunchFails, Fails, LaunchTypes
  <2>3. ASSUME EngineNext, Notify, UNCHANGED <<stage, spawned>>
        PROVE  notices' \in Seq(Hashes)
    <3>1. latest' \in Hashes
      BY <2>3, EngineEffect DEF TaskSideTypes
    <3>. QED
      BY <2>3, <3>1, SMT DEF Notify, LaunchTypes
  <2>. QED
    BY <2>1, <2>2, <2>3, LaunchFrame DEF LaunchTypes, launchVars
<1>2. gaveUp' \subseteq DOMAIN executed'
  BY GaveUpNext DEF LaunchTypes
<1>. QED
  BY <1>1, <1>2, BuiltTypes DEF LaunchTypes

NodeInv == ExecInv /\ LaunchTypes /\ Lineage /\ Clearing /\ BlocksInOrder

\* It holds at the start.
LEMMA NodeInvInit == NodeInit => NodeInv
<1>. SUFFICES ASSUME NodeInit PROVE NodeInv
  OBVIOUS
<1>1. ExecInit /\ LaunchInit /\ built = <<>> /\ decided = 0 /\ seen = <<>> /\ gaveUp = {}
  BY DEF NodeInit
<1>2. ExecInv /\ BlocksInOrder
  BY <1>1, ExecInvInit, InOrderInit
<1>3. LaunchTypes
  <2>1. /\ stage \in Fallible /\ spawned \in SUBSET Threads
        /\ gaveUp \subseteq DOMAIN executed /\ notices = <<>>
    BY <1>1 DEF LaunchInit, Fallible, FallibleLaunch
  <2>2. /\ <<>> \in Seq(Hashes) /\ <<>> \in Seq(Values) /\ <<>> \in Seq(Nat)
        /\ 0 \in 0..Len(<<>>)
    BY SMT
  <2>. QED
    BY <1>1, <2>1, <2>2 DEF LaunchTypes
<1>4. Lineage
  BY <1>1, SMT DEF ExecInit, ChannelsInit, Lineage
<1>5. Clearing
  BY <1>1 DEF ExecInit, TaskInit, NoInsert, Clearing
<1>. QED
  BY <1>2, <1>3, <1>4, <1>5 DEF NodeInv

\* Every step of the node keeps it.
LEMMA NodeInvNext ==
    ASSUME NodeInv, [NodeNext]_nodeVars
    PROVE  NodeInv'
<1>1. ExecTypes /\ LaunchTypes /\ Lineage /\ Clearing /\ ExecInv /\ BlocksInOrder
  BY DEF NodeInv, ExecInv
<1>2. ExecInv'
  BY <1>1, NodeIsExec, ExecInvNext, HaltsKeeps
<1>3. BlocksInOrder'
  <2>1. ASSUME Halts PROVE BlocksInOrder'
    <3>1. UNCHANGED <<executed, queued, toTask, sent, insert>>
      BY <2>1 DEF Halts, channels, taskVars
    <3>2. Inserting(insert') = Inserting(insert)
      BY <3>1
    <3>. QED
      BY <1>1, <3>1, <3>2, InOrderKept
  <2>. QED
    BY <1>1, <2>1, NodeIsExec, InOrderNext
<1>. QED
  BY <1>1, <1>2, <1>3, LaunchTypesNext, LineageNext, ClearingNext DEF NodeInv

\* Every variable of the node has its type (NodeTypeOK): whatever fails, the blocks
\* built are values of consecutive numbers and main is notified of hashes of blocks.
THEOREM NodeTypesCorrect == NodeSpec => []NodeTypeOK
<1>1. NodeInv => NodeTypeOK
  BY DEF NodeInv, ExecInv, ExecTypes, TaskSideTypes, EngineInv, ExecTypeOK, EngineTypeOK,
     FetchedStored, LaunchTypes, NodeTypeOK
<1>. QED
  BY <1>1, NodeInvInit, NodeInvNext, PTL DEF NodeSpec

\* The guarantees of the execution layer hold inside the node as they do on their
\* own: one linked chain, blocks in order, each run on the state of its parent, and no
\* transaction lost.
THEOREM LayersCompose ==
    NodeSpec => [](/\ StorageLinked /\ BlocksInOrder /\ ExecutedOnParent
                   /\ CanonicalIsStored /\ NoTransactionLost)
<1>1. NodeInv => /\ StorageLinked /\ BlocksInOrder /\ ExecutedOnParent
                 /\ CanonicalIsStored /\ NoTransactionLost
  BY NotLost DEF NodeInv, ExecInv, Linked, EngineInv, HeadIsBest, Faultless,
     CanonicalIsStored
<1>. QED
  BY <1>1, NodeInvInit, NodeInvNext, PTL DEF NodeSpec

-----------------------------------------------------------------------------
(* What is executed is what was built. *)

\* The order of the blocks, place by place.
LEMMA InOrderAt ==
    ASSUME ExecTypes, BlocksInOrder
    PROVE  /\ DOMAIN executed = 1..Len(executed) /\ Len(executed) \in Nat
           /\ DOMAIN sent = 1..Len(sent) /\ Len(sent) \in Nat
           /\ Len(executed) <= Len(sent)
           /\ \A i \in 1..Len(executed) : sent[i] = executed[i].txs
           /\ insert.stage \in {"lock", "execute"} =>
                /\ Len(executed) + 1 <= Len(sent)
                /\ sent[Len(executed) + 1] = insert.txs
<1>1. PICK done, rest : /\ done = BlocksOf(executed)
                        /\ rest = (Inserting(insert) \o queued) \o toTask
  OBVIOUS
<1>2. done \in Seq(SUBSET Txs) /\ rest \in Seq(SUBSET Txs) /\ done \o rest = sent
  BY <1>1, InOrderTypes, InOrderDef, ConcatProperties DEF Blocks
<1>3. /\ DOMAIN executed = 1..Len(executed) /\ Len(executed) \in Nat
      /\ Len(done) = Len(executed)
      /\ \A i \in 1..Len(executed) : done[i] = executed[i].txs
  <2>1. DOMAIN executed = 1..Len(executed) /\ Len(executed) \in Nat
    BY SMT DEF ExecTypes, TaskTypeOK
  <2>2. done = [i \in 1..Len(executed) |-> executed[i].txs]
    BY <1>1, <2>1 DEF BlocksOf
  <2>. QED
    BY <1>2, <2>1, <2>2, SMT
<1>4. /\ Len(sent) = Len(done) + Len(rest) /\ Len(done) \in Nat /\ Len(rest) \in Nat
      /\ \A i \in 1..Len(done) : sent[i] = done[i]
      /\ \A i \in 1..Len(rest) : sent[Len(done) + i] = rest[i]
      /\ DOMAIN sent = 1..Len(sent)
  BY <1>2, SMT
<1>5. ASSUME insert.stage \in {"lock", "execute"}
      PROVE  Len(rest) >= 1 /\ rest[1] = insert.txs
  <2>1. Inserting(insert) = <<insert.txs>>
    BY <1>5 DEF Inserting
  <2>2. /\ queued \in Seq(SUBSET Txs) /\ toTask \in Seq(SUBSET Txs)
        /\ insert.txs \in SUBSET Txs
    BY InOrderTypes DEF Blocks
  <2>3. PICK first : first = <<insert.txs>> \o queued
    OBVIOUS
  <2>4. first \in Seq(SUBSET Txs) /\ Len(first) >= 1 /\ first[1] = insert.txs
    BY <2>2, <2>3, SMT
  <2>5. rest = first \o toTask
    BY <1>1, <2>1, <2>3
  <2>. QED
    BY <2>2, <2>4, <2>5, SMT
<1>. QED
  BY <1>3, <1>4, <1>5, SMT

\* Across both layers, whatever fails and whoever panics: the blocks executed are the
\* first of those built, each only after it was decided (ExecutedAsBuilt).
THEOREM ExecutesAsBuilt == NodeSpec => []ExecutedAsBuilt
<1>1. ASSUME NodeInv PROVE ExecutedAsBuilt
  <2>1. ExecTypes /\ BlocksInOrder /\ Lineage /\ LaunchTypes
    BY <1>1 DEF NodeInv, ExecInv
  <2>2. decided \in Nat /\ Len(sent) <= decided
    BY <2>1, SMT DEF Lineage, LaunchTypes
  <2>3. ASSUME NEW i \in DOMAIN executed
        PROVE  i <= decided /\ executed[i].txs = built[i].txs
    <3>1. i \in 1..Len(executed) /\ i \in DOMAIN sent /\ sent[i] = executed[i].txs
          /\ i <= Len(sent) /\ Len(sent) \in Nat
      BY <2>1, InOrderAt, SMT
    <3>. QED
      BY <2>1, <2>2, <3>1, SMT DEF Lineage
  <2>. QED
    BY <2>3 DEF ExecutedAsBuilt
<1>. QED
  BY <1>1, NodeInvInit, NodeInvNext, PTL DEF NodeSpec

-----------------------------------------------------------------------------
(* Why a block is rejected.  When a block is built, nothing in the pool has *)
(* left it with an executed block; so whatever stands against it later left *)
(* the pool after that.                                                     *)

Snapshots ==
    /\ Len(seen) = Len(built)
    /\ StateAfter(bestHash) \subseteq submitted
    /\ \A t \in StateAfter(bestHash) :
         \E j \in DOMAIN executed : executed[j].ok /\ t \in executed[j].txs
    /\ \A j \in DOMAIN executed : executed[j].txs \subseteq submitted
    /\ \A j \in 1..Done : executed[j].ok => executed[j].txs \cap pool = {}
    /\ \A k \in DOMAIN built :
         /\ seen[k] <= Len(executed)
         /\ \A j \in 1..seen[k] : executed[j].ok => executed[j].txs \cap built[k].txs = {}

\* A block about to be executed is the next of those built.
LEMMA NextBlock ==
    ASSUME NodeInv, insert.stage = "execute"
    PROVE  /\ Len(executed) + 1 \in DOMAIN built /\ Len(executed) \in Nat
           /\ insert.txs = built[Len(executed) + 1].txs
           /\ insert.txs \subseteq submitted
<1>1. ExecTypes /\ BlocksInOrder /\ Lineage /\ LaunchTypes
  BY DEF NodeInv, ExecInv
<1>2. /\ Len(executed) \in Nat /\ Len(sent) \in Nat
      /\ Len(executed) + 1 \in DOMAIN sent /\ sent[Len(executed) + 1] = insert.txs
  BY <1>1, InOrderAt, SMT
<1>3. DOMAIN sent \subseteq DOMAIN built
  BY <1>1, InOrderAt, SMT DEF Lineage, LaunchTypes
<1>. QED
  BY <1>1, <1>2, <1>3 DEF Lineage

\* An execution adds to the history.
LEMMA SnapshotsExecute ==
    ASSUME NodeInv, Snapshots, NEW ok \in BOOLEAN, insert.stage = "execute",
           executed' = Append(executed, [txs |-> insert.txs, ok |-> ok]),
           insert'.stage = "clear" <=> ok,
           IF ok THEN bestHash' = Append(bestHash, insert.txs) ELSE UNCHANGED bestHash,
           UNCHANGED <<pool, submitted, consensusVars>>
    PROVE  Snapshots'
<1>1. /\ ExecTypes /\ LaunchTypes /\ bestHash \in Hashes /\ insert.txs \in SUBSET Txs
      /\ insert.txs \subseteq submitted
  BY NextBlock DEF NodeInv, ExecInv, ExecTypes, StorageTypeOK, TaskTypeOK
<1>4. /\ Len(executed) \in Nat /\ Len(executed') = Len(executed) + 1
      /\ DOMAIN executed = 1..Len(executed) /\ DOMAIN executed' = 1..Len(executed)+1
      /\ \A j \in 1..Len(executed) : executed'[j] = executed[j]
      /\ executed'[Len(executed)+1].txs = insert.txs
      /\ executed'[Len(executed)+1].ok = ok
  BY <1>1, ExecutionAdds
<1>5. UNCHANGED <<pool, submitted, built, seen>>
  BY DEF consensusVars
<1>6. StateAfter(bestHash') = IF ok THEN StateAfter(bestHash) \cup insert.txs
                              ELSE StateAfter(bestHash)
  BY <1>1, StateAfterAppend
<1>7. /\ StateAfter(bestHash') \subseteq submitted'
      /\ \A j \in DOMAIN executed' : executed'[j].txs \subseteq submitted'
  <2>1. StateAfter(bestHash') \subseteq submitted'
    BY <1>1, <1>5, <1>6 DEF Snapshots
  <2>2. ASSUME NEW j \in DOMAIN executed' PROVE executed'[j].txs \subseteq submitted'
    <3>1. j \in 1..Len(executed) \/ j = Len(executed) + 1
      BY <1>4, SMT
    <3>. QED
      BY <1>1, <1>4, <1>5, <3>1 DEF Snapshots
  <2>. QED
    BY <2>1, <2>2
<1>8. ASSUME NEW t \in StateAfter(bestHash')
      PROVE  \E j \in DOMAIN executed' : executed'[j].ok /\ t \in executed'[j].txs
  <2>1. CASE t \in StateAfter(bestHash)
    <3>1. PICK j \in DOMAIN executed : executed[j].ok /\ t \in executed[j].txs
      BY <2>1 DEF Snapshots
    <3>2. j \in DOMAIN executed' /\ executed'[j] = executed[j]
      BY <1>4, SMT
    <3>. QED
      BY <3>1, <3>2
  <2>2. CASE ok /\ t \in insert.txs
    <3>1. PICK n \in Nat : n = Len(executed)
      BY <1>4
    <3>2. n + 1 \in DOMAIN executed'
      BY <1>4, <3>1, SMT
    <3>3. executed'[n + 1].txs = insert.txs /\ executed'[n + 1].ok = ok
      BY <1>4, <3>1
    <3>. QED
      BY <2>2, <3>2, <3>3
  <2>. QED
    BY <1>6, <2>1, <2>2
<1>9. ASSUME NEW j \in 1..Done', executed'[j].ok
      PROVE  executed'[j].txs \cap pool' = {}
  <2>1. Done = Len(executed)
    BY DEF Done
  <2>2. Done' = IF ok THEN Len(executed') - 1 ELSE Len(executed')
    BY DEF Done
  <2>3. j \in 1..Len(executed) \/ (j = Len(executed) + 1 /\ ~ok)
    BY <1>4, <2>2, SMT
  <2>4. CASE j \in 1..Len(executed)
    BY <1>4, <1>5, <1>9, <2>1, <2>4 DEF Snapshots
  <2>. QED
    BY <1>4, <1>9, <2>3, <2>4
<1>10. ASSUME NEW k \in DOMAIN built'
       PROVE  /\ seen'[k] <= Len(executed')
              /\ \A j \in 1..seen'[k] :
                   executed'[j].ok => executed'[j].txs \cap built'[k].txs = {}
  <2>1. k \in DOMAIN built /\ seen'[k] = seen[k] /\ built'[k] = built[k]
    BY <1>5
  <2>2. PICK n \in Nat, b \in Nat : n = seen[k] /\ b = Len(executed) /\ n <= b
    <3>1. seen \in Seq(Nat) /\ built \in Seq(Values) /\ Len(seen) = Len(built)
      BY <1>1 DEF LaunchTypes, Snapshots
    <3>2. k \in DOMAIN seen
      BY <2>1, <3>1, LenProperties
    <3>3. seen[k] \in Nat
      BY <3>1, <3>2, SMT
    <3>4. seen[k] <= Len(executed)
      BY <2>1 DEF Snapshots
    <3>. QED
      BY <1>4, <3>3, <3>4
  <2>3. n <= Len(executed')
    BY <1>4, <2>2, SMT
  <2>4. ASSUME NEW j \in 1..n, executed'[j].ok
        PROVE  executed'[j].txs \cap built[k].txs = {}
    <3>1. j \in 1..b
      BY <2>2, SMT
    <3>2. executed'[j] = executed[j]
      BY <1>4, <2>2, <3>1
    <3>. QED
      BY <2>1, <2>2, <2>4, <3>2 DEF Snapshots
  <2>. QED
    BY <2>1, <2>2, <2>3, <2>4
<1>. QED
  <2>1. Len(seen') = Len(built')
    BY <1>5 DEF Snapshots
  <2>. QED
    BY <2>1, <1>7, <1>8, <1>9, <1>10 DEF Snapshots

\* A block is built from what no executed block has taken out of the pool.
LEMMA SnapshotsBuild ==
    ASSUME NodeInv, Snapshots, BuildBlock
    PROVE  Snapshots'
<1>1. PICK b : b = [id |-> Len(built), txs |-> pool]
  OBVIOUS
<1>2. /\ built' = Append(built, b) /\ seen' = Append(seen, Done)
      /\ UNCHANGED <<pool, submitted, bestHash, executed, insert>>
  BY <1>1 DEF BuildBlock, Log!Build, execVars, channels, storageVars, storageInner,
     taskVars
<1>3. /\ built \in Seq(Values) /\ seen \in Seq(Nat)
      /\ pool \in SUBSET Txs
  BY DEF NodeInv, ExecInv, LaunchTypes, ExecTypes, ChannelsTypeOK
<1>d. PICK d \in Nat : d = Done /\ d <= Len(executed) /\ Done' = d
  <2>1. Done \in Nat /\ Done <= Len(executed)
    BY DoneIs DEF NodeInv, ExecInv
  <2>2. Done' = Done
    BY <1>2 DEF Done
  <2>. QED
    BY <2>1, <2>2
<1>4. b \in Values /\ b.txs = pool
  <2>1. PICK n \in Nat : n = Len(built)
    BY <1>3, SMT
  <2>2. b = [id |-> n, txs |-> pool] /\ pool \in SUBSET Txs
    BY <1>1, <1>3, <2>1
  <2>. QED
    BY <2>2 DEF Values
<1>5. PICK n \in Nat : n = Len(built) /\ n = Len(seen)
  <2>1. PICK n \in Nat : n = Len(built)
    BY <1>3, SMT
  <2>2. Len(seen) = Len(built)
    BY DEF Snapshots
  <2>. QED
    BY <2>1, <2>2
<1>6. /\ DOMAIN built' = 1..n+1 /\ Len(built') = n + 1 /\ Len(seen') = n + 1
      /\ \A i \in 1..n : built'[i] = built[i] /\ seen'[i] = seen[i]
      /\ built'[n+1] = b /\ seen'[n+1] = d /\ DOMAIN built = 1..n
  <2>1. /\ DOMAIN built' = 1..n+1 /\ Len(built') = n + 1 /\ DOMAIN built = 1..n
        /\ \A i \in 1..n : built'[i] = built[i]
        /\ built'[n+1] = b
    <3>1. /\ DOMAIN built' = 1..Len(built)+1 /\ DOMAIN built = 1..Len(built)
          /\ Len(built') = Len(built) + 1
          /\ \A i \in 1..Len(built) : built'[i] = built[i]
          /\ built'[Len(built)+1] = b
      BY <1>2, <1>3, <1>4, SMT
    <3>. QED
      BY <1>5, <3>1
  <2>2. /\ Len(seen') = n + 1
        /\ \A i \in 1..n : seen'[i] = seen[i]
        /\ seen'[n+1] = d
    BY <1>2, <1>3, <1>d, <1>5, SMT
  <2>. QED
    BY <2>1, <2>2
<1>7. ASSUME NEW k \in DOMAIN built'
      PROVE  /\ seen'[k] <= Len(executed')
             /\ \A j \in 1..seen'[k] :
                  executed'[j].ok => executed'[j].txs \cap built'[k].txs = {}
  <2>1. CASE k \in 1..n
    BY <1>2, <1>6, <2>1 DEF Snapshots
  <2>2. CASE k = n + 1
    <3>1. seen'[k] = d /\ built'[k].txs = pool
      BY <1>4, <1>6, <2>2
    <3>2. ASSUME NEW j \in 1..d, executed[j].ok
          PROVE  executed[j].txs \cap pool = {}
      BY <1>d, <3>2 DEF Snapshots
    <3>. QED
      BY <1>2, <1>d, <3>1, <3>2
  <2>. QED
    BY <1>6, <2>1, <2>2, SMT
<1>8. Len(seen') = Len(built')
  BY <1>6
<1>. QED
  BY <1>2, <1>d, <1>7, <1>8 DEF Snapshots

\* Clearing the pool of the last executed block takes its transactions out.
LEMMA SnapshotsClear ==
    ASSUME NodeInv, Snapshots, ClearPool, UNCHANGED <<bestHash, executed>>,
           UNCHANGED <<submitted, consensusVars>>
    PROVE  Snapshots'
<1>1. /\ ExecTypes /\ Clearing
  BY DEF NodeInv, ExecInv
<1>2. insert.stage = "clear" /\ insert'.stage # "clear" /\ pool' = pool \ insert.txs
  BY <1>1, ClearIs
<1>3. /\ Done = Len(executed) - 1 /\ Done' = Len(executed)
      /\ executed[Len(executed)].txs = insert.txs
  BY <1>1, <1>2 DEF Done, Clearing
<1>4. PICK n \in Nat : n = Len(executed)
  BY <1>1, DoneIs
<1>5. ASSUME NEW j \in 1..Done', executed'[j].ok
      PROVE  executed'[j].txs \cap pool' = {}
  <2>1. j \in 1..Done \/ j = n
    BY <1>3, <1>4, SMT
  <2>2. CASE j \in 1..Done
    BY <1>2, <1>5, <2>2 DEF Snapshots
  <2>3. CASE j = n
    BY <1>2, <1>3, <1>4, <2>3
  <2>. QED
    BY <2>1, <2>2, <2>3
<1>6. UNCHANGED <<submitted, bestHash, executed, built, seen>>
  BY DEF consensusVars
<1>. QED
  BY <1>5, <1>6 DEF Snapshots

\* Every step keeps it.
LEMMA SnapshotsNext ==
    ASSUME NodeInv, Snapshots, [NodeNext]_nodeVars
    PROVE  Snapshots'
<1>. ExecTypes /\ LaunchTypes /\ Lineage /\ Clearing
  BY DEF NodeInv, ExecInv
<1>1. ASSUME NEW t \in Txs, Submit(t), UNCHANGED consensusVars PROVE Snapshots'
  <2>1. /\ t \notin submitted
        /\ pool' = pool \cup {t} /\ submitted' = submitted \cup {t}
        /\ UNCHANGED <<bestHash, executed, insert, built, seen>>
    BY <1>1 DEF Submit, consensusVars, storageVars, storageInner, taskVars
  <2>2. Done' = Done
    BY <2>1 DEF Done
  <2>3. ASSUME NEW j \in 1..Done, executed[j].ok PROVE executed[j].txs \cap pool' = {}
    <3>1. j \in DOMAIN executed
      <4>1. /\ Done \in Nat /\ Done <= Len(executed) /\ Len(executed) \in Nat
        BY DoneIs
      <4>2. executed \in Seq([txs : SUBSET Txs, ok : BOOLEAN])
        BY DEF ExecTypes, TaskTypeOK
      <4>. QED
        BY <4>1, <4>2, SMT
    <3>2. executed[j].txs \subseteq submitted /\ executed[j].txs \cap pool = {}
      BY <2>3, <3>1 DEF Snapshots
    <3>. QED
      BY <2>1, <3>2
  <2>4. /\ StateAfter(bestHash) \subseteq submitted'
        /\ \A j \in DOMAIN executed : executed[j].txs \subseteq submitted'
    BY <2>1 DEF Snapshots
  <2>. QED
    BY <2>1, <2>2, <2>3, <2>4 DEF Snapshots
<1>2. CASE BuildBlock
  BY <1>2, SnapshotsBuild
<1>3. ASSUME UNCHANGED <<pool, submitted, bestHash, executed, built, seen>>, Done' = Done
      PROVE  Snapshots'
  BY <1>3 DEF Snapshots
<1>4. ASSUME DecideBlock PROVE Snapshots'
  <2>1. UNCHANGED <<pool, submitted, bestHash, executed, insert, built, seen>>
    BY <1>4 DEF DecideBlock, Log!Decide, execVars, channels, storageVars, storageInner,
       taskVars
  <2>2. Done' = Done
    BY <2>1 DEF Done
  <2>. QED
    BY <1>3, <2>1, <2>2
<1>5. ASSUME RelayBlock PROVE Snapshots'
  <2>1. UNCHANGED <<pool, submitted, bestHash, executed, insert, built, seen>>
    BY <1>5 DEF RelayBlock, Relay, consensusVars, storageVars, storageInner, taskVars
  <2>2. Done' = Done
    BY <2>1 DEF Done
  <2>. QED
    BY <1>3, <2>1, <2>2
<1>6. ASSUME TaskNext, UNCHANGED <<submitted, sent, consensusVars>> PROVE Snapshots'
  <2>1. ASSUME ExecuteOk \/ ExecuteErr, UNCHANGED pool PROVE Snapshots'
    <3>1. PICK ok \in BOOLEAN :
             /\ executed' = Append(executed, [txs |-> insert.txs, ok |-> ok])
             /\ insert'.stage = "clear" <=> ok
             /\ ok => bestHash' = Append(bestHash, insert.txs)
             /\ ~ok => UNCHANGED bestHash
      BY <2>1, ExecutionIs
    <3>2. insert.stage = "execute"
      BY <2>1, ExecutionIs
    <3>. QED
      BY <1>6, <2>1, <3>1, <3>2, SnapshotsExecute
  <2>2. CASE ClearPool /\ UNCHANGED <<bestHash, executed>>
    BY <1>6, <2>2, SnapshotsClear
  <2>3. CASE /\ UNCHANGED <<pool, bestHash, executed>>
             /\ UNCHANGED insert \/ "clear" \notin {insert.stage, insert'.stage}
    <3>1. Done' = Done
      BY <2>3 DEF Done
    <3>. QED
      BY <1>3, <1>6, <2>3, <3>1 DEF consensusVars
  <2>. QED
    BY <1>6, <2>1, <2>2, <2>3, TaskFrame
<1>7. CASE UNCHANGED <<pool, submitted, bestHash, executed, insert, sent, consensusVars>>
  <2>1. UNCHANGED <<pool, submitted, bestHash, executed, built, seen>>
    BY <1>7 DEF consensusVars
  <2>2. Done' = Done
    BY <1>7 DEF Done
  <2>. QED
    BY <1>3, <2>1, <2>2
<1>. QED
  BY <1>1, <1>2, <1>4, <1>5, <1>6, <1>7, NodeFrame

\* Nothing is executed or built at the start.
LEMMA SnapshotsInit == NodeInit => Snapshots
<1>. SUFFICES ASSUME NodeInit PROVE Snapshots
  OBVIOUS
<1>1. built = <<>> /\ seen = <<>> /\ executed = <<>> /\ insert = NoInsert
  BY DEF NodeInit, ExecInit, TaskInit
<1>2. StateAfter(bestHash) = {}
  BY StartHeaderType DEF NodeInit, ExecInit, StorageInit
<1>3. Done = 0
  BY <1>1, SMT DEF Done, NoInsert
<1>. QED
  BY <1>1, <1>2, <1>3, SMT DEF Snapshots

\* The block about to be executed has a snapshot.
LEMMA SeenAt ==
    ASSUME NodeInv, Snapshots, insert.stage = "execute"
    PROVE  seen[Len(executed) + 1] \in Nat
<1>1. seen \in Seq(Nat) /\ built \in Seq(Values) /\ Len(seen) = Len(built)
  BY DEF NodeInv, LaunchTypes, Snapshots
<1>2. PICK i : i = Len(executed) + 1
  OBVIOUS
<1>3. i \in DOMAIN built
  BY <1>2, NextBlock
<1>4. i \in 1..Len(seen)
  BY <1>1, <1>3, LenProperties
<1>. QED
  BY <1>1, <1>2, <1>4, ElementOfSeq

\* A block that fails to execute has a reason, and it is one that OnlyStaleIsRejected
\* names.
LEMMA RejectedNow ==
    ASSUME NodeInv, Snapshots, errors = 0, ExecuteErr,
           ~Executable(insert.txs, StateAfter(latest)), insert.txs \notin Oversized
    PROVE  \E j \in seen[Len(executed) + 1]+1..Len(executed) :
             executed[j].ok /\ executed[j].txs \cap insert.txs # {}
<1>. DEFINE i == Len(executed) + 1
<1>1. insert.stage = "execute" /\ latest = bestHash
  BY DEF ExecuteErr, At, NodeInv, ExecInv, Faultless
<1>2. PICK t \in insert.txs : t \in StateAfter(bestHash)
  BY <1>1 DEF Executable
<1>3. PICK j \in DOMAIN executed : executed[j].ok /\ t \in executed[j].txs
  BY <1>2 DEF Snapshots
<1>4. i \in DOMAIN built /\ Len(executed) \in Nat /\ insert.txs = built[i].txs
  BY <1>1, NextBlock
<1>5. seen[i] \in Nat /\ j \in 1..Len(executed)
  <2>3. seen[i] \in Nat
    BY <1>1, SeenAt
  <2>4. executed \in Seq([txs : SUBSET Txs, ok : BOOLEAN])
    BY DEF NodeInv, ExecInv, ExecTypes, TaskTypeOK
  <2>. QED
    BY <1>3, <2>3, <2>4, LenProperties
<1>6. j \notin 1..seen[i]
  BY <1>2, <1>3, <1>4 DEF Snapshots
<1>7. j \in seen[i]+1..Len(executed)
  <2>1. PICK n \in Nat : n = seen[i]
    BY <1>5
  <2>2. PICK b \in Nat : b = Len(executed)
    BY <1>4
  <2>3. j \in n+1..b
    BY <1>5, <1>6, <2>1, <2>2, SMT
  <2>. QED
    BY <2>1, <2>2, <2>3
<1>. QED
  BY <1>2, <1>3, <1>7

\* The engine never takes an error back.
LEMMA ErrorsStay ==
    ASSUME NodeInv, [NodeNext]_nodeVars, errors' = 0
    PROVE  errors = 0
<1>1. errors \in Nat
  <2>1. errors \in 0..MaxErrors
    BY DEF NodeInv, ExecInv, EngineInv
  <2>. QED
    BY <2>1, MaxErrorsAssumption, SMT
<1>2. errors' = errors \/ errors' = errors + 1
  <2>1. ASSUME Launch \/ LaunchFails PROVE errors' = errors
    BY <2>1 DEF Launch, LaunchNext, SetUp, SpawnChain, SpawnConsumer, SpawnTask,
       ConfigureEngine, LaunchRpc, SpawnEngine, NodeStarted, Subscribe, SubmitMainTx,
       GoesOn, Submit, execVars, engineVars, LaunchFails, Fails
  <2>2. ASSUME EngineNext PROVE errors' = errors \/ errors' = errors + 1
    BY <2>2 DEF EngineNext, ForkchoiceUpdated, Downloads, StartDownload, ReceiveHeaders,
       FinishDownload, engineVars
  <2>. QED
    BY <2>1, <2>2, LaunchFrame
<1>. QED
  BY <1>1, <1>2, SMT

\* What a step of the node adds to the history of executions and of snapshots.
LEMMA HistoryGrows ==
    ASSUME NodeInv, Snapshots, [NodeNext]_nodeVars
    PROVE  \A i \in DOMAIN executed :
             /\ executed'[i] = executed[i] /\ seen'[i] = seen[i] /\ i \in 1..Len(executed)
             /\ i \in gaveUp => i \in gaveUp'
             /\ \A j \in seen[i]+1..i-1 : executed'[j] = executed[j]
<1>1. /\ ExecTypes /\ LaunchTypes /\ Lineage /\ Clearing /\ BlocksInOrder
  BY DEF NodeInv, ExecInv
<1>2. gaveUp \subseteq gaveUp'
  BY <1>1, GaveUpNext DEF TaskRuns, LaunchTypes
<1>3. PICK n \in Nat : n = Len(executed) /\ DOMAIN executed = 1..n
  BY <1>1, InOrderAt
<1>4. \A i \in 1..n : executed'[i] = executed[i]
  <2>1. CASE UNCHANGED executed
    BY <2>1
  <2>2. CASE TaskNext
    <3>1. CASE ExecuteOk \/ ExecuteErr
      <4>1. PICK ok \in BOOLEAN :
               executed' = Append(executed, [txs |-> insert.txs, ok |-> ok])
        BY <1>1, <3>1, ExecutionIs
      <4>. QED
        BY <1>1, <1>3, <4>1, ExecutionAdds
    <3>. QED
      BY <1>1, <2>1, <2>2, <3>1, TaskFrame
  <2>. QED
    BY <1>1, <2>1, <2>2, GaveUpNext DEF TaskRuns, Tasking, LaunchTypes
<1>5. PICK m \in Nat : m = Len(seen) /\ n <= m /\ DOMAIN seen = 1..m
  <2>1. seen \in Seq(Nat) /\ built \in Seq(Values) /\ Len(seen) = Len(built)
        /\ decided \in 0..Len(built) /\ Len(sent) <= decided
    BY <1>1 DEF LaunchTypes, Snapshots, Lineage
  <2>2. Len(executed) <= Len(sent) /\ Len(sent) \in Nat
    BY <1>1, InOrderAt
  <2>. QED
    BY <1>3, <2>1, <2>2, SMT
<1>6. \A i \in 1..m : seen'[i] = seen[i]
  <2>1. CASE UNCHANGED seen
    BY <2>1
  <2>2. CASE BuildBlock
    <3>1. seen' = Append(seen, Done)
      BY <2>2 DEF BuildBlock
    <3>2. Done \in Nat
      BY <1>1, DoneIs
    <3>3. PICK d \in Nat : seen' = Append(seen, d)
      BY <3>1, <3>2
    <3>. QED
      BY <1>1, <1>5, <3>3, SMT DEF LaunchTypes
  <2>3. ASSUME DecideBlock \/ RelayBlock PROVE UNCHANGED seen
    BY <2>3 DEF DecideBlock, RelayBlock, consensusVars
  <2>4. ASSUME UNCHANGED consensusVars PROVE UNCHANGED seen
    BY <2>4 DEF consensusVars
  <2>5. BuildBlock \/ UNCHANGED seen
    BY <1>1, <2>3, <2>4, NodeCases
  <2>. QED
    BY <2>1, <2>2, <2>5
<1>7. ASSUME NEW i \in 1..n, NEW j \in seen[i]+1..i-1
      PROVE  j \in 1..n
  <2>1. i \in 1..Len(seen) /\ seen \in Seq(Nat)
    BY <1>1, <1>3, <1>5, SMT DEF LaunchTypes
  <2>2. PICK k \in Nat : k = seen[i]
    BY <2>1, ElementOfSeq
  <2>. QED
    BY <1>3, <2>2, SMT
<1>8. \A i \in 1..n : i \in 1..m
  BY <1>3, <1>5, SMT
<1>. QED
  BY <1>2, <1>3, <1>4, <1>6, <1>7, <1>8

\* A step rejects a block only for a reason that OnlyStaleIsRejected names.
LEMMA StaleNext ==
    ASSUME NodeInv, Snapshots, OnlyStaleIsRejected, [NodeNext]_nodeVars
    PROVE  OnlyStaleIsRejected'
<1>. SUFFICES ASSUME errors' = 0, NEW i \in DOMAIN executed'
              PROVE  \/ executed'[i].ok
                     \/ i \in gaveUp'
                     \/ executed'[i].txs \in Oversized
                     \/ \E j \in seen'[i]+1..i-1 :
                          /\ executed'[j].ok
                          /\ executed'[j].txs \cap executed'[i].txs # {}
  BY DEF OnlyStaleIsRejected
<1>. ExecTypes /\ LaunchTypes /\ errors = 0
  BY ErrorsStay DEF NodeInv, ExecInv
<1>1. CASE i \in DOMAIN executed
  <2>1. /\ executed'[i] = executed[i] /\ seen'[i] = seen[i]
        /\ i \in gaveUp => i \in gaveUp'
        /\ \A j \in seen[i]+1..i-1 : executed'[j] = executed[j]
    BY <1>1, HistoryGrows
  <2>2. \/ executed[i].ok
        \/ i \in gaveUp
        \/ executed[i].txs \in Oversized
        \/ \E j \in seen[i]+1..i-1 :
             executed[j].ok /\ executed[j].txs \cap executed[i].txs # {}
    BY <1>1 DEF OnlyStaleIsRejected
  <2>. QED
    BY <2>1, <2>2
<1>2. CASE i \notin DOMAIN executed
  <2>1. TaskRuns /\ TaskNext
    BY <1>2, GaveUpNext DEF TaskRuns, Tasking, LaunchTypes
  <2>2. ExecuteOk \/ ExecuteErr
    BY <1>2, <2>1, TaskFrame
  <2>3. PICK ok \in BOOLEAN :
           /\ executed' = Append(executed, [txs |-> insert.txs, ok |-> ok])
           /\ ~ok => ExecuteErr
    BY <2>2, ExecutionIs
  <2>4. /\ Len(executed) \in Nat /\ Len(executed') = Len(executed) + 1
        /\ DOMAIN executed = 1..Len(executed) /\ DOMAIN executed' = 1..Len(executed)+1
        /\ \A j \in 1..Len(executed) : executed'[j] = executed[j]
        /\ executed'[Len(executed)+1].txs = insert.txs
        /\ executed'[Len(executed)+1].ok = ok
    BY <2>3, ExecutionAdds
  <2>5. PICK n \in Nat : n = Len(executed) /\ i = n + 1 /\ i - 1 = n
    <3>1. PICK n \in Nat : n = Len(executed)
      BY <2>4
    <3>2. i \in 1..n+1 /\ i \notin 1..n
      BY <1>2, <2>4, <3>1
    <3>3. i = n + 1 /\ i - 1 = n
      BY <3>2, SMT
    <3>. QED
      BY <3>1, <3>3
  <2>6. executed'[i].txs = insert.txs /\ executed'[i].ok = ok /\ seen' = seen
    BY <2>1, <2>4, <2>5 DEF TaskRuns, consensusVars
  <2>7. CASE ok \/ insert.txs \in Oversized
    BY <2>6, <2>7
  <2>8. CASE ~ok /\ Executable(insert.txs, StateAfter(latest))
    <3>1. FailsToExecute
      <4>1. Len(executed') > Len(executed)
        BY <2>4, SMT
      <4>. QED
        BY <2>4, <2>8, <4>1 DEF FailsToExecute
    <3>2. i \in gaveUp'
      BY <2>1, <2>5, <3>1 DEF TaskRuns
    <3>. QED
      BY <3>2
  <2>9. CASE /\ ~ok /\ ~Executable(insert.txs, StateAfter(latest))
             /\ insert.txs \notin Oversized
    <3>1. PICK j \in seen[i]+1..n :
            executed[j].ok /\ executed[j].txs \cap insert.txs # {}
      BY <2>3, <2>5, <2>9, RejectedNow
    <3>2. executed'[j] = executed[j]
      <4>1. insert.stage = "execute"
        BY <2>2, ExecutionIs
      <4>2. PICK k \in Nat : k = seen[i]
        BY <2>5, <4>1, SeenAt
      <4>3. j \in 1..n
        BY <3>1, <4>2, SMT
      <4>. QED
        BY <2>4, <2>5, <4>3
    <3>3. j \in seen'[i]+1..i-1
      BY <2>5, <2>6, <3>1
    <3>. QED
      BY <2>6, <3>1, <3>2, <3>3
  <2>. QED
    BY <2>7, <2>8, <2>9
<1>. QED
  BY <1>1, <1>2

\* The builder's snapshot of the pool may be stale, and it may be taken while the pool
\* still holds an executed block.  As long as the engine has refused no update, a block
\* that could not be executed either shares a transaction with a block executed after
\* its snapshot was taken, or does not fit into a block, or met an error of the
\* executor (OnlyStaleIsRejected).
THEOREM StaleOnlyIsRejected == NodeSpec => []OnlyStaleIsRejected
<1>1. NodeInit => OnlyStaleIsRejected
  <2>1. NodeInit => executed = <<>>
    BY DEF NodeInit, ExecInit, TaskInit
  <2>2. DOMAIN <<>> = {}
    BY SMT
  <2>. QED
    BY <2>1, <2>2 DEF OnlyStaleIsRejected
<1>. QED
  BY <1>1, NodeInvInit, NodeInvNext, SnapshotsInit, SnapshotsNext, StaleNext, PTL
     DEF NodeSpec

-----------------------------------------------------------------------------
(* main sees its transaction.  main submits only after it has subscribed,   *)
(* and the latest block never skips one: each change adds the block that    *)
(* main is notified of.                                                     *)

Watched == MainTx \in submitted => stage = "watch"

\* The transaction of main is submitted when main watches.
LEMMA WatchedNext ==
    ASSUME Watched, [NodeNext]_nodeVars
    PROVE  Watched'
<1>1. CASE Launch
  BY <1>1 DEF Launch, LaunchNext, SetUp, SpawnChain, SpawnConsumer, SpawnTask,
     ConfigureEngine, LaunchRpc, SpawnEngine, NodeStarted, Subscribe, SubmitMainTx,
     GoesOn, execVars, Watched
<1>2. CASE LaunchFails
  BY <1>2 DEF LaunchFails, Fails, Fallible, FallibleLaunch, FallibleMain, Watched
<1>3. CASE UNCHANGED <<submitted, stage>>
  BY <1>3 DEF Watched
<1>4. CASE Clients
  BY <1>4 DEF Clients, SubmitOther, Submit, launchVars, Watched
<1>. QED
  BY <1>1, <1>2, <1>3, <1>4, LaunchFrame DEF launchVars

\* What the latest block holds has been submitted.
LEMMA LatestSubmitted ==
    ASSUME NodeInv, Snapshots, errors = 0
    PROVE  StateAfter(latest) \subseteq StateAfter(bestHash)
           /\ StateAfter(latest) \subseteq submitted
<1>1. /\ latest \in Hashes /\ insert.txs \in SUBSET Txs /\ insert.stage \in Stages
  BY DEF NodeInv, ExecInv, ExecTypes, TaskSideTypes, TaskTypeOK
<1>2. latest = bestHash \/ bestHash = Append(latest, insert.txs)
  BY <1>1 DEF NodeInv, ExecInv, Faultless, Stages
<1>3. StateAfter(latest) \subseteq StateAfter(bestHash)
  BY <1>1, <1>2, StateAfterAppend
<1>. QED
  BY <1>3 DEF Snapshots

\* Blocks with the same hash have the same parent.
LEMMA SameBelow ==
    ASSUME NEW g \in Hashes, NEW h \in Hashes, NEW x \in SUBSET Txs,
           Append(g, x) = Append(h, x)
    PROVE  g = h
BY AppendInjective DEF Hashes

\* When the latest block changes, either nothing new is in it or its last block is
\* the one that is.
LEMMA LatestStep ==
    ASSUME NodeInv, NodeInv', errors = 0, errors' = 0, UNCHANGED <<bestHash, insert>>,
           latest' # latest
    PROVE  \A t \in StateAfter(latest') :
             t \in StateAfter(latest) \/ t \in latest'[Len(latest')]
<1>1. /\ latest \in Hashes /\ insert.txs \in SUBSET Txs /\ insert.stage \in Stages
      /\ latest' \in Hashes
  BY DEF NodeInv, ExecInv, ExecTypes, TaskSideTypes, TaskTypeOK
<1>2. latest = bestHash \/ bestHash = Append(latest, insert.txs)
  BY <1>1 DEF NodeInv, ExecInv, Faultless, Stages
<1>3. latest' = bestHash \/ bestHash = Append(latest', insert.txs)
  BY <1>1 DEF NodeInv, ExecInv, Faultless, Stages
<1>4. CASE bestHash = Append(latest', insert.txs) /\ latest = bestHash
  BY <1>1, <1>4, StateAfterAppend
<1>5. CASE bestHash = Append(latest', insert.txs) /\ bestHash = Append(latest, insert.txs)
  BY <1>1, <1>5, SameBelow
<1>6. CASE latest' = bestHash /\ bestHash = Append(latest, insert.txs)
  <2>1. StateAfter(latest') = StateAfter(latest) \cup insert.txs
    BY <1>1, <1>6, StateAfterAppend
  <2>2. latest'[Len(latest')] = insert.txs
    BY <1>1, <1>6, SMT DEF Hashes
  <2>. QED
    BY <2>1, <2>2
<1>. QED
  BY <1>2, <1>3, <1>4, <1>5, <1>6

\* Every step leaves main notified.
LEMMA MainSeesNext ==
    ASSUME NodeInv, NodeInv', Snapshots, Watched, MainSeesItsTransaction,
           [NodeNext]_nodeVars
    PROVE  MainSeesItsTransaction'
<1>1. CASE UNCHANGED <<launchVars, latest, errors>>
  BY <1>1 DEF MainSeesItsTransaction, Subscribed, launchVars
<1>2. CASE Launch
  <2>1. UNCHANGED <<latest, errors, notices>>
    BY <1>2 DEF Launch, LaunchNext, SetUp, SpawnChain, SpawnConsumer, SpawnTask,
       ConfigureEngine, LaunchRpc, SpawnEngine, NodeStarted, Subscribe, SubmitMainTx,
       GoesOn, Submit, execVars, engineVars
  <2>2. Subscribed' => Subscribed \/ stage = "subscribe"
    BY <1>2 DEF Launch, LaunchNext, SetUp, SpawnChain, SpawnConsumer, SpawnTask,
       ConfigureEngine, LaunchRpc, SpawnEngine, NodeStarted, Subscribe, SubmitMainTx,
       GoesOn, Subscribed
  <2>3. ASSUME stage = "subscribe", errors = 0 PROVE MainTx \notin StateAfter(latest)
    BY <2>3, LatestSubmitted DEF Watched
  <2>. QED
    BY <2>1, <2>2, <2>3 DEF MainSeesItsTransaction
<1>3. CASE LaunchFails
  BY <1>3 DEF LaunchFails, Fails, MainSeesItsTransaction, Subscribed
<1>4. ASSUME EngineNext, Notify, UNCHANGED <<taskVars, stage>>
      PROVE  MainSeesItsTransaction'
  <2>. SUFFICES ASSUME Subscribed', errors' = 0, MainTx \in StateAfter(latest')
                PROVE  \E i \in DOMAIN notices' : MainTx \in notices'[i][Len(notices'[i])]
    BY DEF MainSeesItsTransaction
  <2>1. Subscribed
    BY <1>4 DEF Subscribed
  <2>2. errors = 0
    BY ErrorsStay
  <2>3. UNCHANGED <<bestHash, insert>>
    BY <1>4, EngineEffect DEF NodeInv, ExecInv, storageInner, taskVars
  <2>4. notices \in Seq(Hashes) /\ latest' \in Hashes
    BY DEF NodeInv, LaunchTypes, ExecInv, ExecTypes, TaskSideTypes
  <2>5. /\ DOMAIN notices \subseteq DOMAIN notices'
        /\ \A i \in DOMAIN notices : notices'[i] = notices[i]
    BY <1>4, <2>4, SMT DEF Notify
  <2>6. CASE MainTx \in StateAfter(latest)
    BY <2>1, <2>2, <2>5, <2>6 DEF MainSeesItsTransaction
  <2>7. CASE MainTx \notin StateAfter(latest)
    <3>1. latest' # latest
      BY <2>7
    <3>2. notices' = Append(notices, latest')
      BY <1>4, <2>1, <3>1 DEF Notify
    <3>3. MainTx \in latest'[Len(latest')]
      BY <2>2, <2>3, <2>7, <3>1, LatestStep
    <3>4. Len(notices) + 1 \in DOMAIN notices' /\ notices'[Len(notices) + 1] = latest'
      BY <2>4, <3>2, SMT
    <3>. QED
      BY <3>3, <3>4
  <2>. QED
    BY <2>6, <2>7
<1>. QED
  BY <1>1, <1>2, <1>3, <1>4, LaunchFrame

\* main is notified of the block with its own transaction, however soon after the
\* submission it becomes canonical, unless the engine has refused an update.
THEOREM MainIsNotified == NodeSpec => []MainSeesItsTransaction
<1>1. NodeInit => Watched /\ MainSeesItsTransaction
  BY DEF NodeInit, ExecInit, LaunchInit, Watched, MainSeesItsTransaction, Subscribed
<1>. QED
  BY <1>1, NodeInvInit, NodeInvNext, SnapshotsInit, SnapshotsNext, WatchedNext,
     MainSeesNext, PTL DEF NodeSpec
=============================================================================
