------------------------- MODULE ExecutionProofs ----------------------------
(***************************************************************************)
(* Proofs about the execution layer for every set of transactions, every   *)
(* starting block and every number of blocks: the storage holds one chain, *)
(* blocks are executed once and in order, no transaction is lost, the      *)
(* canonical chain is never rolled back, and the task never sleeps on work *)
(* that it has not been promised a wake-up for.                            *)
(***************************************************************************)
EXTENDS Execution, TLAPS

\* The prover of the steps that name no other; most of them need no arithmetic.
USE Zenon

-----------------------------------------------------------------------------
(* Sequences. *)

\* A sequence is a function on the numbers up to its length.
LEMMA LenProperties ==
    ASSUME NEW S, NEW s \in Seq(S)
    PROVE  Len(s) \in Nat /\ s \in [1..Len(s) -> S] /\ DOMAIN s = 1..Len(s)
BY SMT

\* The elements of a sequence over a set belong to the set.
LEMMA ElementOfSeq ==
    ASSUME NEW S, NEW s \in Seq(S), NEW i \in 1..Len(s)
    PROVE  s[i] \in S
BY SMT

\* What appending an element does.
LEMMA AppendProperties ==
    ASSUME NEW S, NEW s \in Seq(S), NEW x \in S
    PROVE  /\ Append(s, x) \in Seq(S) /\ Append(s, x) # <<>>
           /\ Len(Append(s, x)) = Len(s) + 1
           /\ \A i \in 1..Len(s) : Append(s, x)[i] = s[i]
           /\ Append(s, x)[Len(s) + 1] = x
BY SMT

\* What concatenation does.
LEMMA ConcatProperties ==
    ASSUME NEW S, NEW s \in Seq(S), NEW t \in Seq(S)
    PROVE  /\ s \o t \in Seq(S) /\ Len(s \o t) = Len(s) + Len(t)
           /\ \A i \in 1..Len(s) + Len(t) :
                 (s \o t)[i] = IF i <= Len(s) THEN s[i] ELSE t[i - Len(s)]
BY SMT

\* Concatenation with the empty sequence changes nothing.
LEMMA ConcatEmptySeq ==
    ASSUME NEW S, NEW s \in Seq(S)
    PROVE  s \o <<>> = s /\ <<>> \o s = s
BY SMT

\* Concatenation is associative.
LEMMA ConcatAssociative ==
    ASSUME NEW S, NEW s \in Seq(S), NEW t \in Seq(S), NEW u \in Seq(S)
    PROVE  (s \o t) \o u = s \o (t \o u)
BY SMT

\* To append an element is to concatenate the sequence of it alone.
LEMMA AppendIsConcat ==
    ASSUME NEW S, NEW s \in Seq(S), NEW x \in S
    PROVE  Append(s, x) = s \o <<x>>
BY SMT

\* Appending is injective.
LEMMA AppendInjective ==
    ASSUME NEW S, NEW x \in S, NEW s \in Seq(S), NEW y \in S, NEW t \in Seq(S),
           Append(s, x) = Append(t, y)
    PROVE  s = t /\ x = y
<1>1. Len(s) = Len(t)
  <2>1. Len(Append(s, x)) = Len(s) + 1 /\ Len(Append(t, y)) = Len(t) + 1
    BY SMT
  <2>. QED
    BY <2>1, SMT
<1>2. x = y
  <2>1. Append(s, x)[Len(s) + 1] = x /\ Append(t, y)[Len(t) + 1] = y
    BY SMT
  <2>. QED
    BY <1>1, <2>1
<1>3. ASSUME NEW i \in 1..Len(s) PROVE s[i] = t[i]
  <2>1. Append(s, x)[i] = s[i]
    BY SMT
  <2>2. Append(t, y)[i] = t[i]
    BY <1>1, SMT
  <2>. QED
    BY <2>1, <2>2
<1>. QED
  BY <1>1, <1>2, <1>3, SMT


-----------------------------------------------------------------------------
(* Types of the storage, the task and what the engine hands to it, and      *)
(* facts about hashes.  The sets of blocks that the engine has executed and *)
(* found bad depend on its downloads and are left to EngineProofs.          *)

TaskSideTypes ==
    /\ fcu \in SUBSET Hashes /\ target \in SUBSET Hashes /\ latest \in Hashes
    /\ reply \in SUBSET Replies
    /\ wakers \in SUBSET {"channel", "engine", "lock"}
    /\ woken \in BOOLEAN

ExecTypes ==
    /\ ChannelsTypeOK
    /\ StorageTypeOK
    /\ TaskSideTypes
    /\ TaskTypeOK
    /\ submitted \in SUBSET Txs
    /\ sent \in Seq(SUBSET Txs)

-----------------------------------------------------------------------------
(* Hashes and states. *)

\* A chain of sets of transactions executes transactions.
LEMMA StateAfterType ==
    ASSUME NEW h \in Hashes
    PROVE  StateAfter(h) \in SUBSET Txs
BY SMT DEF Hashes, StateAfter, Range

\* A block adds its transactions to the state.
LEMMA StateAfterAppend ==
    ASSUME NEW h \in Hashes, NEW txs \in SUBSET Txs
    PROVE  StateAfter(Append(h, txs)) = StateAfter(h) \cup txs
<1>1. /\ Append(h, txs) \in Seq(SUBSET Txs) /\ h \in Seq(SUBSET Txs)
      /\ Len(Append(h, txs)) = Len(h) + 1 /\ Len(h) \in Nat
      /\ \A i \in 1..Len(h) : Append(h, txs)[i] = h[i]
      /\ Append(h, txs)[Len(h) + 1] = txs
  BY SMT DEF Hashes
<1>2. DOMAIN h = 1..Len(h) /\ DOMAIN Append(h, txs) = 1..Len(h)+1
  BY <1>1, SMT
<1>3. Range(Append(h, txs)) = Range(h) \cup {txs}
  <2>1. ASSUME NEW x \in Range(Append(h, txs)) PROVE x \in Range(h) \cup {txs}
    <3>1. PICK i \in 1..Len(h)+1 : x = Append(h, txs)[i]
      BY <1>2, <2>1 DEF Range
    <3>2. i \in 1..Len(h) \/ i = Len(h) + 1
      BY <1>1, <3>1, SMT
    <3>. QED
      BY <1>1, <1>2, <3>1, <3>2 DEF Range
  <2>2. ASSUME NEW x \in Range(h) \cup {txs} PROVE x \in Range(Append(h, txs))
    <3>1. ASSUME x \in Range(h) PROVE x \in Range(Append(h, txs))
      <4>1. PICK i \in 1..Len(h) : x = h[i]
        BY <1>2, <3>1 DEF Range
      <4>2. i \in 1..Len(h)+1 /\ x = Append(h, txs)[i]
        BY <1>1, <4>1, SMT
      <4>. QED
        BY <1>2, <4>2 DEF Range
    <3>2. Len(h) + 1 \in 1..Len(h)+1
      BY <1>1, SMT
    <3>. QED
      BY <1>1, <1>2, <2>2, <3>1, <3>2 DEF Range
  <2>. QED
    BY <2>1, <2>2
<1>. QED
  BY <1>3 DEF StateAfter

\* The hash of a header is the chain below it with its block on top.
LEMMA HashType ==
    ASSUME NEW header \in Headers
    PROVE  /\ HashOf(header) \in Hashes
           /\ Len(HashOf(header)) = Len(header.parent) + 1
BY SMT DEF Headers, HashOf, Hashes

\* The header the storage starts with.
LEMMA StartHeaderType ==
    /\ StartHeader \in Headers
    /\ HashOf(StartHeader) \in Hashes
    /\ HashOf(StartHeader) = <<{}>>
    /\ StateAfter(HashOf(StartHeader)) = {}
<1>1. StartHeader \in Headers
  BY StartAssumption, SMT DEF StartHeader, Headers, Hashes
<1>2. HashOf(StartHeader) = <<{}>>
  BY SMT DEF HashOf, StartHeader
<1>3. StateAfter(<<{}>>) = {}
  BY SMT DEF StateAfter, Range
<1>. QED
  BY <1>1, <1>2, <1>3, HashType

-----------------------------------------------------------------------------
(* What inserting a block does to the storage. *)

\* What insert_new_block stores, and under which keys.
LEMMA InsertEffect ==
    ASSUME StorageTypeOK, NEW txs \in SUBSET Txs, NEW root \in SUBSET Txs,
           InsertNewBlock(HeaderTemplate(txs, root), txs)
    PROVE  \E header \in Headers :
             /\ header.number = bestBlock + 1 /\ header.parent = bestHash
             /\ header.txs = txs /\ header.root = root /\ header.difficulty = 2
             /\ HashOf(header) = Append(bestHash, txs)
             /\ bestHash' = HashOf(header)
             /\ bestBlock' = bestBlock + 1
             /\ totalDifficulty' = totalDifficulty + 2
             /\ headers' = Store(headers, bestBlock + 1, header)
             /\ bodies' = Store(bodies, HashOf(header), txs)
             /\ hashToNumber' = Store(hashToNumber, HashOf(header), bestBlock + 1)
<1>1. PICK template : template = HeaderTemplate(txs, root)
  OBVIOUS
<1>2. PICK header :
         header = [template EXCEPT !.number = NextNumber, !.parent = bestHash]
  OBVIOUS
<1>3. /\ header \in Headers
      /\ header.number = bestBlock + 1 /\ header.parent = bestHash
      /\ header.txs = txs /\ header.root = root /\ header.difficulty = 2
  <2>1. /\ template \in Headers
        /\ template.txs = txs /\ template.root = root /\ template.difficulty = 2
    BY <1>1, SMT DEF HeaderTemplate, NextNumber, Headers, StorageTypeOK
  <2>2. NextNumber = bestBlock + 1 /\ NextNumber \in Nat /\ bestHash \in Hashes
    BY SMT DEF NextNumber, StorageTypeOK
  <2>. QED
    BY <1>2, <2>1, <2>2 DEF Headers
<1>. InsertNewBlock(template, txs)
  BY <1>1
<1>4. /\ bestHash' = HashOf(header)
      /\ bestBlock' = header.number
      /\ totalDifficulty' = totalDifficulty + header.difficulty
      /\ headers' = Store(headers, header.number, header)
      /\ bodies' = Store(bodies, HashOf(header), txs)
      /\ hashToNumber' = Store(hashToNumber, HashOf(header), header.number)
  BY <1>2 DEF InsertNewBlock
<1>5. HashOf(header) = Append(bestHash, txs)
  BY <1>3 DEF HashOf
<1>. QED
  BY <1>3, <1>4, <1>5

\* Storing keeps the types of a map.
LEMMA StoreType ==
    ASSUME NEW K, NEW V, NEW f, DOMAIN f \subseteq K, f \in [DOMAIN f -> V],
           NEW k \in K, NEW v \in V
    PROVE  /\ DOMAIN Store(f, k, v) = DOMAIN f \cup {k}
           /\ DOMAIN Store(f, k, v) \subseteq K
           /\ Store(f, k, v) \in [DOMAIN Store(f, k, v) -> V]
           /\ Store(f, k, v)[k] = v
           /\ \A x \in DOMAIN f : x # k => Store(f, k, v)[x] = f[x]
BY DEF Store

\* insert_new_block keeps the storage well typed.
LEMMA InsertTypes ==
    ASSUME StorageTypeOK, NEW txs \in SUBSET Txs, NEW root \in SUBSET Txs,
           InsertNewBlock(HeaderTemplate(txs, root), txs), UNCHANGED lock
    PROVE  StorageTypeOK'
<1>1. PICK header \in Headers :
         /\ bestHash' = HashOf(header)
         /\ bestBlock' = bestBlock + 1
         /\ totalDifficulty' = totalDifficulty + 2
         /\ headers' = Store(headers, bestBlock + 1, header)
         /\ bodies' = Store(bodies, HashOf(header), txs)
         /\ hashToNumber' = Store(hashToNumber, HashOf(header), bestBlock + 1)
  BY InsertEffect, SMT
<1>2. bestBlock + 1 \in Nat /\ totalDifficulty + 2 \in Nat
  BY SMT DEF StorageTypeOK
<1>3. HashOf(header) \in Hashes
  BY HashType
<1>4. /\ DOMAIN headers \subseteq Nat /\ headers \in [DOMAIN headers -> Headers]
      /\ DOMAIN bodies \subseteq Hashes /\ bodies \in [DOMAIN bodies -> SUBSET Txs]
      /\ DOMAIN hashToNumber \subseteq Hashes
      /\ hashToNumber \in [DOMAIN hashToNumber -> Nat]
  BY DEF StorageTypeOK
<1>5. DOMAIN headers' \subseteq Nat /\ headers' \in [DOMAIN headers' -> Headers]
  BY <1>1, <1>2, <1>4, StoreType
<1>6. DOMAIN bodies' \subseteq Hashes /\ bodies' \in [DOMAIN bodies' -> SUBSET Txs]
  <2>1. DOMAIN bodies \subseteq Hashes /\ bodies \in [DOMAIN bodies -> SUBSET Txs]
    BY <1>4
  <2>2. /\ DOMAIN Store(bodies, HashOf(header), txs) \subseteq Hashes
        /\ Store(bodies, HashOf(header), txs)
              \in [DOMAIN Store(bodies, HashOf(header), txs) -> SUBSET Txs]
    <3>1. PICK k \in Hashes : k = HashOf(header)
      BY <1>3
    <3>2. PICK V : V = SUBSET Txs
      OBVIOUS
    <3>3. bodies \in [DOMAIN bodies -> V] /\ txs \in V
      BY <2>1, <3>2
    <3>4. /\ DOMAIN Store(bodies, k, txs) \subseteq Hashes
          /\ Store(bodies, k, txs) \in [DOMAIN Store(bodies, k, txs) -> V]
      BY <2>1, <3>3, StoreType
    <3>. QED
      BY <3>1, <3>2, <3>4
  <2>. QED
    BY <1>1, <2>2
<1>7. /\ DOMAIN hashToNumber' \subseteq Hashes
      /\ hashToNumber' \in [DOMAIN hashToNumber' -> Nat]
  <2>1. PICK n \in Nat : n = bestBlock + 1
    BY <1>2
  <2>2. hashToNumber' = Store(hashToNumber, HashOf(header), n)
    BY <1>1, <2>1
  <2>. QED
    BY <1>3, <1>4, <2>2, StoreType
<1>8. lock' \in {"free", "read", "write"}
  BY DEF StorageTypeOK
<1>. QED
  BY <1>1, <1>2, <1>3, <1>5, <1>6, <1>7, <1>8 DEF StorageTypeOK

-----------------------------------------------------------------------------
(* The engine: what its steps leave alone, and what the task sees of them. *)

\* The engine takes and gives back the read lock and answers; it stores nothing.
LEMMA EngineEffect ==
    ASSUME ExecTypes, EngineNext \/ EngineEnds
    PROVE  /\ UNCHANGED <<channels, storageInner>>
           /\ lock' \in {"free", "read", "write"}
           /\ status' = status \/ status' = [status EXCEPT !["engine"] = "stopped"]
           /\ TaskSideTypes'
<1>. USE DEF ExecTypes, TaskSideTypes, StorageTypeOK
<1>1. CASE ForkchoiceUpdated
  <2>1. PICK h \in fcu :
          /\ reply' = {Answer(h)} \/ reply' = {"Err"}
          /\ latest' = h \/ latest' = latest
          /\ target' = {h} \/ target' = target
    BY <1>1 DEF ForkchoiceUpdated
  <2>2. Answer(h) \in Replies
    BY DEF Answer, Replies
  <2>3. /\ fcu' = {} /\ woken' = (woken \/ "engine" \in wakers)
        /\ wakers' = wakers \ {"engine"}
        /\ UNCHANGED <<status, channels, storageInner, lock>>
    BY <1>1 DEF ForkchoiceUpdated, Wake, storageVars
  <2>. QED
    BY <2>1, <2>2, <2>3 DEF Replies
<1>2. CASE StartDownload
  BY <1>2 DEF StartDownload, engineVars
<1>3. CASE ReceiveHeaders
  BY <1>3 DEF ReceiveHeaders, FreeLock, Wake
<1>4. CASE FinishDownload
  <2>1. latest' \in {latest} \cup target /\ target' \subseteq target
    BY <1>4 DEF FinishDownload
  <2>2. /\ lock' = "free" /\ woken' = (woken \/ "lock" \in wakers)
        /\ wakers' = wakers \ {"lock"}
        /\ UNCHANGED <<status, channels, storageInner, fcu, reply>>
    BY <1>4 DEF FinishDownload, FreeLock, Wake
  <2>. QED
    BY <2>1, <2>2
<1>5. CASE EngineEnds
  BY <1>5 DEF EngineEnds, Ends
<1>. QED
  BY <1>1, <1>2, <1>3, <1>4, <1>5 DEF EngineNext, Downloads

-----------------------------------------------------------------------------
(* Types. *)

\* The insertion moves on to another stage and keeps its block and head.
LEMMA InsertStage ==
    ASSUME TaskTypeOK, NEW stage \in Stages,
           insert' = [insert EXCEPT !.stage = stage]
    PROVE  /\ insert' \in [stage : Stages, txs : SUBSET Txs, head : Hashes,
                            events : BOOLEAN]
           /\ insert'.stage = stage /\ insert'.txs = insert.txs
           /\ insert'.head = insert.head
BY DEF TaskTypeOK

\* No insertion is in progress.
LEMMA NoInsertType ==
    /\ NoInsert \in [stage : Stages, txs : SUBSET Txs, head : Hashes, events : BOOLEAN]
    /\ NoInsert.stage = "none"
BY SMT DEF NoInsert, Stages, Hashes

\* The insertion is finished and the task goes back to its channel.
LEMMA ReadyType ==
    ASSUME NEW events \in BOOLEAN, Ready(events)
    PROVE  /\ insert' \in [stage : Stages, txs : SUBSET Txs, head : Hashes,
                            events : BOOLEAN]
           /\ insert'.stage = "none" /\ taskPc' = "recv"
           /\ pipelineEvents' \in BOOLEAN
BY NoInsertType DEF Ready

\* The three answers of the channel: a block, none yet, and its end.
LEMMA ReceiveCases ==
    ASSUME ReceiveBlock
    PROVE  /\ \/ /\ toTask # <<>>
                 /\ queued' = Append(queued, Head(toTask))
                 /\ toTask' = Tail(toTask)
                 /\ taskPc' = "insert"
                 /\ UNCHANGED <<status, wakers>>
              \/ /\ toTask = <<>> /\ Running("consumer")
                 /\ wakers' = wakers \cup {"channel"}
                 /\ taskPc' = "insert"
                 /\ UNCHANGED <<status, queued, toTask>>
              \/ /\ Ends("task", "no sender")
                 /\ UNCHANGED <<wakers, queued, toTask, taskPc>>
           /\ UNCHANGED <<pool, proposals, decisionSteps, storageVars, engineVars, woken,
                          insert, pipelineEvents, canonicalHead, executed>>
BY DEF ReceiveBlock

\* An insertion starts with the oldest queued block.
LEMMA StartInsertType ==
    ASSUME NEW block \in SUBSET Txs, NEW events \in BOOLEAN,
           insert' = [NoInsert EXCEPT !.stage = "lock", !.txs = block,
                                      !.events = events]
    PROVE  /\ insert' \in [stage : Stages, txs : SUBSET Txs, head : Hashes,
                            events : BOOLEAN]
           /\ insert'.stage = "lock" /\ insert'.txs = block
BY NoInsertType DEF Stages

\* Every step of the task keeps the types.
LEMMA TaskTypes ==
    ASSUME ExecTypes, TaskNext
    PROVE  ChannelsTypeOK' /\ StorageTypeOK' /\ TaskSideTypes' /\ TaskTypeOK'
<1>. USE DEF ExecTypes
<1>1. CASE Poll
  BY <1>1 DEF Poll, channels, storageVars, storageInner, engineVars, ChannelsTypeOK,
              StorageTypeOK, TaskSideTypes, TaskTypeOK
<1>2. CASE ReceiveBlock
  <2>1. /\ status' = status \/ status' = [status EXCEPT !["task"] = "no sender"]
        /\ \/ UNCHANGED <<queued, toTask>>
           \/ /\ toTask # <<>>
              /\ queued' = Append(queued, Head(toTask)) /\ toTask' = Tail(toTask)
        /\ taskPc' \in {taskPc, "insert"}
        /\ wakers' = wakers \/ wakers' = wakers \cup {"channel"}
        /\ UNCHANGED <<pool, proposals, decisionSteps, storageVars, engineVars, woken,
                       insert, pipelineEvents, canonicalHead, executed>>
    BY <1>2, ReceiveCases DEF Ends
  <2>2. toTask' \in Seq(SUBSET Txs) /\ queued' \in Seq(SUBSET Txs)
    <3>1. CASE UNCHANGED <<queued, toTask>>
      BY <3>1 DEF ChannelsTypeOK, TaskTypeOK
    <3>2. CASE /\ toTask # <<>>
               /\ queued' = Append(queued, Head(toTask)) /\ toTask' = Tail(toTask)
      <4>1. Head(toTask) \in SUBSET Txs /\ Tail(toTask) \in Seq(SUBSET Txs)
        BY <3>2, SMT DEF ChannelsTypeOK
      <4>. QED
        BY <3>2, <4>1, AppendProperties DEF TaskTypeOK
    <3>. QED
      BY <2>1, <3>1, <3>2
  <2>3. status' \in [Threads -> Statuses]
    BY <2>1 DEF ChannelsTypeOK, Threads, Statuses, Panics
  <2>4. ChannelsTypeOK'
    BY <2>1, <2>2, <2>3 DEF ChannelsTypeOK
  <2>5. TaskTypeOK'
    BY <2>1, <2>2 DEF TaskTypeOK
  <2>. QED
    BY <2>1, <2>4, <2>5 DEF storageVars, storageInner, engineVars, StorageTypeOK,
                            TaskSideTypes
<1>3. CASE NothingToInsert
  BY <1>3 DEF NothingToInsert, Park, channels, storageVars, storageInner, engineVars,
              ChannelsTypeOK, StorageTypeOK, TaskSideTypes, TaskTypeOK
<1>4. CASE StartInsert
  <2>1. /\ queued # <<>> /\ queued' = Tail(queued)
        /\ insert' = [NoInsert EXCEPT !.stage = "lock", !.txs = Head(queued),
                                      !.events = pipelineEvents]
        /\ pipelineEvents' = FALSE
        /\ UNCHANGED <<status, channels, storageVars, engineVars, wakers, woken,
                       taskPc, canonicalHead, executed>>
    BY <1>4 DEF StartInsert
  <2>2. Head(queued) \in SUBSET Txs /\ Tail(queued) \in Seq(SUBSET Txs)
    BY <2>1, SMT DEF TaskTypeOK
  <2>3. insert' \in [stage : Stages, txs : SUBSET Txs, head : Hashes, events : BOOLEAN]
    BY <2>1, <2>2, StartInsertType DEF TaskTypeOK
  <2>4. TaskTypeOK'
    BY <2>1, <2>2, <2>3 DEF TaskTypeOK
  <2>. QED
    BY <2>1, <2>4 DEF channels, storageVars, storageInner, engineVars, ChannelsTypeOK,
                      StorageTypeOK, TaskSideTypes
<1>5. CASE AcquireLock
  <2>1. /\ \/ /\ lock' = "write" /\ insert' = [insert EXCEPT !.stage = "execute"]
              /\ UNCHANGED <<taskPc, wakers, woken>>
           \/ /\ taskPc' = "parked" /\ wakers' = wakers \cup {"lock"}
              /\ UNCHANGED <<woken, lock, insert>>
        /\ UNCHANGED <<status, channels, storageInner, engineVars, queued,
                       pipelineEvents, canonicalHead, executed>>
    BY <1>5 DEF AcquireLock, Park
  <2>2. insert' \in [stage : Stages, txs : SUBSET Txs, head : Hashes, events : BOOLEAN]
    BY <2>1, InsertStage DEF Stages, TaskTypeOK
  <2>3. TaskTypeOK'
    BY <2>1, <2>2 DEF TaskTypeOK
  <2>. QED
    BY <2>1, <2>3 DEF channels, storageInner, engineVars, ChannelsTypeOK,
                      StorageTypeOK, TaskSideTypes
<1>6. CASE ExecuteOk
  <2>1. /\ InsertNewBlock(HeaderTemplate(insert.txs, StateAfter(latest) \cup insert.txs),
                          insert.txs)
        /\ executed' = Append(executed, [txs |-> insert.txs, ok |-> TRUE])
        /\ insert' = [insert EXCEPT !.stage = "clear", !.head = bestHash']
        /\ UNCHANGED <<status, channels, lock, engineVars, wakers, woken, taskPc,
                       queued, pipelineEvents, canonicalHead>>
    BY <1>6 DEF ExecuteOk, BuildAndExecute
  <2>2. insert.txs \in SUBSET Txs /\ StateAfter(latest) \cup insert.txs \in SUBSET Txs
    BY StateAfterType DEF TaskTypeOK, TaskSideTypes
  <2>3. StorageTypeOK'
    BY <2>1, <2>2, InsertTypes
  <2>4. insert' \in [stage : Stages, txs : SUBSET Txs, head : Hashes, events : BOOLEAN]
    BY <2>1, <2>3 DEF Stages, TaskTypeOK, StorageTypeOK
  <2>5. [txs |-> insert.txs, ok |-> TRUE] \in [txs : SUBSET Txs, ok : BOOLEAN]
    BY <2>2
  <2>6. executed' \in Seq([txs : SUBSET Txs, ok : BOOLEAN])
    BY <2>1, <2>5, AppendProperties DEF TaskTypeOK
  <2>7. TaskTypeOK'
    BY <2>1, <2>4, <2>6 DEF TaskTypeOK
  <2>. QED
    BY <2>1, <2>3, <2>7 DEF channels, engineVars, ChannelsTypeOK, TaskSideTypes
<1>7. CASE ExecuteErr
  <2>1. /\ executed' = Append(executed, [txs |-> insert.txs, ok |-> FALSE])
        /\ Ready(insert.events)
        /\ lock' = "free"
        /\ UNCHANGED <<status, channels, storageInner, engineVars, wakers, woken,
                       queued, canonicalHead>>
    BY <1>7 DEF ExecuteErr
  <2>2. insert.events \in BOOLEAN /\ insert.txs \in SUBSET Txs
    BY DEF TaskTypeOK
  <2>3. [txs |-> insert.txs, ok |-> FALSE] \in [txs : SUBSET Txs, ok : BOOLEAN]
    BY <2>2
  <2>4. executed' \in Seq([txs : SUBSET Txs, ok : BOOLEAN])
    BY <2>1, <2>3, AppendProperties DEF TaskTypeOK
  <2>5. TaskTypeOK'
    BY <2>1, <2>2, <2>4, ReadyType DEF TaskTypeOK
  <2>. QED
    BY <2>1, <2>5 DEF channels, storageInner, engineVars, ChannelsTypeOK,
                      StorageTypeOK, TaskSideTypes
<1>8. CASE SendForkchoice
  <2>1. /\ fcu' \in {{insert.head}, {}} /\ reply' = {}
        /\ insert' = [insert EXCEPT !.stage = "await"]
        /\ UNCHANGED <<status, channels, storageVars, target, latest, wakers, woken,
                       taskPc, queued, pipelineEvents, canonicalHead, executed>>
    BY <1>8 DEF SendForkchoice
  <2>2. insert' \in [stage : Stages, txs : SUBSET Txs, head : Hashes, events : BOOLEAN]
    BY <2>1, InsertStage DEF Stages
  <2>3. TaskTypeOK'
    BY <2>1, <2>2 DEF TaskTypeOK
  <2>4. insert.head \in Hashes
    BY DEF TaskTypeOK
  <2>. QED
    BY <2>1, <2>3, <2>4 DEF channels, storageVars, storageInner, ChannelsTypeOK,
                            StorageTypeOK, TaskSideTypes
<1>9. CASE AwaitReply
  <2>1. /\ \/ taskPc' = "parked" /\ wakers' = wakers \cup {"engine"} /\ status' = status
           \/ /\ status' = [status EXCEPT !["task"] = "no engine"]
              /\ UNCHANGED <<taskPc, wakers>>
        /\ UNCHANGED <<woken, channels, storageVars, engineVars, queued, insert,
                       pipelineEvents, canonicalHead, executed>>
    BY <1>9 DEF AwaitReply, Park, Ends
  <2>2. status' \in [Threads -> Statuses]
    BY <2>1 DEF ChannelsTypeOK, Threads, Statuses, Panics
  <2>. QED
    BY <2>1, <2>2 DEF channels, storageVars, storageInner, engineVars, ChannelsTypeOK,
                      StorageTypeOK, TaskSideTypes, TaskTypeOK
<1>10. CASE HandleReply
  <2>1. PICK r \in reply : OnReply(r)
    BY <1>10 DEF HandleReply
  <2>2. /\ reply' = {}
        /\ UNCHANGED <<status, channels, storageVars, fcu, target, latest, wakers,
                       woken, queued, executed>>
    BY <1>10 DEF HandleReply
  <2>3. \/ canonicalHead' \in {canonicalHead, insert.head} /\ Ready(insert.events)
        \/ canonicalHead' = canonicalHead /\ Ready(FALSE)
        \/ /\ insert' = [insert EXCEPT !.stage = "send"]
           /\ UNCHANGED <<canonicalHead, pipelineEvents, taskPc>>
    BY <2>1 DEF OnReply
  <2>4. insert.events \in BOOLEAN /\ insert.head \in Hashes
    BY DEF TaskTypeOK
  <2>5. "send" \in Stages
    BY DEF Stages
  <2>6. /\ insert' \in [stage : Stages, txs : SUBSET Txs, head : Hashes, events : BOOLEAN]
        /\ pipelineEvents' \in BOOLEAN /\ taskPc' \in {"parked", "recv", "insert"}
        /\ canonicalHead' \in Hashes
    BY <2>3, <2>4, <2>5, ReadyType, InsertStage DEF TaskTypeOK
  <2>7. TaskTypeOK'
    BY <2>2, <2>6 DEF TaskTypeOK
  <2>. QED
    BY <2>2, <2>7 DEF channels, storageVars, storageInner, ChannelsTypeOK,
                      StorageTypeOK, TaskSideTypes
<1>11. CASE ClearPool
  <2>1. /\ pool' = pool \ insert.txs /\ lock' = "free"
        /\ insert' = [insert EXCEPT !.stage = "send"]
        /\ UNCHANGED <<status, proposals, decisionSteps, toTask, storageInner,
                       engineVars, wakers, woken, taskPc, queued, pipelineEvents,
                       canonicalHead, executed>>
    BY <1>11 DEF ClearPool, DropStorage
  <2>2. insert' \in [stage : Stages, txs : SUBSET Txs, head : Hashes, events : BOOLEAN]
    BY <2>1, InsertStage DEF Stages
  <2>3. TaskTypeOK'
    BY <2>1, <2>2 DEF TaskTypeOK
  <2>. QED
    BY <2>1, <2>3 DEF storageInner, engineVars, ChannelsTypeOK, StorageTypeOK,
                      TaskSideTypes
<1>. QED
  BY <1>1, <1>2, <1>3, <1>4, <1>5, <1>6, <1>7, <1>8, <1>9, <1>10, <1>11 DEF TaskNext

\* The state the launcher builds is well typed.
LEMMA ExecTypesInit == ExecInit => ExecTypes
<1>. SUFFICES ASSUME ExecInit PROVE ExecTypes
  OBVIOUS
<1>1. ChannelsTypeOK
  BY SMT DEF ExecInit, ChannelsInit, ChannelsTypeOK, Statuses
<1>2. StorageTypeOK
  BY StartHeaderType, StartAssumption DEF ExecInit, StorageInit, StorageTypeOK
<1>3. TaskSideTypes
  BY StartHeaderType DEF ExecInit, EngineInit, TaskInit, TaskSideTypes
<1>4. TaskTypeOK
  BY StartHeaderType, NoInsertType, SMT DEF ExecInit, TaskInit, TaskTypeOK
<1>5. submitted \in SUBSET Txs /\ sent \in Seq(SUBSET Txs)
  BY SMT DEF ExecInit
<1>. QED
  BY <1>1, <1>2, <1>3, <1>4, <1>5 DEF ExecTypes

\* Every step of the execution layer keeps the types.
LEMMA ExecTypesNext ==
    ASSUME ExecTypes, [ExecNext]_execVars
    PROVE  ExecTypes'
<1>1. CASE Tasking
  BY <1>1, TaskTypes DEF Tasking, ExecTypes
<1>2. ASSUME EngineNext \/ EngineEnds, UNCHANGED <<taskVars, submitted, sent>>
      PROVE  ExecTypes'
  <2>1. EngineNext \/ EngineEnds
    BY <1>2
  <2>2. UNCHANGED <<taskVars, submitted, sent>>
    BY <1>2
  <2>3. /\ UNCHANGED <<channels, storageInner>>
        /\ lock' \in {"free", "read", "write"}
        /\ status' = status \/ status' = [status EXCEPT !["engine"] = "stopped"]
        /\ TaskSideTypes'
    BY <2>1, EngineEffect
  <2>4. status' \in [Threads -> Statuses]
    BY <2>3 DEF ExecTypes, ChannelsTypeOK, Threads, Statuses
  <2>5. ChannelsTypeOK'
    BY <2>3, <2>4 DEF ExecTypes, ChannelsTypeOK, channels
  <2>6. StorageTypeOK'
    BY <2>3 DEF ExecTypes, StorageTypeOK, storageInner
  <2>7. TaskTypeOK'
    BY <2>2 DEF ExecTypes, TaskTypeOK, taskVars
  <2>. QED
    BY <2>2, <2>3, <2>5, <2>6, <2>7 DEF ExecTypes
<1>3. ASSUME NEW t \in Txs, Submit(t) PROVE ExecTypes'
  BY <1>3 DEF Submit, ExecTypes, ChannelsTypeOK, StorageTypeOK, TaskSideTypes, TaskTypeOK,
              storageVars, storageInner, engineVars, taskVars
<1>4. ASSUME NEW txs \in SUBSET submitted, Relay(txs) PROVE ExecTypes'
  <2>1. /\ toTask' = Append(toTask, txs) /\ sent' = Append(sent, txs)
        /\ woken' = (woken \/ "channel" \in wakers)
        /\ wakers' = wakers \ {"channel"}
        /\ UNCHANGED <<status, pool, proposals, decisionSteps, storageVars, engineVars,
                       taskVars, submitted>>
    BY <1>4 DEF Relay, Wake
  <2>2. toTask' \in Seq(SUBSET Txs) /\ sent' \in Seq(SUBSET Txs)
    BY <1>4, <2>1, SMT DEF ExecTypes, ChannelsTypeOK
  <2>. QED
    BY <2>1, <2>2 DEF ExecTypes, ChannelsTypeOK, StorageTypeOK, TaskSideTypes, TaskTypeOK,
                      storageVars, storageInner, engineVars, taskVars
<1>5. CASE ConsumerEnds
  <2>1. /\ status' = [status EXCEPT !["consumer"] = "stopped"]
        /\ woken' = (woken \/ "channel" \in wakers)
        /\ wakers' = wakers \ {"channel"}
        /\ UNCHANGED <<channels, storageVars, engineVars, taskVars, submitted, sent>>
    BY <1>5 DEF ConsumerEnds, Ends, Wake
  <2>2. status' \in [Threads -> Statuses]
    BY <2>1 DEF ExecTypes, ChannelsTypeOK, Threads, Statuses
  <2>. QED
    BY <2>1, <2>2 DEF ExecTypes, ChannelsTypeOK, StorageTypeOK, TaskSideTypes, TaskTypeOK,
                      channels, storageVars, storageInner, engineVars, taskVars
<1>6. CASE UNCHANGED execVars
  BY <1>6 DEF execVars, ExecTypes, ChannelsTypeOK, StorageTypeOK, TaskSideTypes, TaskTypeOK,
              channels, storageVars, storageInner, engineVars, taskVars
<1>7. \/ Tasking
      \/ EngineNext /\ UNCHANGED <<taskVars, submitted, sent>>
      \/ \E t \in Txs : Submit(t)
      \/ \E txs \in SUBSET submitted : Relay(txs)
      \/ ConsumerEnds
      \/ EngineEnds /\ UNCHANGED <<taskVars, submitted, sent>>
      \/ UNCHANGED execVars
  BY DEF ExecNext, Engining, Environment
<1>. QED
  BY <1>1, <1>2, <1>3, <1>4, <1>5, <1>6, <1>7

\* The task, the storage, the channels and what the engine tells the task keep
\* their types, for every set of transactions, starting block and bound.
THEOREM ExecTypesCorrect == ExecSpec => []ExecTypes
<1>. QED
  BY ExecTypesInit, ExecTypesNext, PTL DEF ExecSpec

-----------------------------------------------------------------------------
(* The steps of the execution layer.                                        *)

\* The steps of the execution layer.
LEMMA ExecCases ==
    ASSUME [ExecNext]_execVars
    PROVE  \/ TaskNext /\ UNCHANGED <<submitted, sent>>
           \/ EngineNext /\ UNCHANGED <<taskVars, submitted, sent>>
           \/ \E t \in Txs : Submit(t)
           \/ \E txs \in SUBSET submitted : Relay(txs)
           \/ ConsumerEnds
           \/ EngineEnds /\ UNCHANGED <<taskVars, submitted, sent>>
           \/ UNCHANGED execVars
BY DEF ExecNext, Tasking, Engining, Environment

\* What executing a block does, in terms of the chain below it.
LEMMA ExecuteEffect ==
    ASSUME ExecTypes, ExecuteOk
    PROVE  /\ insert.stage = "execute" /\ insert.txs \in SUBSET Txs
           /\ InsertNewBlock(HeaderTemplate(insert.txs,
                                StateAfter(latest) \cup insert.txs), insert.txs)
           /\ StateAfter(latest) \cup insert.txs \in SUBSET Txs
           /\ bestHash' = Append(bestHash, insert.txs)
           /\ bestHash \in Hashes /\ bestHash' \in Hashes
<1>1. /\ insert.stage = "execute"
      /\ InsertNewBlock(HeaderTemplate(insert.txs, StateAfter(latest) \cup insert.txs),
                        insert.txs)
  BY DEF ExecuteOk, BuildAndExecute, At
<1>2. insert.txs \in SUBSET Txs /\ StateAfter(latest) \cup insert.txs \in SUBSET Txs
  BY StateAfterType DEF ExecTypes, TaskTypeOK, TaskSideTypes
<1>3. StorageTypeOK
  BY DEF ExecTypes
<1>4. bestHash' = Append(bestHash, insert.txs)
  BY <1>1, <1>2, <1>3, InsertEffect, SMT
<1>5. bestHash \in Hashes /\ bestHash' \in Hashes
  BY <1>2, <1>3, <1>4, SMT DEF StorageTypeOK, Hashes
<1>. QED
  BY <1>1, <1>2, <1>4, <1>5

\* Only executing a block changes what is stored.
LEMMA StorageSteps ==
    ASSUME ExecTypes, [ExecNext]_execVars
    PROVE  ExecuteOk \/ UNCHANGED storageInner
<1>1. ASSUME TaskNext PROVE ExecuteOk \/ UNCHANGED storageInner
  BY <1>1 DEF TaskNext, Poll, ReceiveBlock, NothingToInsert, StartInsert, AcquireLock,
     ClearPool, ExecuteErr, SendForkchoice, AwaitReply, HandleReply, storageVars
<1>2. ASSUME EngineNext \/ EngineEnds PROVE UNCHANGED storageInner
  BY <1>2, EngineEffect
<1>3. ASSUME NEW t, Submit(t) PROVE UNCHANGED storageInner
  BY <1>3 DEF Submit, storageVars
<1>4. ASSUME NEW txs, Relay(txs) PROVE UNCHANGED storageInner
  BY <1>4 DEF Relay, storageVars
<1>5. ASSUME ConsumerEnds PROVE UNCHANGED storageInner
  BY <1>5 DEF ConsumerEnds, storageVars
<1>6. ASSUME UNCHANGED execVars PROVE UNCHANGED storageInner
  BY <1>6 DEF execVars, storageVars
<1>. QED
  BY ExecCases, <1>1, <1>2, <1>3, <1>4, <1>5, <1>6

-----------------------------------------------------------------------------
(* The storage holds one chain.  Hashes of blocks with different numbers    *)
(* differ, because the chain below a block has as many blocks as its number *)
(* says.                                                                    *)

Linked ==
    /\ bestBlock >= StartNumber
    /\ \A n \in StartNumber..bestBlock :
         Len(HashOf(headers[n])) = n - StartNumber + 1
    /\ StorageLinked

\* The storage holds the genesis block alone.
LEMMA LinkedInit == ExecInit => Linked
<1>. SUFFICES ASSUME ExecInit PROVE Linked
  OBVIOUS
<1>1. /\ headers = [n \in {StartNumber} |-> StartHeader] /\ bestBlock = StartNumber
      /\ bestHash = HashOf(StartHeader) /\ totalDifficulty = StartDifficulty
  BY DEF ExecInit, StorageInit
<1>2. StartNumber..bestBlock = {StartNumber} /\ StartNumber+1..bestBlock = {}
  BY <1>1, StartAssumption, SMT
<1>3. headers[StartNumber] = StartHeader /\ DOMAIN headers = {StartNumber}
  BY <1>1
<1>4. Len(HashOf(StartHeader)) = 1
  BY StartHeaderType, SMT
<1>5. StorageLinked
  BY <1>1, <1>2, <1>3, StartAssumption, SMT DEF StorageLinked
<1>6. \A n \in StartNumber..bestBlock :
         Len(HashOf(headers[n])) = n - StartNumber + 1
  <2>1. \A n \in StartNumber..bestBlock : n = StartNumber
    BY <1>2
  <2>2. Len(HashOf(headers[StartNumber])) = StartNumber - StartNumber + 1
    BY <1>3, <1>4, StartAssumption, SMT
  <2>. QED
    BY <2>1, <2>2
<1>. QED
  BY <1>1, <1>5, <1>6, StartAssumption, SMT DEF Linked

\* A new block is linked to the block that was best, and the others are kept.
LEMMA LinkedInsert ==
    ASSUME StorageTypeOK, Linked, NEW txs \in SUBSET Txs, NEW root \in SUBSET Txs,
           InsertNewBlock(HeaderTemplate(txs, root), txs)
    PROVE  Linked'
<1>1. PICK header \in Headers :
         /\ header.number = bestBlock + 1 /\ header.parent = bestHash
         /\ header.txs = txs
         /\ HashOf(header) = Append(bestHash, txs)
         /\ bestHash' = HashOf(header)
         /\ bestBlock' = bestBlock + 1
         /\ totalDifficulty' = totalDifficulty + 2
         /\ headers' = Store(headers, bestBlock + 1, header)
         /\ bodies' = Store(bodies, HashOf(header), txs)
         /\ hashToNumber' = Store(hashToNumber, HashOf(header), bestBlock + 1)
  BY InsertEffect, SMT
<1>2. PICK top \in Nat : top = bestBlock + 1
  BY SMT DEF StorageTypeOK
<1>3. PICK hash \in Hashes : hash = HashOf(header)
  BY HashType
<1>4. /\ DOMAIN headers' = DOMAIN headers \cup {top} /\ headers'[top] = header
      /\ \A n \in DOMAIN headers : n # top => headers'[n] = headers[n]
  BY <1>1, <1>2 DEF Store
<1>5. /\ DOMAIN bodies' = DOMAIN bodies \cup {hash} /\ bodies'[hash] = txs
      /\ \A h \in DOMAIN bodies : h # hash => bodies'[h] = bodies[h]
  BY <1>1, <1>3 DEF Store
<1>6. /\ DOMAIN hashToNumber' = DOMAIN hashToNumber \cup {hash} /\ hashToNumber'[hash] = top
      /\ \A h \in DOMAIN hashToNumber : h # hash => hashToNumber'[h] = hashToNumber[h]
  BY <1>1, <1>2, <1>3 DEF Store
<1>7. /\ bestBlock \in Nat /\ StartNumber \in Nat /\ bestBlock >= StartNumber
      /\ DOMAIN headers = StartNumber..bestBlock
      /\ bestHash = HashOf(headers[bestBlock])
      /\ totalDifficulty = StartDifficulty + 2 * (bestBlock - StartNumber)
  BY StartAssumption DEF StorageTypeOK, Linked, StorageLinked
<1>8. Len(hash) = top - StartNumber + 1
  <2>1. Len(bestHash) = bestBlock - StartNumber + 1
    BY <1>7, SMT DEF Linked
  <2>2. Len(hash) = Len(bestHash) + 1
    BY <1>1, <1>3, HashType
  <2>. QED
    BY <1>2, <1>7, <2>1, <2>2, SMT
<1>9. \A n \in StartNumber..bestBlock :
         /\ headers'[n] = headers[n] /\ HashOf(headers[n]) # hash
         /\ Len(HashOf(headers[n])) = n - StartNumber + 1
  <2>1. \A n \in StartNumber..bestBlock :
           Len(HashOf(headers[n])) = n - StartNumber + 1 /\ n # top
    BY <1>2, <1>7, SMT DEF Linked
  <2>2. ASSUME NEW n \in StartNumber..bestBlock
        PROVE  headers'[n] = headers[n] /\ HashOf(headers[n]) # hash
    <3>1. headers'[n] = headers[n]
      BY <1>4, <1>7, <2>1
    <3>2. n - StartNumber + 1 # top - StartNumber + 1
      BY <1>2, <1>7, SMT
    <3>. QED
      BY <1>8, <2>1, <3>1, <3>2
  <2>. QED
    BY <2>1, <2>2
<1>10. \A n \in StartNumber+1..bestBlock :
          /\ headers[n].number = n /\ headers[n].parent = HashOf(headers[n-1])
          /\ HashOf(headers[n]) \in DOMAIN hashToNumber
          /\ hashToNumber[HashOf(headers[n])] = n
          /\ HashOf(headers[n]) \in DOMAIN bodies
          /\ bodies[HashOf(headers[n])] = headers[n].txs
  BY DEF Linked, StorageLinked
<1>11. ASSUME NEW n \in StartNumber+1..top
       PROVE  /\ headers'[n].number = n /\ headers'[n].parent = HashOf(headers'[n-1])
              /\ HashOf(headers'[n]) \in DOMAIN hashToNumber'
              /\ hashToNumber'[HashOf(headers'[n])] = n
              /\ HashOf(headers'[n]) \in DOMAIN bodies'
              /\ bodies'[HashOf(headers'[n])] = headers'[n].txs
  <2>1. CASE n = top
    <3>1. n - 1 = bestBlock /\ headers'[n] = header /\ headers'[n-1] = headers[n-1]
      BY <1>2, <1>4, <1>7, <1>9, <2>1, SMT
    <3>. QED
      BY <1>1, <1>2, <1>3, <1>5, <1>6, <1>7, <2>1, <3>1
  <2>2. CASE n # top
    <3>1. n \in StartNumber+1..bestBlock /\ n - 1 \in StartNumber..bestBlock
          /\ n \in StartNumber..bestBlock
      BY <1>2, <1>7, <2>2, SMT
    <3>2. headers'[n] = headers[n] /\ headers'[n-1] = headers[n-1] /\ HashOf(headers[n]) # hash
      BY <1>9, <3>1
    <3>3. /\ headers[n].number = n /\ headers[n].parent = HashOf(headers[n-1])
          /\ HashOf(headers[n]) \in DOMAIN hashToNumber
          /\ hashToNumber[HashOf(headers[n])] = n
          /\ HashOf(headers[n]) \in DOMAIN bodies
          /\ bodies[HashOf(headers[n])] = headers[n].txs
      BY <1>10, <3>1
    <3>4. PICK g : g = HashOf(headers[n])
      OBVIOUS
    <3>5. g \in DOMAIN hashToNumber' /\ hashToNumber'[g] = n
      BY <1>6, <3>2, <3>3, <3>4
    <3>6. g \in DOMAIN bodies' /\ bodies'[g] = headers[n].txs
      BY <1>5, <3>2, <3>3, <3>4
    <3>. QED
      BY <3>2, <3>3, <3>4, <3>5, <3>6
  <2>. QED
    BY <2>1, <2>2
<1>12. DOMAIN headers' = StartNumber..bestBlock'
  <2>1. StartNumber..top = (StartNumber..bestBlock) \cup {top}
    BY <1>2, <1>7, SMT
  <2>. QED
    BY <1>1, <1>2, <1>4, <1>7, <2>1
<1>13. StorageLinked'
  <2>1. bestBlock' = top /\ bestHash' = HashOf(headers'[top])
    BY <1>1, <1>2, <1>4
  <2>2. totalDifficulty' = StartDifficulty + 2 * (top - StartNumber)
    <3>1. totalDifficulty' = StartDifficulty + 2 * (bestBlock - StartNumber) + 2
      BY <1>1, <1>7
    <3>2. StartDifficulty \in Nat
      BY StartAssumption
    <3>. QED
      BY <1>2, <1>7, <3>1, <3>2, SMT
  <2>. QED
    BY <1>11, <1>12, <2>1, <2>2 DEF StorageLinked
<1>14. ASSUME NEW n \in StartNumber..top
       PROVE  Len(HashOf(headers'[n])) = n - StartNumber + 1
  <2>1. CASE n = top
    BY <1>3, <1>4, <1>8, <2>1
  <2>2. CASE n # top
    <3>1. n \in StartNumber..bestBlock
      BY <1>2, <1>7, <2>2, SMT
    <3>. QED
      BY <1>9, <3>1
  <2>. QED
    BY <2>1, <2>2
<1>. QED
  BY <1>1, <1>2, <1>7, <1>13, <1>14, SMT DEF Linked

\* No step of the task, the engine, the consumer or a client unlinks a block.
LEMMA LinkedNext ==
    ASSUME ExecTypes, Linked, [ExecNext]_execVars
    PROVE  Linked'
<1>1. CASE ExecuteOk
  BY <1>1, ExecuteEffect, LinkedInsert DEF ExecTypes
<1>2. CASE UNCHANGED storageInner
  BY <1>2 DEF storageInner, Linked, StorageLinked
<1>. QED
  BY <1>1, <1>2, StorageSteps

\* The storage always holds one unbroken chain from the starting block, indexed by
\* number and by hash (insert_new_block).
THEOREM StorageIsLinked == ExecSpec => []StorageLinked
<1>1. Linked => StorageLinked
  BY DEF Linked
<1>. QED
  BY <1>1, ExecTypesInit, ExecTypesNext, LinkedInit, LinkedNext, PTL DEF ExecSpec

-----------------------------------------------------------------------------
(* The canonical chain grows.  The head that the task announces is the best *)
(* block, since nothing is stored between its execution and the answer.     *)

\* A block counts among its own ancestors.
LEMMA AncestorRefl ==
    ASSUME NEW s \in Hashes
    PROVE  IsAncestor(s, s)
BY SMT DEF IsAncestor, Hashes

\* A block added to a chain has the ancestors of the block below it.
LEMMA AncestorAppend ==
    ASSUME NEW s \in Hashes, NEW t \in Hashes, NEW x \in SUBSET Txs, IsAncestor(s, t)
    PROVE  IsAncestor(s, Append(t, x))
<1>1. Append(t, x) \in Hashes /\ Len(Append(t, x)) = Len(t) + 1
      /\ \A i \in 1..Len(t) : Append(t, x)[i] = t[i]
  BY SMT DEF Hashes
<1>2. Len(s) <= Len(t) /\ (\A i \in 1..Len(s) : s[i] = t[i]) /\ Len(s) \in Nat /\ Len(t) \in Nat
  BY SMT DEF Hashes, IsAncestor
<1>3. PICK u \in Hashes : u = Append(t, x)
  BY <1>1
<1>4. Len(s) <= Len(u) /\ \A i \in 1..Len(s) : s[i] = u[i]
  BY <1>1, <1>2, <1>3, SMT
<1>. QED
  BY <1>3, <1>4 DEF IsAncestor

HeadIsBest ==
    /\ IsAncestor(canonicalHead, bestHash)
    /\ insert.stage \in {"clear", "send", "await"} =>
         insert.head = bestHash /\ insert.txs \subseteq StateAfter(bestHash)

\* Which steps change the canonical head, the best block or the head to be announced.
LEMMA HeadSteps ==
    ASSUME ExecTypes, [ExecNext]_execVars
    PROVE  \/ ExecuteOk
           \/ HandleReply
           \/ /\ UNCHANGED <<canonicalHead, bestHash>>
              /\ \/ UNCHANGED insert
                 \/ insert'.stage \in {"none", "lock", "execute"}
                 \/ /\ insert.stage \in {"clear", "send"}
                    /\ insert'.head = insert.head /\ insert'.txs = insert.txs
<1>. DEFINE Kept == /\ UNCHANGED <<canonicalHead, bestHash>>
                   /\ \/ UNCHANGED insert
                      \/ insert'.stage \in {"none", "lock", "execute"}
                      \/ /\ insert.stage \in {"clear", "send"}
                         /\ insert'.head = insert.head /\ insert'.txs = insert.txs
<1>1. ASSUME TaskNext PROVE ExecuteOk \/ HandleReply \/ Kept
  <2>1. CASE Poll \/ ReceiveBlock \/ NothingToInsert \/ AwaitReply
    BY <2>1 DEF Poll, ReceiveBlock, NothingToInsert, AwaitReply, storageVars, storageInner
  <2>2. CASE StartInsert
    <3>1. /\ queued # <<>> /\ UNCHANGED <<storageVars, canonicalHead>>
          /\ insert' = [NoInsert EXCEPT !.stage = "lock", !.txs = Head(queued),
                                        !.events = pipelineEvents]
      BY <2>2 DEF StartInsert
    <3>2. Head(queued) \in SUBSET Txs /\ pipelineEvents \in BOOLEAN
      BY <3>1, SMT DEF ExecTypes, TaskTypeOK
    <3>3. insert'.stage = "lock"
      BY <3>1, <3>2, StartInsertType
    <3>. QED
      BY <3>1, <3>3 DEF storageVars, storageInner
  <2>3. CASE AcquireLock
    <3>1. /\ UNCHANGED insert \/ insert' = [insert EXCEPT !.stage = "execute"]
          /\ UNCHANGED <<storageInner, canonicalHead>>
      BY <2>3 DEF AcquireLock
    <3>. QED
      BY <3>1, InsertStage DEF ExecTypes, Stages, storageInner
  <2>4. CASE ExecuteErr
    BY <2>4, NoInsertType DEF ExecuteErr, Ready, storageInner
  <2>5. CASE SendForkchoice
    <3>1. /\ insert.stage = "send" /\ insert' = [insert EXCEPT !.stage = "await"]
          /\ UNCHANGED <<storageVars, canonicalHead>>
      BY <2>5 DEF SendForkchoice, At
    <3>. QED
      BY <3>1, InsertStage DEF ExecTypes, Stages, storageVars, storageInner
  <2>6. CASE ClearPool
    <3>1. /\ insert.stage = "clear" /\ insert' = [insert EXCEPT !.stage = "send"]
          /\ UNCHANGED <<storageInner, canonicalHead>>
      BY <2>6 DEF ClearPool, At
    <3>. QED
      BY <3>1, InsertStage DEF ExecTypes, Stages, storageInner
  <2>. QED
    BY <1>1, <2>1, <2>2, <2>3, <2>4, <2>5, <2>6 DEF TaskNext
<1>2. ASSUME EngineNext \/ EngineEnds, UNCHANGED taskVars PROVE Kept
  BY <1>2, EngineEffect DEF storageInner, taskVars
<1>3. ASSUME NEW t, Submit(t) PROVE Kept
  BY <1>3 DEF Submit, storageVars, storageInner, taskVars
<1>4. ASSUME NEW txs, Relay(txs) PROVE Kept
  BY <1>4 DEF Relay, storageVars, storageInner, taskVars
<1>5. ASSUME ConsumerEnds PROVE Kept
  BY <1>5 DEF ConsumerEnds, storageVars, storageInner, taskVars
<1>6. ASSUME UNCHANGED execVars PROVE Kept
  BY <1>6 DEF execVars, storageVars, storageInner, taskVars
<1>. HIDE DEF Kept
<1>7. ExecuteOk \/ HandleReply \/ Kept
  BY ExecCases, <1>1, <1>2, <1>3, <1>4, <1>5, <1>6
<1>. QED
  BY <1>7 DEF Kept

\* Every step keeps the heads on one chain, and the canonical head only moves along it.
LEMMA HeadNext ==
    ASSUME ExecTypes, HeadIsBest, [ExecNext]_execVars
    PROVE  HeadIsBest' /\ IsAncestor(canonicalHead, canonicalHead')
<1>0. canonicalHead \in Hashes /\ bestHash \in Hashes
  BY DEF ExecTypes, TaskTypeOK, StorageTypeOK
<1>1. CASE ExecuteOk
  <2>1. /\ insert' = [insert EXCEPT !.stage = "clear", !.head = bestHash']
        /\ UNCHANGED canonicalHead
    BY <1>1 DEF ExecuteOk
  <2>2. insert'.head = bestHash' /\ insert'.txs = insert.txs
    BY <2>1 DEF ExecTypes, TaskTypeOK
  <2>3. IsAncestor(canonicalHead, bestHash')
    BY <1>0, <1>1, ExecuteEffect, AncestorAppend DEF HeadIsBest
  <2>4. StateAfter(bestHash') = StateAfter(bestHash) \cup insert.txs
    BY <1>1, ExecuteEffect, StateAfterAppend
  <2>. QED
    BY <1>0, <2>1, <2>2, <2>3, <2>4, AncestorRefl DEF HeadIsBest
<1>2. CASE HandleReply
  <2>1. PICK r \in reply : OnReply(r)
    BY <1>2 DEF HandleReply
  <2>2. insert.stage = "await" /\ bestHash' = bestHash
    BY <1>2 DEF HandleReply, At, storageVars, storageInner
  <2>3. insert.head = bestHash /\ insert.txs \subseteq StateAfter(bestHash)
    BY <2>2 DEF HeadIsBest
  <2>4. \/ canonicalHead' \in {canonicalHead, insert.head} /\ insert'.stage = "none"
        \/ canonicalHead' = canonicalHead /\ insert' = [insert EXCEPT !.stage = "send"]
    BY <2>1, NoInsertType DEF OnReply, Ready
  <2>5. insert' = [insert EXCEPT !.stage = "send"]
           => insert'.head = insert.head /\ insert'.txs = insert.txs
    BY InsertStage DEF ExecTypes, Stages
  <2>. QED
    BY <1>0, <2>2, <2>3, <2>4, <2>5, AncestorRefl DEF HeadIsBest
<1>3. CASE /\ UNCHANGED <<canonicalHead, bestHash>>
           /\ \/ UNCHANGED insert
              \/ insert'.stage \in {"none", "lock", "execute"}
              \/ /\ insert.stage \in {"clear", "send"}
                 /\ insert'.head = insert.head /\ insert'.txs = insert.txs
  BY <1>0, <1>3, AncestorRefl DEF HeadIsBest
<1>. QED
  BY <1>1, <1>2, <1>3, HeadSteps

\* Every head is the genesis block.
LEMMA HeadInit == ExecInit => HeadIsBest
BY StartHeaderType, AncestorRefl, NoInsertType
   DEF ExecInit, StorageInit, TaskInit, HeadIsBest

\* set_canonical_head never rolls the canonical chain back: each new head extends
\* the one before it.
THEOREM CanonicalGrows == ExecSpec => CanonicalOnlyGrows
<1>. QED
  BY ExecTypesInit, ExecTypesNext, HeadInit, HeadNext, PTL
     DEF ExecSpec, CanonicalOnlyGrows

-----------------------------------------------------------------------------
(* The pool.  A block's transactions leave it after they have been stored.  *)

NothingLost == submitted \subseteq pool \cup StateAfter(bestHash)

\* Only the execution of a block, its removal from the pool and a submission change
\* the pool or the best block.
LEMMA PoolSteps ==
    ASSUME ExecTypes, [ExecNext]_execVars
    PROVE  \/ ExecuteOk /\ UNCHANGED <<submitted, pool>>
           \/ ClearPool /\ UNCHANGED <<submitted, bestHash>>
           \/ \E t \in Txs : Submit(t)
           \/ UNCHANGED <<pool, submitted, bestHash>>
<1>1. ASSUME TaskNext
      PROVE  \/ ExecuteOk /\ UNCHANGED pool
             \/ ClearPool /\ UNCHANGED bestHash
             \/ UNCHANGED <<pool, bestHash>>
  BY <1>1 DEF TaskNext, Poll, ReceiveBlock, NothingToInsert, StartInsert, AcquireLock,
     ExecuteOk, ClearPool, ExecuteErr, SendForkchoice, AwaitReply, HandleReply,
     channels, storageVars, storageInner
<1>2. ASSUME EngineNext \/ EngineEnds PROVE UNCHANGED <<pool, bestHash>>
  BY <1>2, EngineEffect DEF channels, storageInner
<1>3. ASSUME NEW txs, Relay(txs) PROVE UNCHANGED <<pool, submitted, bestHash>>
  BY <1>3 DEF Relay, storageVars, storageInner
<1>4. ASSUME ConsumerEnds PROVE UNCHANGED <<pool, submitted, bestHash>>
  BY <1>4 DEF ConsumerEnds, channels, storageVars, storageInner
<1>5. ASSUME UNCHANGED execVars PROVE UNCHANGED <<pool, submitted, bestHash>>
  BY <1>5 DEF execVars, channels, storageVars, storageInner
<1>. QED
  BY ExecCases, <1>1, <1>2, <1>3, <1>4, <1>5

\* No step makes a submitted transaction disappear.
LEMMA NothingLostNext ==
    ASSUME ExecTypes, HeadIsBest, NothingLost, [ExecNext]_execVars
    PROVE  NothingLost'
<1>1. CASE ExecuteOk /\ UNCHANGED <<submitted, pool>>
  <2>1. StateAfter(bestHash') = StateAfter(bestHash) \cup insert.txs
    BY <1>1, ExecuteEffect, StateAfterAppend
  <2>. QED
    BY <1>1, <2>1 DEF NothingLost
<1>2. CASE ClearPool /\ UNCHANGED <<submitted, bestHash>>
  <2>1. pool' = pool \ insert.txs /\ insert.stage = "clear"
    BY <1>2 DEF ClearPool, At
  <2>2. insert.txs \subseteq StateAfter(bestHash)
    BY <2>1 DEF HeadIsBest
  <2>. QED
    BY <1>2, <2>1, <2>2 DEF NothingLost
<1>3. ASSUME NEW t \in Txs, Submit(t) PROVE NothingLost'
  BY <1>3 DEF NothingLost, Submit, storageVars, storageInner
<1>4. CASE UNCHANGED <<pool, submitted, bestHash>>
  BY <1>4 DEF NothingLost
<1>. QED
  BY <1>1, <1>2, <1>3, <1>4, PoolSteps

-----------------------------------------------------------------------------
(* Blocks in order: facts about sequences of blocks. *)

Blocks == Seq(SUBSET Txs)

\* A sequence of blocks is its first block followed by the rest.
LEMMA HeadThenTail ==
    ASSUME NEW s \in Blocks, s # <<>>
    PROVE  /\ Head(s) \in SUBSET Txs /\ Tail(s) \in Blocks
           /\ <<Head(s)>> \o Tail(s) = s
<1>1. Head(s) \in SUBSET Txs /\ Tail(s) \in Blocks
  BY SMT DEF Blocks
<1>2. <<Head(s)>> \o Tail(s) = s
  BY SMT DEF Blocks
<1>. QED
  BY <1>1, <1>2

\* The first block of the channel is queued.
LEMMA ReceivedLast ==
    ASSUME NEW b \in Blocks, NEW c \in Blocks, NEW d \in Blocks, d # <<>>
    PROVE  (b \o Append(c, Head(d))) \o Tail(d) = (b \o c) \o d
<1>1. /\ Head(d) \in SUBSET Txs /\ Tail(d) \in Blocks
      /\ <<Head(d)>> \o Tail(d) = d
  BY HeadThenTail
<1>2. PICK x \in SUBSET Txs : x = Head(d)
  BY <1>1
<1>3. PICK e \in Blocks : e = Tail(d)
  BY <1>1
<1>4. <<x>> \in Seq(SUBSET Txs) /\ c \o <<x>> \in Seq(SUBSET Txs)
      /\ b \o c \in Seq(SUBSET Txs)
  BY ConcatProperties, SMT DEF Blocks
<1>5. Append(c, x) = c \o <<x>>
  BY AppendIsConcat DEF Blocks
<1>6. b \o (c \o <<x>>) = (b \o c) \o <<x>>
  BY <1>4, ConcatAssociative, SMT DEF Blocks
<1>7. ((b \o c) \o <<x>>) \o e = (b \o c) \o (<<x>> \o e)
  BY <1>4, ConcatAssociative, SMT DEF Blocks
<1>. QED
  BY <1>1, <1>2, <1>3, <1>5, <1>6, <1>7

\* The block being inserted is executed.
LEMMA ExecutedLast ==
    ASSUME NEW a \in Blocks, NEW c \in Blocks, NEW d \in Blocks, NEW x \in SUBSET Txs
    PROVE  Append(a, x) \o ((<<>> \o c) \o d) = a \o ((<<x>> \o c) \o d)
<1>1. <<x>> \in Seq(SUBSET Txs) /\ c \o d \in Seq(SUBSET Txs)
  BY ConcatProperties, SMT DEF Blocks
<1>2. Append(a, x) = a \o <<x>>
  BY AppendIsConcat DEF Blocks
<1>3. <<>> \o c = c
  BY ConcatEmptySeq DEF Blocks
<1>4. (<<x>> \o c) \o d = <<x>> \o (c \o d)
  BY <1>1, ConcatAssociative, SMT DEF Blocks
<1>5. (a \o <<x>>) \o (c \o d) = a \o (<<x>> \o (c \o d))
  BY <1>1, ConcatAssociative, SMT DEF Blocks
<1>. QED
  BY <1>2, <1>3, <1>4, <1>5

BlocksOf(e) == [i \in DOMAIN e |-> e[i].txs]
Inserting(i) == IF i.stage \in {"lock", "execute"} THEN <<i.txs>> ELSE <<>>

\* The block executed last is the last of the blocks executed.
LEMMA DoneAppend ==
    ASSUME NEW e \in Seq([txs : SUBSET Txs, ok : BOOLEAN]),
           NEW x \in [txs : SUBSET Txs, ok : BOOLEAN]
    PROVE  /\ BlocksOf(e) \in Blocks
           /\ BlocksOf(Append(e, x)) = Append(BlocksOf(e), x.txs)
<1>1. /\ Len(e) \in Nat /\ DOMAIN e = 1..Len(e)
      /\ \A i \in 1..Len(e) : e[i].txs \in SUBSET Txs
  <2>1. \A i \in 1..Len(e) : e[i] \in [txs : SUBSET Txs, ok : BOOLEAN]
    BY ElementOfSeq
  <2>. QED
    BY <2>1, SMT
<1>2. BlocksOf(e) \in [1..Len(e) -> SUBSET Txs]
  BY <1>1 DEF BlocksOf
<1>3. BlocksOf(e) \in Blocks /\ Len(BlocksOf(e)) = Len(e)
  BY <1>1, <1>2, SMT DEF Blocks
<1>4. /\ DOMAIN Append(e, x) = 1..Len(e)+1
      /\ \A i \in 1..Len(e) : Append(e, x)[i] = e[i]
      /\ Append(e, x)[Len(e)+1] = x
  BY <1>1, SMT
<1>5. /\ DOMAIN Append(BlocksOf(e), x.txs) = 1..Len(e)+1
      /\ \A i \in 1..Len(e) : Append(BlocksOf(e), x.txs)[i] = BlocksOf(e)[i]
      /\ Append(BlocksOf(e), x.txs)[Len(e)+1] = x.txs
  BY <1>1, <1>3, SMT DEF Blocks
<1>6. \A i \in 1..Len(e)+1 : Append(e, x)[i].txs = Append(BlocksOf(e), x.txs)[i]
  BY <1>1, <1>4, <1>5, SMT DEF BlocksOf
<1>7. Append(BlocksOf(e), x.txs) = [i \in 1..Len(e)+1 |-> Append(BlocksOf(e), x.txs)[i]]
  BY <1>1, <1>3, <1>5, SMT DEF Blocks
<1>8. BlocksOf(Append(e, x)) = [i \in 1..Len(e)+1 |-> Append(e, x)[i].txs]
  BY <1>4 DEF BlocksOf
<1>. QED
  BY <1>3, <1>6, <1>7, <1>8

-----------------------------------------------------------------------------
(* Blocks in order. *)

\* The property, bracketed the way its steps move the blocks.
LEMMA InOrderDef ==
    /\ BlocksInOrder <=>
         BlocksOf(executed) \o ((Inserting(insert) \o queued) \o toTask) = sent
    /\ BlocksInOrder' <=>
         BlocksOf(executed') \o ((Inserting(insert') \o queued') \o toTask') = sent'
BY DEF BlocksInOrder, Waiting, BlocksOf, Inserting

\* A step that moves no block.
LEMMA InOrderKept ==
    ASSUME BlocksInOrder, UNCHANGED <<executed, queued, toTask, sent>>,
           Inserting(insert') = Inserting(insert)
    PROVE  BlocksInOrder'
<1>1. BlocksOf(executed') = BlocksOf(executed)
  OBVIOUS
<1>. QED
  BY <1>1, InOrderDef

\* The parts of the sequence are sequences of blocks.
LEMMA InOrderTypes ==
    ASSUME ExecTypes
    PROVE  /\ BlocksOf(executed) \in Blocks /\ queued \in Blocks /\ toTask \in Blocks
           /\ Inserting(insert) \in Blocks /\ insert.txs \in SUBSET Txs
<1>1. /\ executed \in Seq([txs : SUBSET Txs, ok : BOOLEAN])
      /\ queued \in Blocks /\ toTask \in Blocks /\ insert.txs \in SUBSET Txs
  BY DEF ExecTypes, TaskTypeOK, ChannelsTypeOK, Blocks
<1>2. [txs |-> {}, ok |-> TRUE] \in [txs : SUBSET Txs, ok : BOOLEAN]
  OBVIOUS
<1>3. BlocksOf(executed) \in Blocks
  BY <1>1, <1>2, DoneAppend
<1>4. <<>> \in Blocks /\ <<insert.txs>> \in Blocks
  BY <1>1, SMT DEF Blocks
<1>. QED
  BY <1>1, <1>3, <1>4 DEF Inserting

\* The task moves blocks from one part to the next.
LEMMA InOrderTask ==
    ASSUME ExecTypes, BlocksInOrder, TaskNext, UNCHANGED sent
    PROVE  BlocksInOrder'
<1>0. /\ BlocksOf(executed) \in Blocks /\ queued \in Blocks /\ toTask \in Blocks
      /\ Inserting(insert) \in Blocks /\ insert.txs \in SUBSET Txs
  BY InOrderTypes
<1>1. CASE Poll \/ NothingToInsert \/ AwaitReply
  <2>1. UNCHANGED <<executed, queued, toTask, insert>>
    BY <1>1 DEF Poll, NothingToInsert, AwaitReply, channels
  <2>. QED
    BY <2>1, InOrderKept
<1>2. CASE ReceiveBlock
  <2>1. UNCHANGED <<executed, insert>>
    BY <1>2 DEF ReceiveBlock
  <2>2. CASE UNCHANGED <<queued, toTask>>
    BY <2>1, <2>2, InOrderKept
  <2>3. CASE /\ toTask # <<>>
             /\ queued' = Append(queued, Head(toTask)) /\ toTask' = Tail(toTask)
    BY <1>0, <2>1, <2>3, ReceivedLast, InOrderDef
  <2>. QED
    BY <1>2, <2>2, <2>3, ReceiveCases
<1>3. CASE StartInsert
  <2>1. /\ insert.stage = "none" /\ queued # <<>> /\ queued' = Tail(queued)
        /\ insert' = [NoInsert EXCEPT !.stage = "lock", !.txs = Head(queued),
                                      !.events = pipelineEvents]
        /\ UNCHANGED <<executed, toTask>>
    BY <1>3 DEF StartInsert, At, channels
  <2>2. /\ Head(queued) \in SUBSET Txs /\ <<Head(queued)>> \o Tail(queued) = queued
        /\ pipelineEvents \in BOOLEAN
    BY <1>0, <2>1, HeadThenTail DEF ExecTypes, TaskTypeOK
  <2>3. insert'.stage = "lock" /\ insert'.txs = Head(queued)
    BY <2>1, <2>2, StartInsertType
  <2>4. Inserting(insert) = <<>> /\ Inserting(insert') = <<Head(queued)>>
    BY <2>1, <2>3 DEF Inserting
  <2>5. <<>> \o queued = queued
    BY <1>0, ConcatEmptySeq DEF Blocks
  <2>. QED
    BY <2>1, <2>2, <2>4, <2>5, InOrderDef
<1>4. CASE AcquireLock
  <2>1. /\ UNCHANGED insert \/ insert' = [insert EXCEPT !.stage = "execute"]
        /\ insert.stage = "lock" /\ UNCHANGED <<executed, queued, toTask>>
    BY <1>4 DEF AcquireLock, At, channels
  <2>2. insert' = [insert EXCEPT !.stage = "execute"]
           => insert'.stage = "execute" /\ insert'.txs = insert.txs
    BY InsertStage DEF ExecTypes, Stages
  <2>3. Inserting(insert') = Inserting(insert)
    BY <2>1, <2>2 DEF Inserting
  <2>. QED
    BY <2>1, <2>3, InOrderKept
<1>5. CASE ExecuteOk \/ ExecuteErr
  <2>1. PICK ok \in BOOLEAN : executed' = Append(executed, [txs |-> insert.txs, ok |-> ok])
    BY <1>5 DEF ExecuteOk, ExecuteErr
  <2>2. insert.stage = "execute" /\ UNCHANGED <<queued, toTask>>
    BY <1>5 DEF ExecuteOk, ExecuteErr, At, channels
  <2>3. insert'.stage \in {"clear", "none"}
    <3>1. ASSUME ExecuteOk PROVE insert'.stage = "clear"
      <4>1. insert' = [insert EXCEPT !.stage = "clear", !.head = bestHash']
        BY <3>1 DEF ExecuteOk
      <4>. QED
        BY <4>1 DEF ExecTypes, TaskTypeOK
    <3>2. ASSUME ExecuteErr PROVE insert'.stage = "none"
      BY <3>2, NoInsertType DEF ExecuteErr, Ready
    <3>. QED
      BY <1>5, <3>1, <3>2
  <2>4. Inserting(insert) = <<insert.txs>> /\ Inserting(insert') = <<>>
    BY <2>2, <2>3 DEF Inserting
  <2>5. PICK x \in [txs : SUBSET Txs, ok : BOOLEAN] : x = [txs |-> insert.txs, ok |-> ok]
    BY <1>0, <2>1
  <2>6. x.txs = insert.txs
    BY <2>5
  <2>7. BlocksOf(executed') = Append(BlocksOf(executed), insert.txs)
    BY <2>1, <2>5, <2>6, DoneAppend DEF ExecTypes, TaskTypeOK
  <2>8. Append(BlocksOf(executed), insert.txs) \o ((<<>> \o queued) \o toTask) =
          BlocksOf(executed) \o ((<<insert.txs>> \o queued) \o toTask)
    <3>1. PICK a \in Blocks : a = BlocksOf(executed)
      BY <1>0
    <3>2. PICK t \in SUBSET Txs : t = insert.txs
      BY <1>0
    <3>3. PICK c \in Blocks : c = queued
      BY <1>0
    <3>4. PICK d \in Blocks : d = toTask
      BY <1>0
    <3>5. Append(a, t) \o ((<<>> \o c) \o d) = a \o ((<<t>> \o c) \o d)
      BY ExecutedLast, SMT
    <3>. QED
      BY <3>1, <3>2, <3>3, <3>4, <3>5
  <2>. QED
    BY <2>2, <2>4, <2>7, <2>8, InOrderDef
<1>6. CASE SendForkchoice
  <2>1. /\ insert' = [insert EXCEPT !.stage = "await"] /\ insert.stage = "send"
        /\ UNCHANGED <<executed, queued, toTask>>
    BY <1>6 DEF SendForkchoice, At, channels
  <2>2. insert'.stage = "await"
    BY <2>1, InsertStage DEF ExecTypes, Stages
  <2>. QED
    BY <2>1, <2>2, InOrderKept DEF Inserting
<1>7. CASE HandleReply
  <2>1. PICK r \in reply : OnReply(r)
    BY <1>7 DEF HandleReply
  <2>2. insert.stage = "await" /\ UNCHANGED <<executed, queued, toTask>>
    BY <1>7 DEF HandleReply, At, channels
  <2>3. insert' = NoInsert \/ insert' = [insert EXCEPT !.stage = "send"]
    BY <2>1 DEF OnReply, Ready
  <2>4. insert'.stage \in {"none", "send"}
    BY <2>3, NoInsertType, InsertStage DEF ExecTypes, Stages
  <2>. QED
    BY <2>2, <2>4, InOrderKept DEF Inserting
<1>8. CASE ClearPool
  <2>1. /\ insert' = [insert EXCEPT !.stage = "send"] /\ insert.stage = "clear"
        /\ UNCHANGED <<executed, queued, toTask>>
    BY <1>8 DEF ClearPool, At
  <2>2. insert'.stage = "send"
    BY <2>1, InsertStage DEF ExecTypes, Stages
  <2>. QED
    BY <2>1, <2>2, InOrderKept DEF Inserting
<1>. QED
  BY <1>1, <1>2, <1>3, <1>4, <1>5, <1>6, <1>7, <1>8 DEF TaskNext

\* Every step keeps the blocks in order.
LEMMA InOrderNext ==
    ASSUME ExecTypes, BlocksInOrder, [ExecNext]_execVars
    PROVE  BlocksInOrder'
<1>1. ASSUME TaskNext, UNCHANGED <<submitted, sent>> PROVE BlocksInOrder'
  BY <1>1, InOrderTask
<1>2. ASSUME EngineNext \/ EngineEnds, UNCHANGED <<taskVars, submitted, sent>>
      PROVE  BlocksInOrder'
  BY <1>2, EngineEffect, InOrderKept DEF taskVars, channels
<1>3. ASSUME NEW t, Submit(t) PROVE BlocksInOrder'
  BY <1>3, InOrderKept DEF Submit, taskVars
<1>4. ASSUME NEW txs \in SUBSET submitted, Relay(txs) PROVE BlocksInOrder'
  <2>1. /\ toTask' = Append(toTask, txs) /\ sent' = Append(sent, txs)
        /\ UNCHANGED <<executed, queued, insert>>
    BY <1>4 DEF Relay, taskVars
  <2>2. txs \in SUBSET Txs
    BY <1>4 DEF ExecTypes
  <2>3. /\ BlocksOf(executed) \in Blocks /\ queued \in Blocks /\ toTask \in Blocks
        /\ Inserting(insert) \in Blocks
    BY InOrderTypes
  <2>4. BlocksOf(executed) \o ((Inserting(insert) \o queued) \o Append(toTask, txs)) =
          Append(BlocksOf(executed) \o ((Inserting(insert) \o queued) \o toTask), txs)
    <3>1. PICK a \in Blocks, b \in Blocks, c \in Blocks, d \in Blocks :
             a = BlocksOf(executed) /\ b = Inserting(insert) /\ c = queued /\ d = toTask
      BY <2>3
    <3>2. PICK x \in SUBSET Txs : x = txs
      BY <2>2
    <3>3. /\ <<x>> \in Seq(SUBSET Txs) /\ b \o c \in Seq(SUBSET Txs)
          /\ (b \o c) \o d \in Seq(SUBSET Txs)
          /\ a \o ((b \o c) \o d) \in Seq(SUBSET Txs)
      BY ConcatProperties, SMT DEF Blocks
    <3>4. Append(d, x) = d \o <<x>>
      BY AppendIsConcat DEF Blocks
    <3>5. Append(a \o ((b \o c) \o d), x) = (a \o ((b \o c) \o d)) \o <<x>>
      BY <3>3, AppendIsConcat
    <3>6. (b \o c) \o (d \o <<x>>) = ((b \o c) \o d) \o <<x>>
      BY <3>3, ConcatAssociative, SMT DEF Blocks
    <3>7. a \o (((b \o c) \o d) \o <<x>>) = (a \o ((b \o c) \o d)) \o <<x>>
      BY <3>3, ConcatAssociative, SMT DEF Blocks
    <3>. QED
      BY <3>1, <3>2, <3>4, <3>5, <3>6, <3>7
  <2>. QED
    BY <2>1, <2>4, InOrderDef
<1>5. ASSUME ConsumerEnds PROVE BlocksInOrder'
  BY <1>5, InOrderKept DEF ConsumerEnds, taskVars, channels
<1>6. ASSUME UNCHANGED execVars PROVE BlocksInOrder'
  BY <1>6, InOrderKept DEF execVars, taskVars, channels
<1>. QED
  BY ExecCases, <1>1, <1>2, <1>3, <1>4, <1>5, <1>6

\* At the start no block has been relayed.
LEMMA InOrderInit == ExecInit => BlocksInOrder
<1>. SUFFICES ASSUME ExecInit PROVE BlocksInOrder
  OBVIOUS
<1>1. executed = <<>> /\ queued = <<>> /\ toTask = <<>> /\ sent = <<>>
      /\ insert.stage = "none"
  BY NoInsertType DEF ExecInit, ChannelsInit, TaskInit
<1>2. BlocksOf(executed) = <<>> /\ Inserting(insert) = <<>>
  BY <1>1, SMT DEF BlocksOf, Inserting
<1>3. <<>> \o <<>> = <<>>
  BY SMT
<1>. QED
  BY <1>1, <1>2, <1>3, InOrderDef

\* Every relayed block is executed exactly once and in the order in which it was
\* finalized, at whichever of its waits poll returns.
THEOREM BlocksStayInOrder == ExecSpec => []BlocksInOrder
<1>. QED
  BY InOrderInit, ExecTypesInit, ExecTypesNext, InOrderNext, PTL DEF ExecSpec

-----------------------------------------------------------------------------
(* No wake-up is lost.  The task may find the channel empty and only later  *)
(* park, so the promise of the channel has to hold from then on.            *)

Promised ==
    /\ taskPc = "parked" => insert.stage \in {"none", "lock", "await"}
    /\ taskPc = "parked" /\ insert.stage = "none" => queued = <<>>
    /\ Running("task") /\ ~woken =>
         /\ taskPc \in {"insert", "parked"} /\ insert.stage = "none" /\ queued = <<>> =>
              toTask = <<>> /\ Running("consumer") /\ "channel" \in wakers
         /\ taskPc = "parked" /\ insert.stage = "lock" =>
              lock # "free" /\ "lock" \in wakers
         /\ taskPc = "parked" /\ insert.stage = "await" =>
              reply = {} /\ Running("engine") /\ "engine" \in wakers

\* The task parks only where someone will wake it.
LEMMA PromisedTask ==
    ASSUME ExecTypes, Promised, TaskNext
    PROVE  Promised'
<1>. USE DEF Promised, Running
<1>1. CASE Poll
  BY <1>1 DEF Poll
<1>2. CASE ReceiveBlock
  <2>1. /\ Running("task") /\ taskPc = "recv"
        /\ UNCHANGED <<insert, woken>>
    BY <1>2 DEF ReceiveBlock
  <2>2. CASE /\ toTask # <<>> /\ queued' = Append(queued, Head(toTask))
             /\ taskPc' = "insert"
    <3>1. queued' # <<>>
      <4>1. queued \in Blocks /\ toTask \in Blocks
        BY InOrderTypes
      <4>2. Head(toTask) \in SUBSET Txs
        BY <2>2, <4>1, HeadThenTail
      <4>3. Append(queued, Head(toTask)) # <<>>
        BY <4>1, <4>2, AppendProperties, SMT DEF Blocks
      <4>. QED
        BY <2>2, <4>3
    <3>. QED
      BY <2>2, <3>1
  <2>3. CASE /\ toTask = <<>> /\ Running("consumer")
             /\ wakers' = wakers \cup {"channel"}
             /\ taskPc' = "insert"
             /\ UNCHANGED <<status, queued, toTask>>
    BY <2>3
  <2>4. CASE Ends("task", "no sender") /\ UNCHANGED taskPc
    BY <2>1, <2>4 DEF Ends, ExecTypes, ChannelsTypeOK
  <2>. QED
    BY <1>2, <2>2, <2>3, <2>4, ReceiveCases
<1>3. CASE NothingToInsert
  BY <1>3 DEF NothingToInsert, At, Park, channels
<1>4. CASE StartInsert
  <2>1. /\ queued # <<>> /\ taskPc = "insert" /\ UNCHANGED <<taskPc, woken>>
        /\ insert' = [NoInsert EXCEPT !.stage = "lock", !.txs = Head(queued),
                                      !.events = pipelineEvents]
    BY <1>4 DEF StartInsert, At
  <2>2. Head(queued) \in SUBSET Txs /\ pipelineEvents \in BOOLEAN
    BY <2>1, SMT DEF ExecTypes, TaskTypeOK
  <2>3. insert'.stage = "lock"
    BY <2>1, <2>2, StartInsertType
  <2>. QED
    BY <2>1, <2>3
<1>5. CASE AcquireLock
  <2>1. taskPc = "insert" /\ insert.stage = "lock"
    BY <1>5 DEF AcquireLock, At
  <2>2. CASE insert' = [insert EXCEPT !.stage = "execute"] /\ UNCHANGED taskPc
    <3>1. insert'.stage = "execute"
      BY <2>2, InsertStage DEF ExecTypes, Stages
    <3>. QED
      BY <2>1, <2>2, <3>1
  <2>3. CASE lock # "free" /\ Park({"lock"}) /\ UNCHANGED <<lock, insert>>
    BY <2>1, <2>3 DEF Park
  <2>. QED
    BY <1>5, <2>2, <2>3 DEF AcquireLock
<1>6. CASE ExecuteOk \/ ClearPool \/ SendForkchoice
  <2>1. taskPc' = "insert"
    BY <1>6 DEF ExecuteOk, ClearPool, SendForkchoice, At
  <2>2. insert'.stage \in {"clear", "send", "await"}
    <3>1. ASSUME ExecuteOk PROVE insert'.stage = "clear"
      <4>1. insert' = [insert EXCEPT !.stage = "clear", !.head = bestHash']
        BY <3>1 DEF ExecuteOk
      <4>. QED
        BY <4>1 DEF ExecTypes, TaskTypeOK
    <3>2. ASSUME SendForkchoice PROVE insert'.stage = "await"
      <4>1. insert' = [insert EXCEPT !.stage = "await"]
        BY <3>2 DEF SendForkchoice
      <4>. QED
        BY <4>1, InsertStage DEF ExecTypes, Stages
    <3>3. ASSUME ClearPool PROVE insert'.stage = "send"
      <4>1. insert' = [insert EXCEPT !.stage = "send"]
        BY <3>3 DEF ClearPool
      <4>. QED
        BY <4>1, InsertStage DEF ExecTypes, Stages
    <3>. QED
      BY <1>6, <3>1, <3>2, <3>3
  <2>. QED
    BY <2>1, <2>2
<1>7. CASE ExecuteErr
  BY <1>7 DEF ExecuteErr, Ready
<1>8. CASE AwaitReply
  <2>1. taskPc = "insert" /\ insert.stage = "await" /\ reply = {}
        /\ UNCHANGED <<insert, reply, woken>>
    BY <1>8 DEF AwaitReply, At, Park, engineVars
  <2>2. CASE Running("engine") /\ Park({"engine"}) /\ UNCHANGED status
    BY <2>1, <2>2 DEF Park
  <2>3. CASE Ends("task", "no engine") /\ UNCHANGED taskPc
    BY <2>1, <2>3 DEF Ends, ExecTypes, ChannelsTypeOK
  <2>. QED
    BY <1>8, <2>2, <2>3 DEF AwaitReply
<1>9. CASE HandleReply
  <2>1. PICK r \in reply : OnReply(r)
    BY <1>9 DEF HandleReply
  <2>2. taskPc = "insert"
    BY <1>9 DEF HandleReply, At
  <2>3. \/ taskPc' = "recv"
        \/ insert' = [insert EXCEPT !.stage = "send"] /\ taskPc' = "insert"
    BY <2>1, <2>2 DEF OnReply, Ready
  <2>4. insert' = [insert EXCEPT !.stage = "send"] => insert'.stage = "send"
    BY InsertStage DEF ExecTypes, Stages
  <2>. QED
    BY <2>3, <2>4
<1>. QED
  BY <1>1, <1>2, <1>3, <1>4, <1>5, <1>6, <1>7, <1>8, <1>9 DEF TaskNext

\* Nobody else takes back a promised wake-up.
LEMMA PromisedNext ==
    ASSUME ExecTypes, Promised, [ExecNext]_execVars
    PROVE  Promised'
<1>. USE DEF Promised, Running
<1>1. ASSUME TaskNext PROVE Promised'
  BY <1>1, PromisedTask
<1>2. ASSUME ForkchoiceUpdated, UNCHANGED taskVars PROVE Promised'
  BY <1>2 DEF ForkchoiceUpdated, Wake, channels, storageVars, taskVars
<1>3. ASSUME StartDownload, UNCHANGED taskVars PROVE Promised'
  BY <1>3 DEF StartDownload, channels, engineVars, taskVars
<1>4. ASSUME ReceiveHeaders \/ FinishDownload, UNCHANGED taskVars PROVE Promised'
  <2>1. /\ woken' = (woken \/ "lock" \in wakers) /\ wakers' = wakers \ {"lock"}
        /\ UNCHANGED <<status, toTask, reply, taskPc, queued, insert>>
    BY <1>4 DEF ReceiveHeaders, FinishDownload, FreeLock, Wake, channels, taskVars
  <2>. QED
    BY <2>1
<1>5. ASSUME EngineEnds, UNCHANGED taskVars PROVE Promised'
  <2>1. /\ woken' = (woken \/ wakers \cap {"engine", "lock"} # {})
        /\ wakers' = wakers \ {"engine", "lock"}
        /\ status' = [status EXCEPT !["engine"] = "stopped"]
        /\ UNCHANGED <<toTask, reply, taskPc, queued, insert>>
    BY <1>5 DEF EngineEnds, Ends, channels, taskVars
  <2>2. status'["task"] = status["task"] /\ status'["consumer"] = status["consumer"]
    BY <2>1, SMT DEF ExecTypes, ChannelsTypeOK
  <2>. QED
    BY <2>1, <2>2
<1>6. ASSUME NEW t, Submit(t) PROVE Promised'
  BY <1>6 DEF Submit, storageVars, engineVars, taskVars
<1>7. ASSUME NEW txs, Relay(txs) PROVE Promised'
  BY <1>7 DEF Relay, Wake, storageVars, engineVars, taskVars
<1>8. ASSUME ConsumerEnds PROVE Promised'
  <2>1. /\ woken' = (woken \/ "channel" \in wakers) /\ wakers' = wakers \ {"channel"}
        /\ status' = [status EXCEPT !["consumer"] = "stopped"]
        /\ UNCHANGED <<toTask, reply, lock, taskPc, queued, insert>>
    BY <1>8 DEF ConsumerEnds, Ends, Wake, channels, storageVars, engineVars, taskVars
  <2>2. status'["task"] = status["task"] /\ status'["engine"] = status["engine"]
    BY <2>1, SMT DEF ExecTypes, ChannelsTypeOK
  <2>. QED
    BY <2>1, <2>2
<1>9. ASSUME UNCHANGED execVars PROVE Promised'
  BY <1>9 DEF execVars, channels, storageVars, engineVars, taskVars
<1>. QED
  BY ExecCases, <1>1, <1>2, <1>3, <1>4, <1>5, <1>6, <1>7, <1>8, <1>9
     DEF EngineNext, Downloads

\* A poll that returns Pending has registered the waker with whatever can let the
\* task go on, and no step of another thread in between takes that away.
THEOREM WakeupsArrive == ExecSpec => []NoLostWakeup
<1>1. ExecInit => Promised
  BY DEF ExecInit, TaskInit, Promised
<1>2. Promised => NoLostWakeup
  BY DEF Promised, NoLostWakeup
<1>. QED
  BY <1>1, <1>2, ExecTypesInit, ExecTypesNext, PromisedNext, PTL DEF ExecSpec
=============================================================================
