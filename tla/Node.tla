-------------------------------- MODULE Node --------------------------------
(***************************************************************************)
(* The whole node: the launcher and main, the execution layer in full, and *)
(* the consensus layer at the level of FinalizedLog, which module Chain    *)
(* implements.  The pool that the builder reads is the one from which the  *)
(* task removes what it has executed.                                      *)
(***************************************************************************)
EXTENDS Launcher

CONSTANTS
    MaxLag,     \* bound: how many blocks are built and not yet executed
    Faults      \* which failures happen: of the launch, of the builder to be in
                \* time, of an execution for a reason of its own, of the engine

ASSUME NodeAssumption ==
    /\ MaxLag \in Nat \ {0}
    /\ Faults \subseteq {"launch", "value", "execution", "engine"}

VARIABLES
    built,      \* the blocks built, as in FinalizedLog
    decided,    \* how many of them are decided
    seen,       \* history: for each block, how many blocks had left the pool
                \* when it was built
    gaveUp      \* history: the blocks whose execution failed although they were
                \* executable

consensusVars == <<built, decided, seen>>
nodeVars == <<execVars, launchVars, consensusVars, gaveUp>>

\* The actions of the consensus layer are those of its specification.
Log == INSTANCE FinalizedLog
           WITH blocks <- [i \in DOMAIN sent |-> [id |-> i - 1, txs |-> sent[i]]]

NodeInit ==
    /\ ExecInit
    /\ LaunchInit
    /\ built = <<>> /\ decided = 0 /\ seen = <<>>
    /\ gaveUp = {}

\* One step of the launch or of main.
Launch ==
    /\ LaunchNext
    /\ UNCHANGED <<consensusVars, gaveUp>>
LaunchFails ==
    /\ "launch" \in Faults
    /\ Fails
    /\ UNCHANGED <<consensusVars, gaveUp>>

Clients == SubmitOther /\ UNCHANGED <<consensusVars, gaveUp>>

-----------------------------------------------------------------------------
(* The threads of the consensus layer. *)

Up(t) == t \in spawned /\ Running(t)

\* The blocks that are executed and whose transactions have left the pool, or stay
\* there because the block was rejected.
Done == IF insert.stage = "clear" THEN Len(executed) - 1 ELSE Len(executed)

BuildBlock ==
    /\ Up("builder")
    /\ Len(built) < MaxBlocks /\ Len(built) < Done + MaxLag
    /\ UNCHANGED <<execVars, launchVars, decided, gaveUp>>
    /\ Log!Build
    /\ seen' = Append(seen, Done)

\* What the end of a thread of this layer leaves alone.
Elsewhere ==
    UNCHANGED <<channels, storageVars, engineVars, wakers, woken, taskVars, submitted,
                sent, launchVars, consensusVars, gaveUp>>

BuilderPanics == Up("builder") /\ Elsewhere /\ Log!BuilderPanics

\* Mutant: a height is decided without a block.
DecideBlock_WithoutBlock ==
    /\ Up("simulator")
    /\ Running("consumer")
    /\ decided < MaxBlocks
    /\ decided' = decided + 1
    /\ UNCHANGED <<execVars, launchVars, built, seen, gaveUp>>
DecideBlock ==
    /\ Up("simulator")
    /\ UNCHANGED <<execVars, launchVars, seen, gaveUp>>
    /\ Log!Decide

SimulatorStarves ==
    /\ "value" \in Faults
    /\ Up("simulator")
    /\ Elsewhere
    /\ Log!SimulatorStarves

\* Mutant: the failed send is ignored.
SimulatorPanics_Never == FALSE /\ UNCHANGED nodeVars
SimulatorPanics == Up("simulator") /\ Elsewhere /\ Log!SimulatorPanics

RelayBlock ==
    /\ Up("consumer")
    /\ UNCHANGED <<launchVars, consensusVars, gaveUp>>
    /\ \E txs \in SUBSET Txs : Relay(txs) /\ Log!Relay

ConsumerPanics == Up("consumer") /\ Elsewhere /\ Log!ConsumerPanics

ConsumerStops ==
    /\ Up("consumer")
    /\ UNCHANGED <<launchVars, consensusVars, gaveUp>>
    /\ ConsumerEnds /\ Log!ConsumerStops

BuilderRuns == BuildBlock \/ BuilderPanics
SimulatorRuns == DecideBlock \/ SimulatorPanics
ConsumerRuns == RelayBlock \/ ConsumerPanics \/ ConsumerStops

-----------------------------------------------------------------------------
(* The execution layer, where the executor lets it run. *)

FailsToExecute ==
    /\ Len(executed') > Len(executed)
    /\ ~executed'[Len(executed')].ok
    /\ Executable(insert.txs, StateAfter(latest))

TaskRuns ==
    /\ Up("task")
    /\ WorkerFree
    /\ Tasking
    /\ FailsToExecute => "execution" \in Faults
    /\ gaveUp' = gaveUp \cup {i \in {Len(executed) + 1} : FailsToExecute}
    /\ UNCHANGED <<launchVars, consensusVars>>

Engines(step) ==
    /\ Up("engine")
    /\ step
    /\ UNCHANGED <<taskVars, submitted, sent>>
    /\ Notify
    /\ UNCHANGED <<stage, spawned, consensusVars, gaveUp>>
EngineRuns == Engines(ForkchoiceUpdated) \/ Engines(Downloads)

EnginePanics ==
    /\ "engine" \in Faults
    /\ Up("engine")
    /\ EngineEnds
    /\ UNCHANGED <<taskVars, submitted, sent, launchVars, consensusVars, gaveUp>>

Cancels ==
    /\ CancelConsumer \/ CancelTask \/ CancelEngine
    /\ UNCHANGED <<consensusVars, gaveUp>>

NodeNext ==
    \/ Launch \/ LaunchFails \/ Clients
    \/ BuilderRuns \/ SimulatorRuns \/ SimulatorStarves \/ ConsumerRuns
    \/ TaskRuns \/ EngineRuns \/ EnginePanics
    \/ Cancels

NodeSpec == NodeInit /\ [][NodeNext]_nodeVars

\* The operating system runs the threads, the executor polls a woken task when a
\* worker is free and drops what waits at shutdown.  No failure is forced, nor
\* that other clients submit anything.
NodeFairSpec ==
    /\ NodeSpec
    /\ WF_nodeVars(Launch)
    /\ WF_nodeVars(BuilderRuns)
    /\ WF_nodeVars(SimulatorRuns)
    /\ WF_nodeVars(ConsumerRuns)
    /\ WF_nodeVars(TaskRuns)
    /\ WF_nodeVars(Engines(ForkchoiceUpdated))
    /\ WF_nodeVars(Engines(Downloads))
    /\ WF_nodeVars(Cancels)

-----------------------------------------------------------------------------
(* Properties *)

\* Every variable of the launcher and of the composition has its type.
NodeTypeOK ==
    /\ ExecTypeOK
    /\ stage \in Fallible \cup {"chain", "consumer", "spawn", "subscribe", "watch",
                             "returned"}
    /\ spawned \in SUBSET Threads
    /\ notices \in Seq(Hashes)
    /\ built \in Seq(Values) /\ decided \in 0..Len(built)
    /\ seen \in Seq(Nat)
    /\ gaveUp \subseteq DOMAIN executed

\* Across both layers, and however the launch goes: what is executed is what was
\* built, in the order in which it was built, and only after it was decided.
ExecutedAsBuilt ==
    \A i \in DOMAIN executed : i <= decided /\ executed[i].txs = built[i].txs

\* The builder's snapshot may be stale: blocks that were built before it may be
\* executed, or be on their way out of the pool, when it is taken.  A block that is
\* not executed holds a transaction that one of those blocks has executed, or
\* needs more gas than a block has, or has failed for a reason of its own.
OnlyStaleIsRejected ==
    errors = 0 =>
        \A i \in DOMAIN executed :
            \/ executed[i].ok
            \/ i \in gaveUp
            \/ executed[i].txs \in Oversized
            \/ \E j \in seen[i]+1..i-1 :
                  executed[j].ok /\ executed[j].txs \cap executed[i].txs # {}

\* main is notified of the block with its own transaction, however soon after the
\* submission it becomes canonical, unless the engine has refused an update.
MainSeesItsTransaction ==
    Subscribed /\ errors = 0 /\ MainTx \in StateAfter(latest) =>
        \E i \in DOMAIN notices : MainTx \in notices[i][Len(notices[i])]

AllUp == \A t \in Threads : Running(t)

\* The pool needs more gas than a block has, and no block under way will shrink it.
Overfull ==
    /\ pool \in Oversized
    /\ \A i \in Done+1..Len(built) :
          built[i].txs \in Oversized \/ built[i].txs \cap pool = {}

\* A transaction in the pool becomes canonical, although the blocks with it may be
\* rejected for stale transactions: the task never waits for a worker for ever, and
\* what a rejected block holds is built again.  The exceptions: a thread ends, the
\* engine refuses an update, an execution fails for a reason of its own, or the
\* pool needs more gas than a block has and stays so, since the builder always
\* packs all of it.  Within the bounds MaxLag blocks have to be left to build.
SubmittedBecomesCanonical ==
    \A t \in Txs :
        t \in submitted /\ Len(built) + MaxLag <= MaxBlocks ~>
            \/ t \in StateAfter(canonicalHead)
            \/ errors > 0 \/ gaveUp # {} \/ ~AllUp
            \/ Overfull

\* When main returns because a step of the launch or the submission has failed, the
\* process ends: no thread goes on for ever, although chain and builder run on
\* threads that cannot be cancelled.
ShutdownCompletes == stage = "returned" ~> \A t \in Threads : ~Running(t)
=============================================================================
