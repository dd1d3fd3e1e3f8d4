------------------------------ MODULE Launcher ------------------------------
(***************************************************************************)
(* The program around the layers: main, and launch_node of the launcher in *)
(* its development mode, which main always asks for.                       *)
(*                                                                         *)
(* launch_node builds all threads and their channels at once and hands     *)
(* them to the executor one after the other, with steps that may fail in   *)
(* between.  A thread that is built and not yet spawned holds its ends of  *)
(* the channels and does not run.  A step that fails returns from main:    *)
(* what has not been spawned is dropped, and the executor shuts down.      *)
(***************************************************************************)
EXTENDS Execution

CONSTANTS
    MainTx,     \* the transaction that main submits
    Workers     \* the worker threads of the tokio runtime

ASSUME LauncherAssumption == MainTx \in Txs /\ Workers \in Nat \ {0}

VARIABLES
    stage,      \* how far launch_node, and after it main, have got
    spawned,    \* the threads that the executor has been given
    notices     \* history: the canonical tips that main has been notified of

launchVars == <<stage, spawned, notices>>

LaunchInit ==
    /\ stage = "setup"
    /\ spawned = {}
    /\ notices = <<>>

GoesOn(from, to, threads) ==
    /\ stage = from
    /\ stage' = to
    /\ spawned' = spawned \cup threads
    /\ UNCHANGED <<notices, execVars>>

\* Everything before the threads are built: configuration, database, genesis,
\* components, network client.
SetUp == GoesOn("setup", "chain", {})

\* The first poll of the chain spawns the builder.
SpawnChain == GoesOn("chain", "consumer", {"simulator", "builder"})

SpawnConsumer == GoesOn("consumer", "pipeline", {"consumer"})

\* The pipeline is built, its events are given to the task, and the task spawned.
SpawnTask == GoesOn("pipeline", "engine", {"task"})

ConfigureEngine == GoesOn("engine", "rpc", {})

\* From here on other clients submit transactions, and the task may be executing
\* them before there is an engine.
LaunchRpc == GoesOn("rpc", "spawn", {})

\* Updates that the task has sent until now have waited in the engine's channel.
SpawnEngine == GoesOn("spawn", "clients", {"engine"})

\* The optional debug clients and the hook on_node_started.
NodeStarted == GoesOn("clients", "subscribe", {})

\* main subscribes to the canonical state before it submits.
Subscribe == GoesOn("subscribe", "submit", {})

\* Mutant: the transaction is submitted before the subscription.
SubmitMainTx_First ==
    /\ stage = "subscribe"
    /\ Submit(MainTx)
    /\ UNCHANGED launchVars
SubmitMainTx ==
    /\ stage = "submit"
    /\ Submit(MainTx)
    /\ stage' = "watch"
    /\ UNCHANGED <<spawned, notices>>

\* The stages with a `?`: in launch_node, and in main after it.
FallibleLaunch == {"setup", "pipeline", "engine", "rpc", "clients"}
FallibleMain == {"submit"}
Fallible == FallibleLaunch \cup FallibleMain

\* A `?` returns the error, from launch_node and then from main.  Dropping the
\* engine drops the updates sent to it, and with them the oneshot sender that the
\* task may be waiting for.
Fails ==
    /\ stage \in Fallible
    /\ stage' = "returned"
    /\ status' = [t \in Threads |-> IF t \in spawned THEN status[t] ELSE "stopped"]
    /\ IF "engine" \in spawned THEN UNCHANGED <<fcu, wakers, woken>>
       ELSE fcu' = {} /\ Wake("engine")
    /\ UNCHANGED <<spawned, notices, channels, storageVars, reply, target, fetched,
                   imported, badBlocks, latest, errors, taskVars, submitted, sent>>

LaunchNext ==
    \/ SetUp \/ SpawnChain \/ SpawnConsumer \/ SpawnTask \/ ConfigureEngine
    \/ LaunchRpc \/ SpawnEngine \/ NodeStarted \/ Subscribe \/ SubmitMainTx

\* Other clients reach the pool through the RPC servers.
RpcUp == stage \in {"spawn", "clients", "subscribe", "submit", "watch"}
SubmitOther ==
    /\ RpcUp
    /\ \E t \in Txs \ {MainTx} : Submit(t)
    /\ UNCHANGED launchVars

\* canonical_state_stream: one notification for each change of the canonical
\* chain, to those who have subscribed.
Subscribed == stage \in {"submit", "watch"}
Notify ==
    notices' = IF Subscribed /\ latest' # latest THEN Append(notices, latest') ELSE notices

-----------------------------------------------------------------------------
(* Where the threads run, and how they end at shutdown. *)

\* The builder is spawned with tokio::spawn and never yields: the send on its
\* channel blocks the worker thread it runs on.  Chain, consumer and engine have
\* threads of their own.  Mutant: the chain is spawned as an ordinary task.
HoldsWorker_Chain == {"builder", "simulator"}
HoldsWorker == {"builder"}

WorkerFree ==
    Cardinality({t \in HoldsWorker \cap spawned : Running(t)}) < Workers

\* The executor drops a future that is waiting; the builder and the chain never
\* wait for it.
CancelConsumer ==
    /\ stage = "returned"
    /\ Running("consumer")
    /\ Ends("consumer", "cancelled")
    /\ Wake("channel")
    /\ UNCHANGED <<launchVars, channels, storageVars, engineVars, taskVars,
                   submitted, sent>>

CancelTask ==
    /\ stage = "returned"
    /\ Running("task") /\ taskPc = "parked"
    /\ Ends("task", "cancelled")
    /\ UNCHANGED <<launchVars, channels, storageVars, engineVars, wakers, woken,
                   taskVars, submitted, sent>>

CancelEngine ==
    /\ stage = "returned"
    /\ EngineEnds
    /\ UNCHANGED <<launchVars, taskVars, submitted, sent>>
=============================================================================
