---------------------------- MODULE FinalizedLog ----------------------------
(***************************************************************************)
(* What the consensus layer does, as seen from the pool, the execution     *)
(* task and the executor: blocks are built from the pool, decided one      *)
(* after the other in the order in which they were built, and relayed in   *)
(* that order and only once they are decided, none left out, none repeated *)
(* and none altered; and each thread ends only for the reasons named here. *)
(***************************************************************************)
EXTENDS Naturals, Sequences

VARIABLES
    status,     \* how each thread is doing
    pool,       \* the transaction pool, which others change
    built,      \* the blocks built
    decided,    \* how many of them the proposer has decided
    blocks      \* the blocks relayed

history == <<built, decided, blocks>>
logVars == <<status, history>>

Running(t) == status[t] = "running"
Ends(t, s) == Running(t) /\ status' = [status EXCEPT ![t] = s] /\ UNCHANGED history

Init ==
    /\ Running("builder") /\ Running("simulator") /\ Running("consumer")
    /\ built = <<>> /\ decided = 0 /\ blocks = <<>>

Build ==
    /\ Running("builder")
    /\ built' = Append(built, [id |-> Len(built), txs |-> pool])
    /\ UNCHANGED <<status, decided, blocks>>

BuilderPanics == ~Running("simulator") /\ Ends("builder", "no simulator")

Decide ==
    /\ Running("simulator") /\ Running("consumer")
    /\ decided < Len(built)
    /\ decided' = decided + 1
    /\ UNCHANGED <<status, built, blocks>>

\* The proposer asks for the next value before it has been sent: of the blocks
\* built at most one is not decided, and that one still with the builder.
SimulatorStarves == Len(built) <= decided + 1 /\ Ends("simulator", "no value")

SimulatorPanics == ~Running("consumer") /\ Ends("simulator", "no consumer")

Relay ==
    /\ Running("consumer") /\ Running("task")
    /\ Len(blocks) < decided
    /\ blocks' = Append(blocks, built[Len(blocks) + 1])
    /\ UNCHANGED <<status, built, decided>>

ConsumerPanics ==
    /\ Len(blocks) < decided /\ ~Running("task")
    /\ Ends("consumer", "no task")

\* The consumer returns once the simulator is gone and everything is relayed.
ConsumerStops ==
    /\ Len(blocks) = decided /\ ~Running("simulator")
    /\ Ends("consumer", "stopped")

\* The other threads do what they like, and the executor may drop the consumer.
Environment ==
    /\ status'["builder"] = status["builder"]
    /\ status'["simulator"] = status["simulator"]
    /\ \/ status'["consumer"] = status["consumer"]
       \/ Running("consumer") /\ status'["consumer"] = "cancelled"
    /\ UNCHANGED history

Next ==
    \/ Build \/ BuilderPanics
    \/ Decide \/ SimulatorStarves \/ SimulatorPanics
    \/ Relay \/ ConsumerPanics \/ ConsumerStops
    \/ Environment

Spec == Init /\ [][Next]_logVars
=============================================================================
