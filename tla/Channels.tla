------------------------------ MODULE Channels ------------------------------
(***************************************************************************)
(* The threads of the node and the channels between them, as               *)
(* MalachiteChainBuilder::build and MalachiteChain::poll create them:      *)
(*                                                                         *)
(*   pool -> builder -proposals-> simulator -decisionSteps-> consumer      *)
(*                                              -toTask-> task             *)
(*                                                                         *)
(* A thread that panics or returns drops its ends of the channels.  A send *)
(* fails once the receiving thread is gone; a receiver drains what is left *)
(* and then learns that the sending thread is gone.                        *)
(***************************************************************************)
EXTENDS Malachite, Sequences

VARIABLES
    status,         \* how each thread is doing
    pool,           \* the transaction pool
    proposals,      \* block builder to application, the bounded channel
    decisionSteps,  \* application to consumer, unbounded
    toTask          \* consumer to execution task, unbounded

channels == <<pool, proposals, decisionSteps, toTask>>

Threads == {"builder", "simulator", "consumer", "task", "engine"}

\* "stopped" is a return, "cancelled" the end of a future that the executor drops
\* at shutdown; the other ends are panics, named after the call that panics.
Panics == {"no value", "process error", "no consumer", "no simulator",
           "no proposal", "no task", "no sender", "no engine"}
Statuses == {"running", "stopped", "cancelled"} \cup Panics

Running(t) == status[t] = "running"
Ends(t, s) == status' = [status EXCEPT ![t] = s]

\* cbc::bounded(1) of Simulator::new.
ProposalsCapacity == 1

\* What the application tells the consumer (decision.rs).
Proposed(h, v) == [step |-> "Proposed", height |-> h, value |-> v]
Finalized(p, h, id) == [step |-> "Finalized", peer |-> p, height |-> h, id |-> id]
DecisionSteps ==
         [step : {"Proposed"}, height : Nat, value : Values]
    \cup [step : {"Finalized"}, peer : Peers, height : Nat, id : Int]

ChannelsInit ==
    /\ status = [t \in Threads |-> "running"]
    /\ pool = {}
    /\ proposals = <<>>
    /\ decisionSteps = <<>>
    /\ toTask = <<>>

ChannelsTypeOK ==
    /\ status \in [Threads -> Statuses]
    /\ pool \in SUBSET Txs
    /\ proposals \in Seq(Values)
    /\ decisionSteps \in Seq(DecisionSteps)
    /\ toTask \in Seq(SUBSET Txs)
=============================================================================
