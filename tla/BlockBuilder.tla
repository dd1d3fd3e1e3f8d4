---------------------------- MODULE BlockBuilder ----------------------------
(***************************************************************************)
(* The block builder that MalachiteChain::poll spawns: it packs the        *)
(* transactions of the pool into a value and hands it to the application   *)
(* through a channel of capacity one.  Between the two the pool may change *)
(* and the builder may wait for room.                                      *)
(***************************************************************************)
EXTENDS Channels

VARIABLES
    valueCounter,   \* value_counter
    staged,         \* the value built and not yet sent, if any
    built           \* history: every value built, in order

builderVars == <<valueCounter, staged, built>>

BuilderInit ==
    /\ valueCounter = 0
    /\ staged = {}
    /\ built = <<>>

CollectTransactions ==
    /\ Running("builder")
    /\ staged = {}
    /\ LET value == [id |-> valueCounter, txs |-> pool] IN
         staged' = {value} /\ built' = Append(built, value)
    /\ UNCHANGED <<status, channels, valueCounter>>

\* Mutants: the counter stays; the channel is unbounded.
SendValue_SameId ==
    /\ Running("builder")
    /\ Running("simulator")
    /\ Len(proposals) < ProposalsCapacity
    /\ \E v \in staged : proposals' = Append(proposals, v)
    /\ staged' = {}
    /\ UNCHANGED <<status, pool, decisionSteps, toTask, valueCounter, built>>
SendValue_Unbounded ==
    /\ Running("builder")
    /\ Running("simulator")
    /\ \E v \in staged : proposals' = Append(proposals, v)
    /\ staged' = {}
    /\ valueCounter' = valueCounter + 1
    /\ UNCHANGED <<status, pool, decisionSteps, toTask, built>>
SendValue ==
    /\ Running("builder")
    /\ Running("simulator")
    /\ Len(proposals) < ProposalsCapacity
    /\ \E v \in staged : proposals' = Append(proposals, v)
    /\ staged' = {}
    /\ valueCounter' = valueCounter + 1
    /\ UNCHANGED <<status, pool, decisionSteps, toTask, built>>

\* `expect` on the send: the receiving end went away with the simulator.
SendFails ==
    /\ Running("builder")
    /\ ~Running("simulator")
    /\ staged # {}
    /\ Ends("builder", "no simulator")
    /\ UNCHANGED <<channels, builderVars>>

BuilderNext == CollectTransactions \/ SendValue \/ SendFails

BuilderTypeOK ==
    /\ valueCounter \in Nat
    /\ staged \in SUBSET Values
    /\ built \in Seq(Values)
=============================================================================
