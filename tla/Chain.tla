------------------------------- MODULE Chain --------------------------------
(***************************************************************************)
(* The consensus layer: the block builder, the simulator with its peers    *)
(* and the consumer, each a thread of its own.  The execution task, the    *)
(* clients of the pool and the executor are the environment: the pool      *)
(* changes, the task ends and the consumer is cancelled at any time.       *)
(***************************************************************************)
EXTENDS BlockBuilder, Simulator, Consumer

chainVars == <<status, channels, builderVars, simVars, consumerVars>>

ChainInit ==
    /\ ChannelsInit
    /\ BuilderInit
    /\ SimInit
    /\ ConsumerInit

Builder == BuilderNext /\ UNCHANGED <<simVars, consumerVars>>
Simulate == SimNext /\ UNCHANGED <<builderVars, consumerVars>>
Consuming == ConsumerNext /\ UNCHANGED <<builderVars, simVars>>

\* Transactions are submitted, executed and removed.
PoolChanges ==
    /\ pool' \in SUBSET Txs \ {pool}
    /\ UNCHANGED <<status, proposals, decisionSteps, toTask,
                   builderVars, simVars, consumerVars>>

\* The execution task panics, or is dropped by a launch that fails after the
\* chain has been spawned.
TaskEnds ==
    /\ Running("task")
    /\ Ends("task", "stopped")
    /\ UNCHANGED <<channels, builderVars, simVars, consumerVars>>

\* The executor drops the consumer, which it does at shutdown.
ConsumerCancelled ==
    /\ Running("consumer")
    /\ Ends("consumer", "cancelled")
    /\ UNCHANGED <<channels, builderVars, simVars, consumerVars>>

ChainNext ==
    Builder \/ Simulate \/ Consuming \/ PoolChanges \/ TaskEnds \/ ConsumerCancelled

ChainSpec == ChainInit /\ [][ChainNext]_chainVars

\* The operating system runs each thread; nothing is assumed of the environment.
ChainFairSpec ==
    /\ ChainSpec
    /\ WF_chainVars(Builder)
    /\ WF_chainVars(Simulate)
    /\ WF_chainVars(Consuming)

-----------------------------------------------------------------------------
(* Properties *)

\* Every variable of the consensus layer has its type.
ChainTypeOK ==
    /\ ChannelsTypeOK
    /\ BuilderTypeOK
    /\ SimTypeOK
    /\ ConsumerTypeOK

\* No peer leaves round 0, although handle_schedule_timeout ignores the timeouts
\* that would make progress otherwise: "The app will never go into round > 0"
\* (application.rs, GetVoteSet and SendVoteSetResponse).
RoundZero == \A p \in Peers : states[p].step # "newround"

\* Every peer decides the values in the order the builder made them, the value
\* with identifier h at height h, and hence all peers agree; the assertion of the
\* test basic_proposal_decisions, for every interleaving with the builder.
DecidedInOrder ==
    \A p \in Peers : \A i \in DOMAIN log[p] : log[p][i] = i - 1

\* A decision that reaches the consumer finds its height among the decisions, or
\* an announcement of the proposal ahead of it in the channel.
ProposedBefore(j) ==
    \/ decisionSteps[j].height \in DOMAIN decisions
    \/ \E i \in 1..j-1 : /\ decisionSteps[i].step = "Proposed"
                         /\ decisionSteps[i].height = decisionSteps[j].height
ProposedBeforeFinalized ==
    \A j \in DOMAIN decisionSteps :
        decisionSteps[j].step = "Finalized" => ProposedBefore(j)

\* While the simulator runs, the announcement of a height's proposal has been sent
\* before any envelope, vote or decision of that height can be acted upon: only
\* the peer whose input is being processed may have the proposal, and may have
\* voted for it, while the announcement is still among its effects.
Announced(h) ==
    \/ h \in DOMAIN decisions
    \/ \E i \in DOMAIN decisionSteps : /\ decisionSteps[i].step = "Proposed"
                                       /\ decisionSteps[i].height = h
Pending(h) ==
    \E e \in effects : /\ e.effect = "Publish" /\ e.msg.type = "Proposal"
                       /\ e.msg.height = h
Known(h, q) == Announced(h) \/ (Pending(h) /\ q = current)
VoteAnnounced(m) == m.type = "Vote" => m.id < 0 \/ Known(m.height, m.voter)
MessageAnnounced(m) ==
    /\ m.type \in {"Proposal", "ProposedValue"} => Announced(m.height)
    /\ VoteAnnounced(m)
StateAnnounced(p, st) ==
    /\ st.proposal # {} => Known(st.height, p)
    /\ st.step = "commit" => Announced(st.height)
    /\ \A q \in Peers :
          st.prevotes[q] >= 0 \/ st.precommits[q] >= 0 => Known(st.height, q)
EffectAnnounced(e) ==
    /\ e.effect = "Publish" => VoteAnnounced(e.msg)
    /\ e.effect = "Decide" => Announced(e.height)
AnnouncedFirst ==
    Running("simulator") =>
        /\ \A i \in DOMAIN network : MessageAnnounced(network[i].payload)
        /\ \A p \in Peers : StateAnnounced(p, states[p])
        /\ \A e \in effects : EffectAnnounced(e)

\* The unwrap in MalachiteChainConsumer::run never panics.
ConsumerFindsProposal == status["consumer"] # "no proposal"

\* What the consumer relays is, height after height from 0 on, the value that
\* was finalized, although it is looked up by height and not by identifier.
RelayedIsFinalized ==
    \A i \in DOMAIN relayed :
        /\ relayed[i].height = i - 1
        /\ relayed[i].value.id = relayed[i].id

\* Simulator::step never waits on an empty network: the simulator is the only
\* sender, so that it would wait for ever.
NetworkNeverDry ==
    Running("simulator") /\ effects = {} => network # <<>>

\* A peer receives no message of a height that it has not started: nothing
\* depends on the library holding back early inputs.
NothingArrivesEarly ==
    Running("simulator") /\ effects = {} /\ network # <<>> =>
        LET m == Head(network).payload
            st == states[Head(network).destination]
        IN m.type \in {"Propose", "Proposal", "ProposedValue", "Vote"} =>
              st.step # "unstarted" /\ m.height <= st.height

\* No peer falls behind: a peer enters a height only when every other peer has
\* decided the one before.  So none ever has to be brought up to date, which
\* handle_effect has no arms for (certificates, vote sets, restreamed values).
NobodyFallsBehind ==
    Running("simulator") =>
        \A p, q \in Peers : states[p].height > states[q].height =>
            states[q].step = "decided" /\ states[p].height = states[q].height + 1

\* The library returns no error: the `expect` of step_with_envelope holds.
NoProcessError == status["simulator"] # "process error"

\* The bounded channel holds the builder back: it is never more than one value
\* in the channel and one in consensus ahead of the proposer's decisions.
Backpressure ==
    valueCounter <= Len(log[SelectProposer]) + 1 + ProposalsCapacity

\* "If no value is available, the application blocks waiting" (application.rs,
\* handle_get_value): the want of a value does not end the simulator.
WaitsForValue == status["simulator"] # "no value"

\* The consensus layer implements the log of finalized blocks: what is relayed at
\* height h is the h-th snapshot of the pool, with the very transactions.
Ledger == INSTANCE FinalizedLog
              WITH decided <- Len(log[SelectProposer]),
                   blocks <- [i \in DOMAIN relayed |-> relayed[i].value]
ImplementsFinalizedLog == Ledger!Spec

\* Whatever the proposer has decided is relayed while there is a task to relay it
\* to, even when the simulator panics in the meantime, unless the consumer is
\* cancelled.
FinalizedIsRelayed ==
    \A k \in 1..MaxHeight+1 :
        Len(log[SelectProposer]) >= k ~>
            \/ Len(relayed) >= k
            \/ ~Running("task")
            \/ status["consumer"] = "cancelled"

\* Consensus goes on through all heights up to the bound unless the builder is
\* late with a value, the task ends or the consumer is cancelled.
EveryHeightRelayed ==
    <>(\/ Len(relayed) = MaxHeight + 1
       \/ status["simulator"] = "no value"
       \/ ~Running("task")
       \/ status["consumer"] = "cancelled")

\* When the simulator panics, the builder and the consumer end too.
SimulatorEndsAll ==
    ~Running("simulator") ~> ~Running("builder") /\ ~Running("consumer")

\* The chain and the builder do not hear of a shutdown and never yield: what ends
\* them is the end of the task, which the consumer finds out at its next relay,
\* the simulator at its next send and the builder through it.  Within the bound
\* there has to be a height left whose decision brings it about.
EndSpreadsUpstream ==
    /\ ~Running("task") /\ Len(log[SelectProposer]) <= MaxHeight ~>
           ~Running("consumer")
    /\ ~Running("consumer") /\ Len(log[SelectProposer]) <= MaxHeight ~>
           ~Running("simulator") /\ ~Running("builder")
=============================================================================
