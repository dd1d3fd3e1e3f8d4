---------------------------- MODULE OrderProofs -----------------------------
(***************************************************************************)
(* Type correctness of the consensus layer, and the order of its           *)
(* decisions, for every number of peers, every set of transactions and     *)
(* every bound on the heights: no peer leaves round 0 or confuses the      *)
(* library, every peer decides value h at height h, and the builder is     *)
(* held back.                                                              *)
(*                                                                         *)
(* The invariant of the order, OrderInv of ChainInvariants, is inductive.  *)
(***************************************************************************)
EXTENDS MalachiteProofs

\* The prover of the steps that name no other; most of them need no arithmetic.
USE Zenon

-----------------------------------------------------------------------------
(* Sequences. *)

\* A sequence is a function on the numbers up to its length.
LEMMA LenProperties ==
    ASSUME NEW S, NEW s \in Seq(S)
    PROVE  Len(s) \in Nat /\ s \in [1..Len(s) -> S] /\ DOMAIN s = 1..Len(s)
BY SMT

\* The elements of a sequence over a set belong to the set.
LEMMA ElementOfSeq ==
    ASSUME NEW S, NEW s \in Seq(S), NEW i \in 1..Len(s)
    PROVE  s[i] \in S
BY SMT

\* The empty sequence is the one without elements.
LEMMA EmptySeq ==
    ASSUME NEW S
    PROVE  /\ <<>> \in Seq(S) /\ Len(<<>>) = 0
           /\ \A s \in Seq(S) : s # <<>> => Len(s) \in Nat \ {0}
BY SMT

\* What appending an element does.
LEMMA AppendProperties ==
    ASSUME NEW S, NEW s \in Seq(S), NEW x \in S
    PROVE  /\ Append(s, x) \in Seq(S) /\ Append(s, x) # <<>>
           /\ Len(Append(s, x)) = Len(s) + 1
           /\ \A i \in 1..Len(s) : Append(s, x)[i] = s[i]
           /\ Append(s, x)[Len(s) + 1] = x
BY SMT

\* What concatenation does.
LEMMA ConcatProperties ==
    ASSUME NEW S, NEW s \in Seq(S), NEW t \in Seq(S)
    PROVE  /\ s \o t \in Seq(S) /\ Len(s \o t) = Len(s) + Len(t)
           /\ \A i \in 1..Len(s) + Len(t) :
                 (s \o t)[i] = IF i <= Len(s) THEN s[i] ELSE t[i - Len(s)]
BY SMT


-----------------------------------------------------------------------------
(* Types. *)

\* An input sent from one peer to another is an envelope.
LEMMA EnvelopeType ==
    ASSUME NEW src \in Peers, NEW dst \in Peers, NEW m \in Inputs
    PROVE  Envelope(src, dst, m) \in Envelopes
BY DEF Envelope, Envelopes

\* The network keeps its type when a peer sends an input to itself.
LEMMA SendToSelfType ==
    ASSUME SimTypeOK, NEW m \in Inputs, SendToSelf(m)
    PROVE  network' \in Seq(Envelopes)
BY EnvelopeType, SMT DEF SimTypeOK, AppTypeOK, SendToSelf

\* What the simulator sends are inputs of the consensus library.
LEMMA InputTypes ==
    /\ \A h \in Nat : StartHeight(h) \in Inputs
    /\ \A h \in Nat, v \in Values : /\ Propose(h, v) \in Inputs
                                    /\ Proposal(h, v) \in Inputs
                                    /\ ProposedValue(h, v) \in Inputs
    /\ \A k \in TimeoutKinds : TimeoutElapsed(k) \in Inputs
    /\ \A m \in ValueInputs \cup Votes : m \in Inputs
<1>1. \A h \in Nat : StartHeight(h) \in Inputs
  BY DEF StartHeight, Inputs
<1>2. \A h \in Nat, v \in Values : /\ Propose(h, v) \in Inputs
                                   /\ Proposal(h, v) \in Inputs
                                   /\ ProposedValue(h, v) \in Inputs
  BY DEF Propose, Proposal, ProposedValue, ValueInputs, Inputs
<1>3. \A k \in TimeoutKinds : TimeoutElapsed(k) \in Inputs
  BY DEF TimeoutElapsed, Inputs
<1>. QED
  BY <1>1, <1>2, <1>3 DEF Inputs

\* The fields of an effect, by kind.
LEMMA EffectFields ==
    ASSUME NEW e \in Effects
    PROVE  /\ e.effect = "ScheduleTimeout" => e.kind \in TimeoutKinds
           /\ e.effect = "GetValue" => e.height \in Nat
           /\ e.effect = "Publish" => e.msg \in ValueInputs \cup Votes
           /\ e.effect = "Decide" => e.height \in Nat /\ e.id \in Int
BY DEF Effects

\* The fields of a published message.
LEMMA MessageFields ==
    ASSUME NEW m \in ValueInputs \cup Votes
    PROVE  /\ m.type # "Vote" => m.height \in Nat /\ m.value \in Values
           /\ m.type = "Vote" => m \in Votes
BY DEF ValueInputs, Votes

\* The peers a vote is broadcast to.
LEMMA OthersType ==
    ASSUME NEW p \in Peers, NEW i \in 1..N-1
    PROVE  Others(p)[i] \in Peers
BY NAssumption, SMT DEF Others, Peers

\* What the simulator sends to the consumer are decision steps.
LEMMA StepTypes ==
    /\ \A h \in Nat, v \in Values : Proposed(h, v) \in DecisionSteps
    /\ \A p \in Peers, h \in Nat, id \in Int : Finalized(p, h, id) \in DecisionSteps
BY DEF Proposed, Finalized, DecisionSteps

\* A thread that panics leaves a well-typed status.
LEMMA EndsType ==
    ASSUME ChannelsTypeOK, NEW t \in Threads, NEW s \in Statuses, Ends(t, s)
    PROVE  status' \in [Threads -> Statuses]
BY DEF ChannelsTypeOK, Ends

\* The state the launcher builds is well typed.
LEMMA TypeInit == ChainInit => TypeInv
<1> SUFFICES ASSUME ChainInit PROVE TypeInv
  OBVIOUS
<1> USE DEF ChainInit
<1>1. ChannelsTypeOK
  BY SMT DEF ChannelsInit, ChannelsTypeOK, Statuses
<1>2. BuilderTypeOK
  BY SMT DEF BuilderInit, BuilderTypeOK
<1>3. ConsumerTypeOK
  BY SMT DEF ConsumerInit, ConsumerTypeOK
<1>4. states \in [Peers -> PeerStates] /\ CommitHasProposal
  <2>1. StateAt(0, "unstarted") \in PeerStates
    BY StateAtType DEF Steps
  <2>2. StateAt(0, "unstarted").step = "unstarted"
    BY DEF StateAt
  <2>. QED
    BY <2>1, <2>2 DEF SimInit, CommitHasProposal
<1>5. AppTypeOK
  <2>1. N \in Nat /\ 0 \in Peers
    BY NAssumption, SMT DEF Peers
  <2>2. \A i \in 1..N : Envelope(i - 1, i - 1, StartHeight(0)) \in Envelopes
    BY <2>1, EnvelopeType, InputTypes, SMT DEF Peers
  <2>3. network \in Seq(Envelopes)
    BY <2>1, <2>2, SMT DEF SimInit, AppInit, InitialEnvelopes
  <2>. QED
    BY <2>1, <2>3, SMT DEF SimInit, AppInit, AppTypeOK
<1>. QED
  BY <1>1, <1>2, <1>3, <1>4, <1>5 DEF TypeInv, ChainTypeOK, SimTypeOK

\* Taking an envelope off the network and processing it.
LEMMA TypeOfStep ==
    ASSUME TypeInv, Step
    PROVE  SimTypeOK' /\ CommitHasProposal' /\ status' \in [Threads -> Statuses]
<1> DEFINE p == Head(network).destination
           m == Head(network).payload
<1>1. network \in Seq(Envelopes) /\ network # <<>> /\ network' = Tail(network)
  BY DEF TypeInv, ChainTypeOK, SimTypeOK, AppTypeOK, Step
<1>2. Head(network) \in Envelopes /\ network' \in Seq(Envelopes)
  BY <1>1, SMT
<1>3. p \in Peers /\ m \in Inputs
  BY <1>2 DEF Envelopes
<1>4. states \in [Peers -> PeerStates] /\ states[p] \in PeerStates
  BY <1>3 DEF TypeInv, ChainTypeOK, SimTypeOK
<1>5. current' = p /\ log' = log /\ log' \in [Peers -> Seq(Int)]
  BY DEF TypeInv, ChainTypeOK, SimTypeOK, AppTypeOK, Step
<1>6. CASE /\ Ends("simulator", "process error")
           /\ UNCHANGED <<states, effects>>
  <2>1. status' \in [Threads -> Statuses]
    BY <1>6, EndsType DEF TypeInv, ChainTypeOK, Threads, Statuses, Panics
  <2>2. effects' \in SUBSET Effects
    BY <1>6 DEF TypeInv, ChainTypeOK, SimTypeOK, AppTypeOK
  <2>3. CommitHasProposal'
    BY <1>6 DEF TypeInv, CommitHasProposal
  <2>. QED
    BY <1>2, <1>3, <1>4, <1>5, <1>6, <2>1, <2>2, <2>3 DEF SimTypeOK, AppTypeOK
<1>7. ASSUME NEW new \in Outcomes(p, states[p], m),
             states' = [states EXCEPT ![p] = new],
             effects' = EffectsOf(p, states[p], m, new),
             UNCHANGED status
      PROVE  SimTypeOK' /\ CommitHasProposal' /\ status' \in [Threads -> Statuses]
  <2>1. /\ new \in PeerStates
        /\ m.type = "StartHeight" => new = StateAt(m.height, "propose")
        /\ m.type # "StartHeight" => InputResult(p, states[p], m, new)
    BY <1>3, <1>4, <1>7, OutcomeFacts
  <2>2. states' \in [Peers -> PeerStates]
    BY <1>3, <1>4, <1>7, <2>1
  <2>3. states[p].step = "commit" => states[p].proposal # {}
    BY <1>3 DEF TypeInv, CommitHasProposal
  <2>4. effects' \in SUBSET Effects
    BY <1>3, <1>4, <1>7, <2>1, <2>3, EffectsType
  <2>5. new.step = "commit" => new.proposal # {}
    <3>1. CASE m.type = "StartHeight"
      BY <2>1, <3>1, SMT DEF StateAt
    <3>2. CASE m.type # "StartHeight"
      <4>1. InputResult(p, states[p], m, new)
        BY <2>1, <3>2
      <4>. QED
        BY <2>3, <4>1 DEF InputResult
    <3>. QED
      BY <3>1, <3>2
  <2>6. CommitHasProposal'
    BY <1>3, <1>4, <1>7, <2>5 DEF TypeInv, CommitHasProposal
  <2>7. status' \in [Threads -> Statuses]
    BY <1>7 DEF TypeInv, ChainTypeOK, ChannelsTypeOK
  <2>. QED
    BY <1>2, <1>3, <1>5, <2>2, <2>4, <2>6, <2>7 DEF SimTypeOK, AppTypeOK
<1>. QED
  BY <1>6, <1>7 DEF Step

\* What the handlers of the effects change, in one place.
LEMMA TypeOfHandler ==
    ASSUME TypeInv, NEW e \in effects,
           \/ HandleScheduleTimeout(e) \/ HandlePublishVote(e)
           \/ HandlePublishProposal(e) \/ HandleDecide(e) \/ HandleGetValue(e)
    PROVE  /\ network' \in Seq(Envelopes) /\ log' \in [Peers -> Seq(Int)]
           /\ status' \in [Threads -> Statuses]
           /\ proposals' \in Seq(Values) /\ decisionSteps' \in Seq(DecisionSteps)
           /\ pool' = pool /\ toTask' = toTask /\ current' = current
           /\ effects' = effects \ {e}
<1>0. /\ network \in Seq(Envelopes) /\ current \in Peers /\ e \in Effects
      /\ log \in [Peers -> Seq(Int)] /\ proposals \in Seq(Values)
      /\ status \in [Threads -> Statuses]
      /\ decisionSteps \in Seq(DecisionSteps) /\ ChannelsTypeOK /\ SimTypeOK
  BY DEF TypeInv, ChainTypeOK, SimTypeOK, AppTypeOK, ChannelsTypeOK
<1>1. N \in Nat
  BY NAssumption, SMT
<1>2. CASE HandleScheduleTimeout(e)
  <2>1. e.kind \in TimeoutKinds
    BY <1>0, <1>2, EffectFields DEF HandleScheduleTimeout
  <2>2. network' \in Seq(Envelopes)
    BY <1>0, <1>2, <2>1, SendToSelfType, InputTypes DEF HandleScheduleTimeout
  <2>. QED
    BY <1>0, <1>2, <2>2 DEF HandleScheduleTimeout, Handling, channels
<1>3. CASE HandlePublishVote(e)
  <2>1. e.msg \in Inputs
    BY <1>0, <1>3, EffectFields, InputTypes DEF HandlePublishVote
  <2>2. \A i \in 1..N-1 : Envelope(current, Others(current)[i], e.msg) \in Envelopes
    BY <1>0, <2>1, OthersType, EnvelopeType
  <2>3. [i \in 1..N-1 |-> Envelope(current, Others(current)[i], e.msg)]
            \in Seq(Envelopes)
    BY <1>1, <2>2, NAssumption, SMT
  <2>4. network' \in Seq(Envelopes)
    BY <1>0, <1>3, <2>3, SMT DEF HandlePublishVote
  <2>. QED
    BY <1>0, <1>3, <2>4 DEF HandlePublishVote, Handling, channels
<1>4. CASE HandlePublishProposal(e)
  <2>1. e.msg.height \in Nat /\ e.msg.value \in Values
    BY <1>0, <1>4, EffectFields, MessageFields DEF HandlePublishProposal
  <2>2. ProposalEnvelopes(e.msg.height, e.msg.value) \in Seq(Envelopes)
    <3>1. \A i \in 1..2*N : (i - 1) \div 2 \in Peers
      BY <1>1, NAssumption, SMT DEF Peers
    <3>2. \A i \in 1..2*N :
             Envelope(current, (i - 1) \div 2,
                      IF i % 2 = 1 THEN Proposal(e.msg.height, e.msg.value)
                      ELSE ProposedValue(e.msg.height, e.msg.value)) \in Envelopes
      BY <1>0, <2>1, <3>1, InputTypes, EnvelopeType
    <3>. QED
      BY <1>1, <3>2, SMT DEF ProposalEnvelopes
  <2>3. Announcements(e.msg.height, e.msg.value) \in Seq(DecisionSteps)
    BY <1>1, <2>1, StepTypes, SMT DEF Announcements
  <2>4. status' \in [Threads -> Statuses]
    BY <1>0, <1>4, EndsType DEF HandlePublishProposal, Threads, Statuses, Panics
  <2>5. \/ network' = network /\ decisionSteps' = decisionSteps
        \/ /\ network' = network \o ProposalEnvelopes(e.msg.height, e.msg.value)
           /\ decisionSteps'
                = decisionSteps \o Announcements(e.msg.height, e.msg.value)
    BY <1>4 DEF HandlePublishProposal
  <2>6. network \o ProposalEnvelopes(e.msg.height, e.msg.value) \in Seq(Envelopes)
    BY <1>0, <2>2, SMT
  <2>7. decisionSteps \o Announcements(e.msg.height, e.msg.value)
            \in Seq(DecisionSteps)
    BY <1>0, <2>3, SMT
  <2>. QED
    BY <1>0, <1>4, <2>4, <2>5, <2>6, <2>7 DEF HandlePublishProposal, Handling
<1>5. CASE HandleDecide(e)
  <2>0. /\ e.effect = "Decide" /\ effects' = effects \ {e}
        /\ UNCHANGED <<pool, proposals, toTask, current>>
        /\ \/ /\ decisionSteps'
                   = Append(decisionSteps, Finalized(current, e.height, e.id))
              /\ SendToSelf(StartHeight(NextHeight(e.height)))
              /\ log' = [log EXCEPT ![current] = Append(@, e.id)]
              /\ UNCHANGED status
           \/ /\ Ends("simulator", "no consumer")
              /\ UNCHANGED <<network, decisionSteps, log>>
    BY <1>5 DEF HandleDecide, Handling
  <2>1. e.height \in Nat /\ e.id \in Int /\ NextHeight(e.height) \in Nat
    <3>1. e.effect = "Decide"
      BY <2>0
    <3>. QED
      BY <1>0, <3>1, EffectFields, SMT DEF NextHeight
  <2>2. Finalized(current, e.height, e.id) \in DecisionSteps
    BY <1>0, <2>1, StepTypes
  <2>3. StartHeight(NextHeight(e.height)) \in Inputs
    BY <2>1, InputTypes
  <2>4. network' \in Seq(Envelopes)
    BY <1>0, <2>0, <2>3, SendToSelfType
  <2>5. status' \in [Threads -> Statuses]
    BY <1>0, <2>0, EndsType DEF Threads, Statuses, Panics
  <2>6. Append(decisionSteps, Finalized(current, e.height, e.id))
            \in Seq(DecisionSteps)
    BY <1>0, <2>2, SMT
  <2>7. Append(log[current], e.id) \in Seq(Int)
    BY <1>0, <2>1, SMT
  <2>8. log' \in [Peers -> Seq(Int)]
    BY <1>0, <2>0, <2>7
  <2>. QED
    BY <1>0, <2>0, <2>4, <2>5, <2>6, <2>8
<1>6. CASE HandleGetValue(e)
  <2>1. e.height \in Nat
    BY <1>0, <1>6, EffectFields DEF HandleGetValue
  <2>2. proposals # <<>> => Head(proposals) \in Values /\ Tail(proposals) \in Seq(Values)
    BY <1>0, SMT
  <2>3. network' \in Seq(Envelopes)
    BY <1>0, <1>6, <2>1, <2>2, SendToSelfType, InputTypes DEF HandleGetValue
  <2>4. status' \in [Threads -> Statuses]
    BY <1>0, <1>6, EndsType DEF HandleGetValue, Threads, Statuses, Panics
  <2>. QED
    BY <1>0, <1>6, <2>2, <2>3, <2>4 DEF HandleGetValue, Handling
<1>. QED
  BY <1>2, <1>3, <1>4, <1>5, <1>6

\* One turn of the consumer.
LEMMA TypeOfConsume ==
    ASSUME TypeInv, Consume
    PROVE  ConsumerTypeOK' /\ ChannelsTypeOK'
<1> DEFINE d == Head(decisionSteps)
<1>0. /\ ChannelsTypeOK /\ ConsumerTypeOK
      /\ decisionSteps \in Seq(DecisionSteps) /\ toTask \in Seq(SUBSET Txs)
      /\ status \in [Threads -> Statuses]
      /\ DOMAIN decisions \subseteq Nat
      /\ decisions \in [DOMAIN decisions -> Values]
      /\ relayed \in Seq([height : Nat, id : Int, value : Values])
  BY DEF TypeInv, ChainTypeOK, ChannelsTypeOK, ConsumerTypeOK
<1>1. /\ decisionSteps # <<>> /\ decisionSteps' = Tail(decisionSteps)
      /\ UNCHANGED <<pool, proposals>>
      /\ \/ d.step = "Proposed" /\ OnProposed(d)
         \/ d.step = "Finalized" /\ (OnFinalized(d) \/ OnFinalizedElsewhere(d))
  BY DEF Consume
<1>2. d \in DecisionSteps /\ decisionSteps' \in Seq(DecisionSteps)
  BY <1>0, <1>1, SMT
<1> HIDE DEF d
<1>3. /\ d.step = "Proposed" => d.height \in Nat /\ d.value \in Values
      /\ d.step = "Finalized" => d.height \in Nat /\ d.id \in Int
  BY <1>2 DEF DecisionSteps
<1>4. SUFFICES /\ status' \in [Threads -> Statuses]
               /\ toTask' \in Seq(SUBSET Txs)
               /\ ConsumerTypeOK'
  BY <1>1, <1>2 DEF ChannelsTypeOK, TypeInv, ChainTypeOK
<1>5. CASE d.step = "Proposed" /\ OnProposed(d)
  <2>1. CASE d.height \in DOMAIN decisions
    BY <1>0, <1>5, <2>1 DEF OnProposed, ConsumerTypeOK
  <2>2. CASE d.height \notin DOMAIN decisions
    <3>1. decisions' = Put(decisions, d.height, d.value)
      BY <1>5, <2>2 DEF OnProposed
    <3>2. DOMAIN decisions' = DOMAIN decisions \cup {d.height}
      BY <3>1 DEF Put
    <3>3. \A h \in DOMAIN decisions' : decisions'[h] \in Values
      BY <1>0, <1>3, <1>5, <3>1, <3>2 DEF Put
    <3>4. decisions' \in [DOMAIN decisions' -> Values]
      BY <3>1, <3>2, <3>3 DEF Put
    <3>. QED
      BY <1>0, <1>3, <1>5, <3>2, <3>4 DEF OnProposed, ConsumerTypeOK
  <2>. QED
    BY <2>1, <2>2
<1>6. CASE d.step = "Finalized" /\ OnFinalized(d)
  <2>1. CASE /\ \/ Ends("consumer", "no proposal")
                \/ Ends("consumer", "no task")
             /\ UNCHANGED <<toTask, relayed, decisions>>
    <3>1. status' \in [Threads -> Statuses]
      BY <1>0, <2>1, EndsType DEF Threads, Statuses, Panics
    <3>. QED
      BY <1>0, <2>1, <3>1 DEF ConsumerTypeOK
  <2>2. CASE /\ d.height \in DOMAIN decisions
             /\ toTask' = Append(toTask, decisions[d.height].txs)
             /\ relayed' = Append(relayed, [height |-> d.height, id |-> d.id,
                                            value |-> decisions[d.height]])
             /\ UNCHANGED <<status, decisions>>
    <3>1. decisions[d.height] \in Values /\ decisions[d.height].txs \in SUBSET Txs
      BY <1>0, <2>2 DEF Values
    <3>2. [height |-> d.height, id |-> d.id, value |-> decisions[d.height]]
              \in [height : Nat, id : Int, value : Values]
      BY <1>3, <1>6, <3>1
    <3>3. relayed' \in Seq([height : Nat, id : Int, value : Values])
      BY <1>0, <2>2, <3>2, SMT
    <3>4. toTask' \in Seq(SUBSET Txs)
      BY <1>0, <2>2, <3>1, SMT
    <3>. QED
      BY <1>0, <2>2, <3>3, <3>4 DEF ConsumerTypeOK
  <2>. QED
    BY <1>6, <2>1, <2>2 DEF OnFinalized
<1>7. CASE d.step = "Finalized" /\ OnFinalizedElsewhere(d)
  BY <1>0, <1>7 DEF OnFinalizedElsewhere, ConsumerTypeOK
<1>. QED
  BY <1>1, <1>5, <1>6, <1>7

\* Every step of every thread preserves the types.
LEMMA TypeNext == TypeInv /\ [ChainNext]_chainVars => TypeInv'
<1> SUFFICES ASSUME TypeInv, [ChainNext]_chainVars PROVE TypeInv'
  OBVIOUS
<1>0. /\ ChannelsTypeOK /\ BuilderTypeOK /\ SimTypeOK /\ ConsumerTypeOK
      /\ CommitHasProposal
  BY DEF TypeInv, ChainTypeOK
<1>1. ASSUME UNCHANGED simVars PROVE SimTypeOK' /\ CommitHasProposal'
  BY <1>0, <1>1 DEF simVars, appVars, SimTypeOK, AppTypeOK, CommitHasProposal
<1>2. ASSUME UNCHANGED builderVars PROVE BuilderTypeOK'
  BY <1>0, <1>2 DEF builderVars, BuilderTypeOK
<1>3. ASSUME UNCHANGED consumerVars PROVE ConsumerTypeOK'
  BY <1>0, <1>3 DEF consumerVars, ConsumerTypeOK
<1>4. ASSUME UNCHANGED channels, status' \in [Threads -> Statuses]
      PROVE  ChannelsTypeOK'
  BY <1>0, <1>4 DEF channels, ChannelsTypeOK
<1>5. CASE Builder
  <2>1. CASE CollectTransactions
    <3>1. [id |-> valueCounter, txs |-> pool] \in Values
      BY <1>0 DEF BuilderTypeOK, ChannelsTypeOK, Values
    <3>2. Append(built, [id |-> valueCounter, txs |-> pool]) \in Seq(Values)
      BY <1>0, <3>1, SMT DEF BuilderTypeOK
    <3>4. BuilderTypeOK'
      BY <1>0, <2>1, <3>1, <3>2 DEF CollectTransactions, BuilderTypeOK
    <3>3. ChannelsTypeOK'
      BY <1>0, <2>1 DEF CollectTransactions, ChannelsTypeOK, channels
    <3>. QED
      BY <1>1, <1>3, <1>5, <3>3, <3>4 DEF Builder, TypeInv, ChainTypeOK
  <2>2. CASE SendValue
    <3>1. PICK v \in Values : proposals' = Append(proposals, v)
      BY <1>0, <2>2 DEF SendValue, BuilderTypeOK
    <3>2. proposals' \in Seq(Values)
      BY <1>0, <3>1, SMT DEF ChannelsTypeOK
    <3>3. ChannelsTypeOK'
      BY <1>0, <2>2, <3>2 DEF SendValue, ChannelsTypeOK
    <3>4. BuilderTypeOK'
      BY <1>0, <2>2, SMT DEF SendValue, BuilderTypeOK
    <3>. QED
      BY <1>1, <1>3, <1>5, <3>3, <3>4 DEF Builder, TypeInv, ChainTypeOK
  <2>3. CASE SendFails
    <3>1. status' \in [Threads -> Statuses]
      BY <1>0, <2>3, EndsType DEF SendFails, Threads, Statuses, Panics
    <3>. QED
      BY <1>1, <1>2, <1>3, <1>4, <1>5, <2>3, <3>1
         DEF SendFails, Builder, TypeInv, ChainTypeOK
  <2>. QED
    BY <1>5, <2>1, <2>2, <2>3 DEF Builder, BuilderNext
<1>6. CASE Simulate
  <2>1. CASE Step
    BY <1>2, <1>3, <1>4, <1>6, <2>1, TypeOfStep
       DEF Simulate, Step, TypeInv, ChainTypeOK
  <2>2. CASE HandleEffect /\ UNCHANGED states
    <3>1. /\ network' \in Seq(Envelopes) /\ log' \in [Peers -> Seq(Int)]
          /\ status' \in [Threads -> Statuses]
          /\ proposals' \in Seq(Values) /\ decisionSteps' \in Seq(DecisionSteps)
          /\ pool' = pool /\ toTask' = toTask /\ current' = current
          /\ effects' \subseteq effects
      BY <2>2, TypeOfHandler DEF HandleEffect
    <3>2. ChannelsTypeOK'
      BY <1>0, <3>1 DEF ChannelsTypeOK
    <3>3. SimTypeOK'
      BY <1>0, <2>2, <3>1 DEF SimTypeOK, AppTypeOK
    <3>4. CommitHasProposal'
      BY <1>0, <2>2 DEF CommitHasProposal
    <3>. QED
      BY <1>2, <1>3, <1>6, <3>2, <3>3, <3>4 DEF Simulate, TypeInv, ChainTypeOK
  <2>. QED
    BY <1>6, <2>1, <2>2 DEF Simulate, SimNext
<1>7. CASE Consuming
  <2>1. CASE Consume
    BY <1>1, <1>2, <1>7, <2>1, TypeOfConsume DEF Consuming, TypeInv, ChainTypeOK
  <2>2. CASE StopConsuming
    <3>1. status' \in [Threads -> Statuses]
      BY <1>0, <2>2, EndsType DEF StopConsuming, Threads, Statuses
    <3>. QED
      BY <1>1, <1>2, <1>3, <1>4, <1>7, <2>2, <3>1
         DEF StopConsuming, Consuming, TypeInv, ChainTypeOK
  <2>. QED
    BY <1>7, <2>1, <2>2 DEF Consuming, ConsumerNext
<1>8. CASE PoolChanges
  <2>1. ChannelsTypeOK'
    BY <1>0, <1>8 DEF PoolChanges, ChannelsTypeOK
  <2>. QED
    BY <1>1, <1>2, <1>3, <1>8, <2>1 DEF PoolChanges, TypeInv, ChainTypeOK
<1>9. CASE TaskEnds
  <2>1. status' \in [Threads -> Statuses]
    BY <1>0, <1>9, EndsType DEF TaskEnds, Threads, Statuses
  <2>. QED
    BY <1>1, <1>2, <1>3, <1>4, <1>9, <2>1 DEF TaskEnds, TypeInv, ChainTypeOK
<1>10. CASE ConsumerCancelled
  <2>1. status' \in [Threads -> Statuses]
    BY <1>0, <1>10, EndsType DEF ConsumerCancelled, Threads, Statuses
  <2>. QED
    BY <1>1, <1>2, <1>3, <1>4, <1>10, <2>1 DEF ConsumerCancelled, TypeInv, ChainTypeOK
<1>11. CASE UNCHANGED chainVars
  <2>1. /\ UNCHANGED <<status, channels>>
        /\ UNCHANGED builderVars /\ UNCHANGED simVars /\ UNCHANGED consumerVars
    BY <1>11 DEF chainVars
  <2>2. status' \in [Threads -> Statuses]
    BY <1>0, <2>1 DEF ChannelsTypeOK
  <2>. QED
    BY <1>1, <1>2, <1>3, <1>4, <2>1, <2>2 DEF TypeInv, ChainTypeOK
<1>. QED
  BY <1>5, <1>6, <1>7, <1>8, <1>9, <1>10, <1>11 DEF ChainNext

\* Every variable of the consensus layer keeps its type, whatever the threads do.
THEOREM ChainTypes == ChainSpec => []ChainTypeOK
<1>1. TypeInv => ChainTypeOK
  BY DEF TypeInv
<1>. QED
  BY <1>1, TypeInit, TypeNext, PTL DEF ChainSpec

-----------------------------------------------------------------------------
(* The network. *)

\* An envelope is taken off the network, and with it the only token of its destination.
LEMMA NetTail ==
    ASSUME NEW nw \in Seq(Envelopes), nw # <<>>, NEW sts, NEW lg, NetOK(nw, sts, lg)
    PROVE  /\ NetOK(Tail(nw), sts, lg)
           /\ IsToken(nw[1].payload) => NoToken(Tail(nw), nw[1].destination)
           /\ \A p : NoToken(nw, p) => NoToken(Tail(nw), p)
<1>1. /\ Len(nw) \in Nat /\ Len(nw) >= 1 /\ DOMAIN nw = 1..Len(nw)
      /\ DOMAIN Tail(nw) = 1..(Len(nw) - 1)
      /\ \A i \in 1..(Len(nw) - 1) : Tail(nw)[i] = nw[i + 1]
  BY SMT
<1>2. \A i \in DOMAIN Tail(nw) : i + 1 \in DOMAIN nw /\ Tail(nw)[i] = nw[i + 1] /\ i \in Int
  BY <1>1, SMT
<1>3. 1 \in DOMAIN nw /\ \A i \in DOMAIN Tail(nw) : i + 1 # 1
  BY <1>1, SMT
<1>4. NetOK(Tail(nw), sts, lg)
  <2>1. ASSUME NEW i \in DOMAIN Tail(nw)
        PROVE  Fits(Tail(nw)[i].payload, sts[Tail(nw)[i].destination],
                    lg[Tail(nw)[i].destination])
    BY <1>2 DEF NetOK
  <2>2. ASSUME NEW i \in DOMAIN Tail(nw), NEW j \in DOMAIN Tail(nw),
               IsToken(Tail(nw)[i].payload), IsToken(Tail(nw)[j].payload),
               Tail(nw)[i].destination = Tail(nw)[j].destination
        PROVE  i = j
    <3>1. i + 1 = j + 1
      BY <1>2, <2>2 DEF NetOK
    <3>. QED
      BY <1>2, <3>1, SMT
  <2>. QED
    BY <2>1, <2>2 DEF NetOK
<1>5. IsToken(nw[1].payload) => NoToken(Tail(nw), nw[1].destination)
  BY <1>2, <1>3 DEF NetOK, NoToken
<1>6. \A p : NoToken(nw, p) => NoToken(Tail(nw), p)
  BY <1>2 DEF NoToken
<1>. QED
  BY <1>4, <1>5, <1>6

\* Messages that are no tokens join the network.
LEMMA NetConcat ==
    ASSUME NEW nw \in Seq(Envelopes), NEW more \in Seq(Envelopes), NEW sts, NEW lg,
           NetOK(nw, sts, lg),
           \A i \in DOMAIN more : /\ ~IsToken(more[i].payload)
                                  /\ Carries(more[i].payload) =>
                                       more[i].payload.value.id = more[i].payload.height
    PROVE  /\ NetOK(nw \o more, sts, lg)
           /\ \A p : NoToken(nw, p) => NoToken(nw \o more, p)
<1>1. /\ Len(nw) \in Nat /\ Len(more) \in Nat
      /\ DOMAIN nw = 1..Len(nw) /\ DOMAIN more = 1..Len(more)
      /\ DOMAIN (nw \o more) = 1..(Len(nw) + Len(more))
      /\ \A i \in 1..(Len(nw) + Len(more)) :
            (nw \o more)[i] = IF i <= Len(nw) THEN nw[i] ELSE more[i - Len(nw)]
  BY ConcatProperties, SMT
<1>2. \A i \in DOMAIN (nw \o more) :
         \/ i \in DOMAIN nw /\ (nw \o more)[i] = nw[i]
         \/ i - Len(nw) \in DOMAIN more /\ (nw \o more)[i] = more[i - Len(nw)]
  BY <1>1, SMT
<1>3. \A i \in DOMAIN (nw \o more) :
         \/ i \in DOMAIN nw /\ (nw \o more)[i] = nw[i]
         \/ /\ ~IsToken((nw \o more)[i].payload)
            /\ Carries((nw \o more)[i].payload) =>
                 (nw \o more)[i].payload.value.id = (nw \o more)[i].payload.height
  BY <1>2
<1>4. ASSUME NEW i \in DOMAIN (nw \o more)
      PROVE  Fits((nw \o more)[i].payload, sts[(nw \o more)[i].destination],
                  lg[(nw \o more)[i].destination])
  BY <1>3 DEF NetOK, Fits, IsToken
<1>5. ASSUME NEW i \in DOMAIN (nw \o more), NEW j \in DOMAIN (nw \o more),
             IsToken((nw \o more)[i].payload), IsToken((nw \o more)[j].payload),
             (nw \o more)[i].destination = (nw \o more)[j].destination
      PROVE  i = j
  BY <1>3, <1>5 DEF NetOK
<1>6. \A p : NoToken(nw, p) => NoToken(nw \o more, p)
  BY <1>3 DEF NoToken
<1>. QED
  BY <1>4, <1>5, <1>6 DEF NetOK

\* A peer that has no token in the network sends one to itself, or another message.
LEMMA NetAppend ==
    ASSUME NEW nw \in Seq(Envelopes), NEW p \in Peers, NEW m \in Inputs, NEW sts, NEW lg,
           NetOK(nw, sts, lg), Fits(m, sts[p], lg[p]), IsToken(m) => NoToken(nw, p)
    PROVE  /\ NetOK(Append(nw, Envelope(p, p, m)), sts, lg)
           /\ \A q : NoToken(nw, q) /\ (q = p => ~IsToken(m)) =>
                     NoToken(Append(nw, Envelope(p, p, m)), q)
<1>1. PICK x \in Envelopes : /\ x = Envelope(p, p, m)
                             /\ x.destination = p /\ x.payload = m
  BY EnvelopeType DEF Envelope
<1>2. PICK nx \in Seq(Envelopes) : nx = Append(nw, x)
  BY AppendProperties
<1>3. /\ Len(nw) \in Nat /\ DOMAIN nw = 1..Len(nw) /\ DOMAIN nx = 1..(Len(nw) + 1)
      /\ \A i \in 1..Len(nw) : nx[i] = nw[i]
      /\ nx[Len(nw) + 1] = x
  BY <1>2, SMT
<1>4. \A i \in DOMAIN nx : \/ i \in DOMAIN nw /\ nx[i] = nw[i]
                           \/ i = Len(nw) + 1 /\ nx[i] = x
  BY <1>3, SMT
<1>5. ASSUME NEW i \in DOMAIN nx
      PROVE  Fits(nx[i].payload, sts[nx[i].destination], lg[nx[i].destination])
  BY <1>1, <1>4 DEF NetOK
<1>6. ASSUME NEW i \in DOMAIN nx, NEW j \in DOMAIN nx,
             IsToken(nx[i].payload), IsToken(nx[j].payload),
             nx[i].destination = nx[j].destination
      PROVE  i = j
  BY <1>1, <1>4, <1>6 DEF NetOK, NoToken
<1>7. NetOK(nx, sts, lg)
  BY <1>5, <1>6 DEF NetOK
<1>8. \A q : NoToken(nw, q) /\ (q = p => ~IsToken(m)) => NoToken(nx, q)
  BY <1>1, <1>4 DEF NoToken
<1>. QED
  BY <1>1, <1>2, <1>7, <1>8

\* A peer changes its state or decides while it has no token in the network, or
\* stays where it is.
LEMMA NetChange ==
    ASSUME NEW nw \in Seq(Envelopes), NEW p \in Peers, NEW sts, NEW lg, NEW sts2, NEW lg2,
           NetOK(nw, sts, lg),
           NoToken(nw, p) \/ (sts2[p].step = sts[p].step /\ lg2[p] = lg[p]),
           \A q \in Peers : q # p => sts2[q] = sts[q] /\ lg2[q] = lg[q]
    PROVE  NetOK(nw, sts2, lg2)
<1>1. \A i \in DOMAIN nw : nw[i].destination \in Peers
  <2>1. DOMAIN nw = 1..Len(nw) /\ \A i \in 1..Len(nw) : nw[i] \in Envelopes
    BY LenProperties, ElementOfSeq
  <2>. QED
    BY <2>1 DEF Envelopes
<1>2. ASSUME NEW i \in DOMAIN nw
      PROVE  Fits(nw[i].payload, sts2[nw[i].destination], lg2[nw[i].destination])
  <2>1. CASE nw[i].destination = p
    BY <2>1 DEF NetOK, NoToken, Fits, IsToken
  <2>2. CASE nw[i].destination # p
    BY <1>1, <2>2 DEF NetOK
  <2>. QED
    BY <2>1, <2>2
<1>. QED
  BY <1>2 DEF NetOK

-----------------------------------------------------------------------------
(* A peer processes an input. *)

Deciding == {"propose", "prevote", "precommit"}

\* What an input that fits does to the state of a peer.
LEMMA InputPeer ==
    ASSUME NEW p \in Peers, NEW st \in PeerStates, NEW m \in Inputs,
           NEW new \in Outcomes(p, st, m), NEW l, Fits(m, st, l), PeerOK(st, l)
    PROVE  /\ PeerOK(new, l)
           /\ new.step = st.step \/ IsToken(m) \/ st.step \in Deciding
           /\ m.type = "StartHeight" => new.step = "propose" /\ new.height = m.height
           /\ m.type = "TimeoutElapsed" => st.step = "commit" /\ new.step = "decided"
           /\ ~IsToken(m) => StepKept(st, new)
<1>1. /\ new \in PeerStates
      /\ m.type = "StartHeight" => new = StateAt(m.height, "propose")
      /\ m.type # "StartHeight" => InputResult(p, st, m, new)
  BY OutcomeFacts
<1>2. CASE m.type = "StartHeight"
  BY <1>1, <1>2, SMT DEF StateAt, Fits, PeerOK, IsToken
<1>3. CASE m.type = "TimeoutElapsed"
  <2>1. new.step = "decided" /\ st.step = "commit"
    BY <1>3, CommitTimeout DEF Fits
  <2>2. new.height = st.height /\ new.proposal = st.proposal
    BY <1>1, <1>3 DEF InputResult
  <2>. QED
    BY <1>3, <2>1, <2>2 DEF PeerOK, IsToken
<1>4. CASE ~IsToken(m)
  <2>1. StepKept(st, new)
    BY <1>4, InputSteps
  <2>2. /\ new.height = st.height /\ m.type # "StartHeight" /\ m.type # "TimeoutElapsed"
        /\ \/ new.proposal = st.proposal
           \/ /\ m.type \in {"Propose", "Proposal"} /\ new.proposal = {m.value}
              /\ st.proposal = {}
        /\ new # st => Accepted(st, m)
    BY <1>1, <1>4 DEF InputResult, IsToken
  <2>3. \A v \in new.proposal : v.id = new.height
    <3>1. CASE new.proposal = st.proposal
      BY <2>2, <3>1 DEF PeerOK
    <3>2. CASE /\ m.type \in {"Propose", "Proposal"} /\ new.proposal = {m.value}
               /\ st.proposal = {}
      <4>1. st.height = m.height
        BY <2>2, <3>2 DEF Accepted, Current
      <4>2. m.value.id = m.height
        BY <3>2 DEF Fits, Carries
      <4>. QED
        BY <2>2, <3>2, <4>1, <4>2
    <3>. QED
      BY <2>2, <3>1, <3>2
  <2>4. st.step \in Deciding \/ st.step \in {"unstarted", "decided", "commit"}
    BY DEF PeerStates, Steps, PeerOK, Deciding
  <2>5. /\ new.step # "newround"
        /\ new.step \in {"unstarted", "decided"} => st.step = new.step
        /\ st.step \in {"unstarted", "decided"} => st.step = new.step
    BY <2>1, <2>4 DEF StepKept, Deciding
  <2>6. PeerOK(new, l)
    BY <2>2, <2>3, <2>5 DEF PeerOK
  <2>. QED
    BY <1>4, <2>1, <2>2, <2>4, <2>6 DEF StepKept
<1>. QED
  BY <1>2, <1>3, <1>4 DEF IsToken

\* What the effects of an input that fits find at the peer.
LEMMA InputEffectsOK ==
    ASSUME NEW p \in Peers, NEW st \in PeerStates, NEW m \in Inputs,
           NEW new \in Outcomes(p, st, m), NEW l, Fits(m, st, l), PeerOK(st, l),
           st.step = "commit" => st.proposal # {},
           NEW e \in EffectsOf(p, st, m, new)
    PROVE  /\ EffectOK(e, p, new, l)
           /\ SendsToken(e) => IsToken(m) \/ st.step \in Deciding
<1>1. /\ IsDecide(e) => /\ st.step = "commit" /\ new.step = "decided"
                        /\ e.height = st.height /\ e.id = ProposedId(st)
      /\ SendsToken(e) /\ ~IsDecide(e) => st.step # "commit" /\ new.step = "commit"
      /\ IsGetValue(e) => m.type = "StartHeight" /\ p = 0 /\ e.height = m.height
      /\ e.effect = "Publish" /\ e.msg.type # "Vote" =>
            m.type = "Propose" /\ e.msg.value = m.value /\ e.msg.height = m.height
  BY EffectOrigins, SMT
<1>2. st.step = "commit" => ProposedId(st) = st.height /\ st.height = Len(l)
  BY DEF PeerOK, ProposedId
<1>3. /\ new.step = st.step \/ IsToken(m) \/ st.step \in Deciding
      /\ m.type = "StartHeight" => new.step = "propose"
  BY InputPeer
<1>4. m.type = "StartHeight" => m.height = Len(l)
  BY DEF Fits
<1>5. m.type = "Propose" => m.value.id = m.height
  BY DEF Fits, Carries
<1>6. EffectOK(e, p, new, l)
  BY <1>1, <1>2, <1>3, <1>4, <1>5 DEF EffectOK
<1>7. SendsToken(e) => new.step # st.step
  BY <1>1
<1>. QED
  BY <1>3, <1>6, <1>7

\* The proposer takes the value of a height exactly when it has started it.
LEMMA StepFresh ==
    ASSUME NEW p \in Peers, NEW st \in PeerStates, NEW m \in Inputs,
           NEW new \in Outcomes(p, st, m), NEW l, Fits(m, st, l), PeerOK(st, l),
           states \in [Peers -> PeerStates], st = states[p], effects = {}, current' = p,
           states' = [states EXCEPT ![p] = new], effects' = EffectsOf(p, st, m, new)
    PROVE  Fresh' <=> Fresh
<1>1. \A e \in effects' :
         /\ IsDecide(e) => st.step = "commit" /\ new.step = "decided"
         /\ IsGetValue(e) => m.type = "StartHeight" /\ p = 0
  BY EffectOrigins, SMT
<1>2. /\ m.type = "StartHeight" /\ p = 0 => \E e \in effects' : IsGetValue(e)
      /\ st.step = "commit" /\ new.step = "decided" => \E e \in effects' : IsDecide(e)
  BY EffectsMade
<1>3. /\ m.type = "StartHeight" => new.step = "propose"
      /\ m.type = "TimeoutElapsed" => st.step = "commit" /\ new.step = "decided"
      /\ ~IsToken(m) => StepKept(st, new)
  BY InputPeer, SMT
<1>4. Fresh <=> states[0].step \in {"unstarted", "decided"}
  BY DEF Fresh
<1>5. Fresh' <=> \/ states'[0].step = "unstarted"
                 \/ states'[0].step = "decided"
                      /\ ~(p = 0 /\ \E e \in effects' : IsDecide(e))
                 \/ \E e \in effects' : IsGetValue(e)
  BY DEF Fresh
<1>6. 0 \in Peers
  BY NAssumption, SMT DEF Peers
<1>7. CASE p # 0
  <2>1. states'[0] = states[0]
    BY <1>6, <1>7
  <2>. QED
    BY <1>1, <1>4, <1>5, <1>7, <2>1
<1>8. CASE p = 0
  <2>1. states'[0] = new /\ states[0] = st
    BY <1>6, <1>8
  <2>2. CASE m.type = "StartHeight"
    BY <1>2, <1>4, <1>5, <1>8, <2>1, <2>2 DEF Fits
  <2>3. CASE m.type = "TimeoutElapsed"
    BY <1>1, <1>2, <1>3, <1>4, <1>5, <1>8, <2>1, <2>3
  <2>4. CASE ~IsToken(m)
    <3>1. m.type # "StartHeight" /\ m.type # "TimeoutElapsed"
      BY <2>4 DEF IsToken
    <3>2. st.step \in {"unstarted", "decided", "commit"} \/ st.step \in Deciding
      BY DEF PeerStates, Steps, PeerOK, Deciding
    <3>. QED
      BY <1>1, <1>3, <1>4, <1>5, <1>8, <2>1, <2>4, <3>1, <3>2 DEF StepKept, Deciding
  <2>. QED
    BY <2>2, <2>3, <2>4 DEF IsToken
<1>. QED
  BY <1>7, <1>8

\* What the invariant says also of a simulator that has ended follows from Flow; it
\* is needed of the state after a step.
LEMMA FlowGives ==
    ASSUME TypeInv', Flow'
    PROVE  RoundZero' /\ Backpressure'
<1>1. RoundZero'
  BY DEF Flow, PeerOK, RoundZero
<1>2. Len(proposals') \in Nat /\ Len(log'[0]) \in Nat
  <2>1. 0 \in Peers
    BY NAssumption, SMT DEF Peers
  <2>2. proposals' \in Seq(Values) /\ log'[0] \in Seq(Int)
    BY <2>1 DEF TypeInv, ChainTypeOK, SimTypeOK, AppTypeOK, ChannelsTypeOK
  <2>. QED
    BY <2>2, LenProperties
<1>3. valueCounter' <= Len(log'[0]) + 2
  <2>1. /\ Len(proposals') <= 1
        /\ \/ valueCounter' = Len(proposals') + Len(log'[0])
           \/ valueCounter' = Len(proposals') + Len(log'[0]) + 1
    <3>1. CASE Fresh'
      BY <1>2, <3>1, SMT DEF Flow, Supply
    <3>2. CASE ~Fresh'
      BY <1>2, <3>2 DEF Flow, Supply
    <3>. QED
      BY <3>1, <3>2
  <2>. QED
    BY <1>2, <2>1, SMT
<1>. QED
  BY <1>1, <1>2, <1>3, SMT DEF Backpressure, SelectProposer, ProposalsCapacity

\* The simulator takes an envelope off the network.
LEMMA OrderStep ==
    ASSUME TypeInv, OrderInv, Step, UNCHANGED builderVars
    PROVE  Flow' /\ DecidedInOrder' /\ NoProcessError'
<1>1. /\ Running("simulator") /\ effects = {} /\ network # <<>>
      /\ network' = Tail(network) /\ log' = log /\ proposals' = proposals
      /\ current' = Head(network).destination
  BY DEF Step, channels
<1>2. /\ network \in Seq(Envelopes) /\ states \in [Peers -> PeerStates]
      /\ Flow /\ CommitHasProposal
  BY <1>1 DEF TypeInv, ChainTypeOK, SimTypeOK, AppTypeOK, OrderInv
<1>3. /\ Head(network) = network[1] /\ 1 \in DOMAIN network
      /\ network[1] \in Envelopes /\ Tail(network) \in Seq(Envelopes)
  BY <1>1, <1>2, SMT
<1>4. PICK p \in Peers : p = Head(network).destination
  BY <1>3 DEF Envelopes
<1>5. PICK m \in Inputs : m = Head(network).payload
  BY <1>3 DEF Envelopes
<1>6. PICK st \in PeerStates : st = states[p]
  BY <1>2
<1>7. PICK l : l = log[p]
  OBVIOUS
<1>8. /\ Fits(m, st, l) /\ PeerOK(st, l)
      /\ st.step = "commit" => st.proposal # {}
  BY <1>2, <1>3, <1>4, <1>5, <1>6, <1>7 DEF Flow, NetOK, CommitHasProposal
<1>9. ~LibraryError(st, m)
  BY <1>8 DEF Fits, LibraryError
<1>10. PICK new \in Outcomes(p, st, m) :
          /\ states' = [states EXCEPT ![p] = new]
          /\ effects' = EffectsOf(p, st, m, new)
          /\ UNCHANGED status
  BY <1>4, <1>5, <1>6, <1>9 DEF Step
<1>11. /\ PeerOK(new, l)
       /\ new.step = st.step \/ IsToken(m) \/ st.step \in Deciding
  BY <1>8, InputPeer
<1>12. /\ states'[p] = new
       /\ \A q \in Peers : q # p => states'[q] = states[q] /\ log'[q] = log[q]
  BY <1>1, <1>2, <1>10
<1>13. \A e \in effects' : /\ EffectOK(e, p, new, l)
                           /\ SendsToken(e) => IsToken(m) \/ st.step \in Deciding
  BY <1>8, <1>10, InputEffectsOK
<1>14. /\ NetOK(network', states, log)
       /\ IsToken(m) => NoToken(network', p)
       /\ NoToken(network, p) => NoToken(network', p)
  BY <1>1, <1>2, <1>3, <1>4, <1>5, NetTail DEF Flow
<1>15. st.step \in Deciding => NoToken(network, p)
  BY <1>2, <1>6 DEF Flow, NetOK, NoToken, Fits, IsToken, Deciding
<1>16. NetOK(network', states', log')
  <2>1. NoToken(network', p) \/ (states'[p].step = states[p].step /\ log'[p] = log[p])
    BY <1>1, <1>6, <1>11, <1>12, <1>14, <1>15
  <2>2. PICK nw \in Seq(Envelopes) : nw = network'
    BY <1>1, <1>3
  <2>. QED
    BY <1>12, <1>14, <2>1, <2>2, NetChange, SMT
<1>17. \A q \in Peers : PeerOK(states'[q], log'[q])
  BY <1>1, <1>2, <1>7, <1>11, <1>12 DEF Flow
<1>18. current' = p /\ states'[p] = new /\ log'[p] = l
  BY <1>1, <1>4, <1>7, <1>12
<1>19. /\ \A e \in effects' : EffectOK(e, current', states'[current'], log'[current'])
       /\ (\E e \in effects' : SendsToken(e)) => NoToken(network', current')
  <2>1. PICK c : c = current'
    OBVIOUS
  <2>2. c = p /\ states'[c] = new /\ log'[c] = l
    BY <1>18, <2>1
  <2>3. \A e \in effects' : EffectOK(e, c, states'[c], log'[c])
    BY <1>13, <2>2
  <2>4. (\E e \in effects' : SendsToken(e)) => NoToken(network', c)
    BY <1>13, <1>14, <1>15, <2>2
  <2>. QED
    BY <2>1, <2>3, <2>4
<1>20. Fresh' <=> Fresh
  BY <1>1, <1>2, <1>4, <1>6, <1>8, <1>10, StepFresh
<1>21. Supply'
  BY <1>1, <1>2, <1>20 DEF Flow, Supply, builderVars
<1>22. DecidedInOrder' /\ NoProcessError'
  BY <1>1, <1>10 DEF OrderInv, DecidedInOrder, NoProcessError
<1>. QED
  BY <1>16, <1>17, <1>19, <1>21, <1>22 DEF Flow

-----------------------------------------------------------------------------
(* The application handles an effect. *)

\* An effect that takes no value and decides none.
LEMMA QuietHandler ==
    ASSUME Flow, NEW e \in effects, effects' = effects \ {e},
           ~IsDecide(e), ~IsGetValue(e),
           UNCHANGED <<states, log, current, proposals, builderVars>>,
           NetOK(network', states, log),
           (\E x \in effects \ {e} : SendsToken(x)) => NoToken(network', current)
    PROVE  Flow'
<1>1. Fresh' <=> Fresh
  BY DEF Fresh
<1>2. Supply'
  BY <1>1 DEF Flow, Supply, builderVars
<1>3. NetOK(network', states', log') /\ \A p \in Peers : PeerOK(states'[p], log'[p])
  BY DEF Flow
<1>4. \A x \in effects' : EffectOK(x, current', states'[current'], log'[current'])
  BY DEF Flow
<1>. QED
  BY <1>2, <1>3, <1>4 DEF Flow

\* No two effects of one input send a token.
LEMMA OneToken ==
    ASSUME effects \in SUBSET Effects, Flow,
           NEW e \in effects, NEW x \in effects, SendsToken(e), SendsToken(x)
    PROVE  x = e
<1>1. /\ EffectOK(e, current, states[current], log[current])
      /\ EffectOK(x, current, states[current], log[current])
  BY DEF Flow
<1>2. /\ IsDecide(e) <=> IsDecide(x)
      /\ IsDecide(e) => e.height = x.height /\ e.id = x.id
  BY <1>1 DEF EffectOK
<1>3. e \in Effects /\ x \in Effects
  OBVIOUS
<1>. QED
  BY <1>2, <1>3, SMT DEF Effects, SendsToken, IsDecide

\* handle_schedule_timeout: the commit timeout elapses at once, the others never.
LEMMA TimeoutFlow ==
    ASSUME TypeInv, Flow, NEW e \in effects, HandleScheduleTimeout(e),
           UNCHANGED <<states, builderVars>>
    PROVE  Flow'
<1>1. /\ network \in Seq(Envelopes) /\ current \in Peers /\ effects \in SUBSET Effects
  BY DEF TypeInv, ChainTypeOK, SimTypeOK, AppTypeOK
<1>2. /\ e.effect = "ScheduleTimeout" /\ effects' = effects \ {e}
      /\ UNCHANGED <<log, current, proposals>>
      /\ \/ e.kind = "Commit" /\ SendToSelf(TimeoutElapsed("Commit"))
         \/ e.kind # "Commit" /\ network' = network
  BY DEF HandleScheduleTimeout, Handling, channels, ElapsesAtOnce
<1>3. ~IsDecide(e) /\ ~IsGetValue(e)
  BY <1>2 DEF IsDecide, IsGetValue
<1>4. CASE e.kind # "Commit"
  BY <1>2, <1>3, <1>4, QuietHandler DEF Flow
<1>5. CASE e.kind = "Commit"
  <2>1. SendsToken(e)
    BY <1>2, <1>5 DEF SendsToken
  <2>2. PICK m \in Inputs : /\ m = TimeoutElapsed("Commit")
                            /\ m.type = "TimeoutElapsed" /\ m.kind = "Commit"
    BY InputTypes DEF TimeoutElapsed, TimeoutKinds
  <2>3. Fits(m, states[current], log[current])
    BY <1>3, <2>1, <2>2 DEF Flow, EffectOK, Fits, Carries
  <2>4. NoToken(network, current) /\ NetOK(network, states, log)
    BY <2>1 DEF Flow
  <2>5. network' = Append(network, Envelope(current, current, m))
    BY <1>2, <1>5, <2>2 DEF SendToSelf
  <2>6. NetOK(network', states, log)
    BY <1>1, <2>3, <2>4, <2>5, NetAppend
  <2>7. ~\E x \in effects \ {e} : SendsToken(x)
    BY <1>1, <2>1, OneToken
  <2>. QED
    BY <1>2, <1>3, <2>6, <2>7, QuietHandler
<1>. QED
  BY <1>4, <1>5

\* Messages that are no tokens are published.
LEMMA PublishFlow ==
    ASSUME TypeInv, Flow, NEW e \in effects, e.effect = "Publish",
           effects' = effects \ {e}, NEW more \in Seq(Envelopes),
           network' = network \o more,
           \A i \in DOMAIN more : /\ ~IsToken(more[i].payload)
                                  /\ Carries(more[i].payload) =>
                                       more[i].payload.value.id = more[i].payload.height,
           UNCHANGED <<states, log, current, proposals, builderVars>>
    PROVE  Flow'
<1>1. network \in Seq(Envelopes) /\ NetOK(network, states, log)
  BY DEF TypeInv, ChainTypeOK, SimTypeOK, AppTypeOK, Flow
<1>2. /\ NetOK(network', states, log)
      /\ NoToken(network, current) => NoToken(network', current)
  BY <1>1, NetConcat
<1>3. ~IsDecide(e) /\ ~IsGetValue(e)
  BY DEF IsDecide, IsGetValue
<1>4. (\E x \in effects \ {e} : SendsToken(x)) => NoToken(network', current)
  BY <1>2 DEF Flow
<1>. QED
  BY <1>2, <1>3, <1>4, QuietHandler

\* The envelopes of a vote.
LEMMA VotesSent ==
    ASSUME NEW p \in Peers, NEW m \in Inputs
    PROVE  \E more \in Seq(Envelopes) :
              /\ more = [i \in 1..N-1 |-> Envelope(p, Others(p)[i], m)]
              /\ \A i \in DOMAIN more : more[i].payload = m
<1>1. N \in Nat
  BY NAssumption, SMT
<1>2. \A i \in 1..N-1 : /\ Envelope(p, Others(p)[i], m) \in Envelopes
                        /\ Envelope(p, Others(p)[i], m).payload = m
  BY OthersType, EnvelopeType DEF Envelope
<1>3. [i \in 1..N-1 |-> Envelope(p, Others(p)[i], m)] \in Seq(Envelopes)
  BY <1>1, <1>2, NAssumption, SMT
<1>4. PICK more : more = [i \in 1..N-1 |-> Envelope(p, Others(p)[i], m)]
  OBVIOUS
<1>5. \A i \in DOMAIN more : more[i].payload = m
  BY <1>2, <1>4
<1>. QED
  BY <1>3, <1>4, <1>5

\* A vote is sent to the other peers.
LEMMA VoteFlow ==
    ASSUME TypeInv, Flow, NEW e \in effects, HandlePublishVote(e),
           UNCHANGED <<states, builderVars>>
    PROVE  Flow'
<1>1. /\ e.effect = "Publish" /\ e.msg.type = "Vote" /\ effects' = effects \ {e}
      /\ UNCHANGED <<log, current, proposals>>
      /\ network' = network \o
           [i \in 1..N-1 |-> Envelope(current, Others(current)[i], e.msg)]
  BY DEF HandlePublishVote, Handling, channels
<1>2. current \in Peers /\ e \in Effects
  BY DEF TypeInv, ChainTypeOK, SimTypeOK, AppTypeOK
<1>3. e.msg \in Inputs
  BY <1>1, <1>2, EffectFields, InputTypes
<1>4. PICK more \in Seq(Envelopes) :
         /\ more = [i \in 1..N-1 |-> Envelope(current, Others(current)[i], e.msg)]
         /\ \A i \in DOMAIN more : more[i].payload = e.msg
  BY <1>2, <1>3, VotesSent
<1>5. ~IsToken(e.msg) /\ ~Carries(e.msg)
  BY <1>1 DEF IsToken, Carries
<1>. QED
  BY <1>1, <1>4, <1>5, PublishFlow

\* The envelopes of a proposal and its value.
LEMMA ProposalsSent ==
    ASSUME current \in Peers, NEW h \in Nat, NEW v \in Values
    PROVE  \E more \in Seq(Envelopes) :
              /\ more = ProposalEnvelopes(h, v)
              /\ \A i \in DOMAIN more : /\ ~IsToken(more[i].payload)
                                        /\ more[i].payload.value = v
                                        /\ more[i].payload.height = h
<1>1. \A i \in 1..2*N : (i - 1) \div 2 \in Peers
  BY NAssumption, SMT DEF Peers
<1>2. \A m \in {Proposal(h, v), ProposedValue(h, v)} :
         m \in Inputs /\ ~IsToken(m) /\ m.value = v /\ m.height = h
  <2>1. Proposal(h, v) \in Inputs /\ ProposedValue(h, v) \in Inputs
    BY InputTypes
  <2>2. \A m \in {Proposal(h, v), ProposedValue(h, v)} :
           ~IsToken(m) /\ m.value = v /\ m.height = h
    BY SMT DEF Proposal, ProposedValue, IsToken
  <2>. QED
    BY <2>1, <2>2
<1>3. \A i \in 1..2*N :
         LET m == IF i % 2 = 1 THEN Proposal(h, v) ELSE ProposedValue(h, v)
         IN Envelope(current, (i - 1) \div 2, m) \in Envelopes
  <2>1. SUFFICES ASSUME NEW i \in 1..2*N, NEW m \in {Proposal(h, v), ProposedValue(h, v)}
                 PROVE  Envelope(current, (i - 1) \div 2, m) \in Envelopes
    OBVIOUS
  <2>2. m \in Inputs /\ (i - 1) \div 2 \in Peers
    BY <1>1, <1>2
  <2>. QED
    BY <2>2, EnvelopeType
<1>4. PICK more \in Seq(Envelopes) :
         /\ more = ProposalEnvelopes(h, v)
         /\ \A i \in DOMAIN more : more[i].payload \in {Proposal(h, v), ProposedValue(h, v)}
  <2>1. ProposalEnvelopes(h, v) \in Seq(Envelopes)
    BY <1>3, NAssumption, SMT DEF ProposalEnvelopes
  <2>2. \A i \in DOMAIN ProposalEnvelopes(h, v) :
           ProposalEnvelopes(h, v)[i].payload \in {Proposal(h, v), ProposedValue(h, v)}
    BY DEF ProposalEnvelopes, Envelope
  <2>. QED
    BY <2>1, <2>2
<1>5. \A i \in DOMAIN more : /\ ~IsToken(more[i].payload)
                             /\ more[i].payload.value = v
                             /\ more[i].payload.height = h
  BY <1>2, <1>4
<1>. QED
  BY <1>4, <1>5

\* A proposal and its value are sent to every peer.
LEMMA ProposalFlow ==
    ASSUME TypeInv, Flow, NEW e \in effects, HandlePublishProposal(e), Running("consumer"),
           UNCHANGED <<states, builderVars>>
    PROVE  Flow'
<1>1. /\ e.effect = "Publish" /\ e.msg.type = "Proposal" /\ effects' = effects \ {e}
      /\ UNCHANGED <<log, current, proposals>>
      /\ network' = network \o ProposalEnvelopes(e.msg.height, e.msg.value)
  BY DEF HandlePublishProposal, Handling
<1>2. current \in Peers /\ e \in Effects
  BY DEF TypeInv, ChainTypeOK, SimTypeOK, AppTypeOK
<1>3. e.msg \in ValueInputs \cup Votes
  BY <1>1, <1>2, EffectFields
<1>4. e.msg.height \in Nat /\ e.msg.value \in Values
  BY <1>1, <1>3, MessageFields
<1>5. PICK h \in Nat, v \in Values : h = e.msg.height /\ v = e.msg.value
  BY <1>4
<1>6. v.id = h
  BY <1>1, <1>5 DEF Flow, EffectOK
<1>7. PICK more \in Seq(Envelopes) :
         /\ more = ProposalEnvelopes(h, v)
         /\ \A i \in DOMAIN more : /\ ~IsToken(more[i].payload)
                                   /\ more[i].payload.value = v
                                   /\ more[i].payload.height = h
  BY <1>2, ProposalsSent
<1>8. \A i \in DOMAIN more : /\ ~IsToken(more[i].payload)
                             /\ more[i].payload.value.id = more[i].payload.height
  BY <1>6, <1>7
<1>. QED
  BY <1>1, <1>5, <1>7, <1>8, PublishFlow

\* A decision: the height is started that follows the decisions, whose number has
\* grown by one.
LEMMA DecideFlow ==
    ASSUME TypeInv, Flow, DecidedInOrder, NEW e \in effects, HandleDecide(e),
           Running("consumer"), UNCHANGED <<states, builderVars>>
    PROVE  Flow' /\ DecidedInOrder'
<1>1. /\ e.effect = "Decide" /\ effects' = effects \ {e}
      /\ UNCHANGED <<current, proposals>>
      /\ network' = Append(network, Envelope(current, current, StartHeight(e.height + 1)))
      /\ log' = [log EXCEPT ![current] = Append(@, e.id)]
  BY DEF HandleDecide, Handling, SendToSelf, NextHeight
<1>2. /\ network \in Seq(Envelopes) /\ effects \in SUBSET Effects
      /\ log \in [Peers -> Seq(Int)] /\ proposals \in Seq(Values) /\ 0 \in Peers
  BY NAssumption, SMT DEF TypeInv, ChainTypeOK, SimTypeOK, AppTypeOK, ChannelsTypeOK, Peers
<1>3. PICK p \in Peers : p = current
  BY DEF TypeInv, ChainTypeOK, SimTypeOK, AppTypeOK
<1>4. PICK l \in Seq(Int) : l = log[p]
  BY <1>2
<1>5. /\ IsDecide(e) /\ SendsToken(e)
      /\ states[p].step = "decided" /\ e.height = Len(l) /\ e.id = Len(l)
      /\ NoToken(network, p) /\ NetOK(network, states, log)
  <2>1. IsDecide(e) /\ SendsToken(e)
    BY <1>1 DEF IsDecide, SendsToken
  <2>. QED
    BY <1>3, <1>4, <2>1 DEF Flow, EffectOK
<1>6. PICK l2 \in Seq(Int) : l2 = Append(l, e.id)
  <2>1. Len(l) \in Int
    BY LenProperties, SMT
  <2>. QED
    BY <1>5, <2>1, AppendProperties
<1>7. /\ Len(l) \in Nat /\ Len(l2) = Len(l) + 1 /\ DOMAIN l2 = 1..(Len(l) + 1)
      /\ \A i \in 1..Len(l) : l2[i] = l[i]
      /\ l2[Len(l) + 1] = Len(l)
  <2>1. Len(l) \in Nat
    BY LenProperties
  <2>2. PICK n \in Int : n = e.id /\ n = Len(l) /\ l2 = Append(l, n)
    BY <1>5, <1>6, <2>1, SMT
  <2>3. /\ Len(l2) = Len(l) + 1
        /\ \A i \in 1..Len(l) : l2[i] = l[i]
        /\ l2[Len(l) + 1] = n
    BY <2>2, AppendProperties, SMT
  <2>4. DOMAIN l2 = 1..Len(l2)
    BY LenProperties
  <2>. QED
    BY <2>1, <2>2, <2>3, <2>4
<1>8. log'[p] = l2 /\ \A q \in Peers : q # p => log'[q] = log[q]
  BY <1>1, <1>2, <1>3, <1>4, <1>6
<1>9. DecidedInOrder'
  <2>1. \A i \in DOMAIN l2 : l2[i] = i - 1
    <3>1. \A i \in DOMAIN l : l[i] = i - 1
      BY <1>4 DEF DecidedInOrder
    <3>2. \A i \in 1..Len(l) : l[i] = i - 1
      BY <1>4, <3>1, LenProperties
    <3>3. ASSUME NEW i \in 1..(Len(l) + 1) PROVE l2[i] = i - 1
      <4>1. i \in 1..Len(l) \/ i = Len(l) + 1
        BY <1>7, SMT
      <4>. QED
        BY <1>7, <3>2, <4>1, SMT
    <3>. QED
      BY <1>7, <3>3
  <2>. QED
    BY <1>8, <2>1 DEF DecidedInOrder
<1>10. NetOK(network, states, log')
  <2>1. PICK lg : lg = log'
    OBVIOUS
  <2>2. \A q \in Peers : q # p => states[q] = states[q] /\ lg[q] = log[q]
    BY <1>8, <2>1
  <2>3. NetOK(network, states, lg)
    BY <1>2, <1>5, <2>2, NetChange, SMT
  <2>. QED
    BY <2>1, <2>3
<1>11. NetOK(network', states', log')
  <2>1. e.height + 1 \in Nat
    <3>1. PICK k \in Nat : k = e.height
      BY <1>5, <1>7
    <3>. QED
      BY <3>1, SMT
  <2>2. PICK m \in Inputs : /\ m = StartHeight(e.height + 1)
                            /\ m.type = "StartHeight" /\ m.height = e.height + 1
    BY <2>1, InputTypes DEF StartHeight
  <2>3. Fits(m, states[p], log'[p])
    BY <1>5, <1>7, <1>8, <2>2 DEF Fits, Carries
  <2>4. PICK lg : lg = log'
    OBVIOUS
  <2>5. NetOK(Append(network, Envelope(p, p, m)), states, lg)
    BY <1>2, <1>5, <1>10, <2>3, <2>4, NetAppend
  <2>. QED
    BY <1>1, <1>3, <2>2, <2>4, <2>5
<1>12. \A q \in Peers : PeerOK(states'[q], log'[q])
  BY <1>5, <1>8 DEF Flow, PeerOK
<1>13. \A x \in effects' : ~SendsToken(x) /\ ~IsGetValue(x)
  <2>1. \A x \in effects' : ~SendsToken(x)
    BY <1>1, <1>2, <1>5, OneToken
  <2>2. \A x \in effects : ~IsGetValue(x)
    BY <1>3, <1>5 DEF Flow, EffectOK
  <2>. QED
    BY <1>1, <2>1, <2>2
<1>14. \A x \in effects' : EffectOK(x, current', states'[current'], log'[current'])
  <2>1. \A x \in effects' : x.effect = "Publish" /\ x.msg.type # "Vote"
                            => x.msg.value.id = x.msg.height
    BY <1>1 DEF Flow, EffectOK
  <2>. QED
    BY <1>13, <2>1 DEF EffectOK, SendsToken
<1>15. Supply'
  <2>1. \A x \in effects : ~IsGetValue(x)
    BY <1>3, <1>5 DEF Flow, EffectOK
  <2>2. \A x \in effects' : ~IsDecide(x)
    BY <1>13 DEF SendsToken
  <2>3. CASE p = 0
    <3>1. ~Fresh
      BY <1>3, <1>5, <2>1, <2>3 DEF Fresh
    <3>2. Fresh'
      BY <1>3, <1>5, <2>2, <2>3 DEF Fresh
    <3>3. valueCounter = Len(proposals) + Len(l) + 1
      BY <1>4, <2>3, <3>1 DEF Flow, Supply
    <3>4. Len(log'[0]) = Len(l) + 1 /\ Len(proposals) \in Nat
      BY <1>2, <1>7, <1>8, <2>3, LenProperties
    <3>5. valueCounter' = Len(proposals') + Len(log'[0]) + 0
      <4>1. valueCounter' = valueCounter /\ proposals' = proposals
        BY <1>1 DEF builderVars
      <4>. QED
        BY <1>7, <3>3, <3>4, <4>1, SMT
    <3>. QED
      BY <1>1, <3>2, <3>5 DEF Flow, Supply, builderVars
  <2>4. CASE p # 0
    <3>1. Fresh' <=> Fresh
      BY <1>1, <1>3, <1>13, <2>1, <2>4 DEF Fresh
    <3>2. log'[0] = log[0]
      BY <1>2, <1>8, <2>4
    <3>. QED
      BY <1>1, <3>1, <3>2 DEF Flow, Supply, builderVars
  <2>. QED
    BY <2>3, <2>4
<1>. QED
  BY <1>9, <1>11, <1>12, <1>13, <1>14, <1>15 DEF Flow

\* The proposer takes the value whose identifier is its height.
LEMMA ValueFlow ==
    ASSUME TypeInv, Flow, NEW e \in effects, HandleGetValue(e), proposals # <<>>,
           UNCHANGED <<states, builderVars>>
    PROVE  Flow'
<1>1. /\ e.effect = "GetValue" /\ effects' = effects \ {e}
      /\ UNCHANGED <<current, log>> /\ proposals' = Tail(proposals)
      /\ network' = Append(network, Envelope(current, current,
                                             Propose(e.height, Head(proposals))))
  BY DEF HandleGetValue, Handling, SendToSelf
<1>2. /\ network \in Seq(Envelopes) /\ effects \in SUBSET Effects /\ e \in Effects
      /\ log \in [Peers -> Seq(Int)] /\ proposals \in Seq(Values) /\ current \in Peers
  BY DEF TypeInv, ChainTypeOK, SimTypeOK, AppTypeOK, ChannelsTypeOK
<1>3. /\ IsGetValue(e) /\ current = 0 /\ states[0].step = "propose" /\ e.height = Len(log[0])
  <2>1. IsGetValue(e)
    BY <1>1 DEF IsGetValue
  <2>. QED
    BY <2>1 DEF Flow, EffectOK
<1>4. /\ Fresh /\ valueCounter = Len(proposals) + Len(log[0])
      /\ Len(proposals) <= 1 /\ Head(proposals).id = valueCounter - 1
      /\ \A v \in staged : v.id = valueCounter
  <2>1. Fresh
    BY <1>3 DEF Fresh
  <2>2. Len(proposals) \in Nat /\ Len(log[0]) \in Nat
    BY <1>2, <1>3, LenProperties
  <2>. QED
    BY <2>1, <2>2, SMT DEF Flow, Supply
<1>5. /\ Len(proposals) = 1 /\ Head(proposals) \in Values /\ Tail(proposals) = <<>>
      /\ Len(log[0]) \in Nat /\ Len(proposals') = 0
  <2>0. Len(proposals) \in Nat /\ Len(proposals) # 0
    BY <1>2, EmptySeq, LenProperties
  <2>1. Len(proposals) = 1 /\ Head(proposals) \in Values
    <3>1. PICK n \in Nat : n = Len(proposals) /\ n # 0 /\ n <= 1
      BY <1>4, <2>0
    <3>2. Head(proposals) \in Values
      BY <1>2, SMT
    <3>3. n = 1
      BY <3>1, SMT
    <3>. QED
      BY <3>1, <3>2, <3>3
  <2>2. Tail(proposals) \in Seq(Values) /\ Len(Tail(proposals)) = 0
    BY <1>2, <2>1, SMT
  <2>3. Len(log[0]) \in Nat
    BY <1>2, <1>3, LenProperties
  <2>. QED
    BY <1>1, <2>1, <2>2, <2>3, SMT
<1>6. PICK v \in Values : v = Head(proposals) /\ v.id = e.height
  BY <1>3, <1>4, <1>5, SMT
<1>7. PICK m \in Inputs : /\ m = Propose(e.height, v) /\ ~IsToken(m)
                          /\ m.value = v /\ m.height = e.height
  <2>1. e.height \in Nat
    BY <1>3, <1>5
  <2>2. Propose(e.height, v) \in Inputs
    BY <2>1, InputTypes
  <2>. QED
    BY <2>2 DEF Propose, IsToken
<1>8. /\ NetOK(network', states, log)
      /\ NoToken(network, current) => NoToken(network', current)
  <2>1. Fits(m, states[current], log[current])
    BY <1>6, <1>7 DEF Fits, IsToken
  <2>2. network' = Append(network, Envelope(current, current, m))
    BY <1>1, <1>6, <1>7
  <2>3. NetOK(network, states, log)
    BY DEF Flow
  <2>. QED
    BY <1>2, <1>7, <2>1, <2>2, <2>3, NetAppend
<1>9. \A x \in effects' : ~IsGetValue(x)
  <2>1. \A x \in effects : IsGetValue(x) => x.height = e.height
    BY <1>3 DEF Flow, EffectOK
  <2>2. \A x \in effects : IsGetValue(x) => x = e
    <3>1. \A x \in Effects : IsGetValue(x) => x \in [effect : {"GetValue"}, height : Nat]
      BY DEF Effects, IsGetValue
    <3>2. \A x, y \in [effect : {"GetValue"}, height : Nat] : x.height = y.height => x = y
      BY SMT
    <3>. QED
      BY <1>2, <1>3, <2>1, <3>1, <3>2
  <2>. QED
    BY <1>1, <2>2
<1>10. ~Fresh'
  BY <1>3, <1>9 DEF Fresh
<1>11. Supply'
  <2>1. valueCounter' = Len(proposals') + Len(log'[0]) + 1 /\ Len(proposals') <= 1
    BY <1>1, <1>4, <1>5, SMT DEF builderVars
  <2>2. proposals' = <<>>
    BY <1>1, <1>5
  <2>. QED
    BY <1>4, <1>10, <2>1, <2>2 DEF Supply, builderVars
<1>12. /\ NetOK(network', states', log') /\ \A p \in Peers : PeerOK(states'[p], log'[p])
       /\ \A x \in effects' : EffectOK(x, current', states'[current'], log'[current'])
       /\ (\E x \in effects' : SendsToken(x)) => NoToken(network', current')
  BY <1>1, <1>8 DEF Flow
<1>. QED
  BY <1>11, <1>12 DEF Flow

-----------------------------------------------------------------------------
(* The builder, and everything else. *)

\* The builder numbers its values by its counter, and sends one only when the
\* channel is empty.
LEMMA BuilderFlow ==
    ASSUME TypeInv, Flow, BuilderNext, Running("simulator"), UNCHANGED simVars
    PROVE  Flow'
<1>1. /\ valueCounter \in Nat /\ proposals \in Seq(Values) /\ staged \in SUBSET Values
  BY DEF TypeInv, ChainTypeOK, ChannelsTypeOK, BuilderTypeOK
<1>2. UNCHANGED <<network, current, effects, log, states>>
  BY DEF simVars, appVars
<1>3. Fresh' <=> Fresh
  BY <1>2 DEF Fresh
<1>4. CASE CollectTransactions
  <2>1. /\ staged' = {[id |-> valueCounter, txs |-> pool]}
        /\ valueCounter' = valueCounter /\ proposals' = proposals
    BY <1>4 DEF CollectTransactions, channels
  <2>2. \A v \in staged' : v.id = valueCounter'
    BY <2>1, SMT
  <2>3. /\ valueCounter' = Len(proposals') + Len(log'[0]) + (IF Fresh' THEN 0 ELSE 1)
        /\ Len(proposals') <= 1
        /\ proposals' # <<>> => Head(proposals').id = valueCounter' - 1
    BY <1>2, <1>3, <2>1 DEF Flow, Supply
  <2>4. Supply'
    BY <2>2, <2>3 DEF Supply
  <2>. QED
    BY <1>2, <2>4 DEF Flow
<1>5. CASE SendValue
  <2>1. /\ Len(proposals) < 1 /\ staged' = {} /\ valueCounter' = valueCounter + 1
        /\ \E v \in staged : proposals' = Append(proposals, v)
    BY <1>5 DEF SendValue, ProposalsCapacity
  <2>2. PICK v \in Values : v \in staged /\ proposals' = Append(proposals, v)
    BY <1>1, <2>1
  <2>3. v.id = valueCounter
    BY <2>2 DEF Flow, Supply
  <2>4. Len(proposals) \in Nat /\ Len(proposals) = 0
    BY <1>1, <2>1, LenProperties, SMT
  <2>5. proposals = <<>>
    BY <1>1, <2>4, EmptySeq
  <2>6. Len(proposals') = 1 /\ Head(proposals') = v
    BY <2>2, <2>5, SMT
  <2>7. 0 \in Peers /\ log \in [Peers -> Seq(Int)]
    BY NAssumption, SMT DEF TypeInv, ChainTypeOK, SimTypeOK, AppTypeOK, Peers
  <2>8. Len(log[0]) \in Nat
    BY <2>7, LenProperties
  <2>9. valueCounter' = Len(proposals') + Len(log'[0]) + (IF Fresh' THEN 0 ELSE 1)
    <3>1. log'[0] = log[0]
      BY <1>2
    <3>2. PICK k \in Nat : k = IF Fresh THEN 0 ELSE 1
      OBVIOUS
    <3>3. PICK n \in Nat : n = Len(log[0])
      BY <2>8
    <3>4. valueCounter = n + k
      <4>1. valueCounter = Len(proposals) + Len(log[0]) + (IF Fresh THEN 0 ELSE 1)
        BY DEF Flow, Supply
      <4>2. valueCounter = 0 + n + k
        BY <2>4, <3>2, <3>3, <4>1
      <4>. QED
        BY <4>2, SMT
    <3>5. k = IF Fresh' THEN 0 ELSE 1
      BY <1>3, <3>2
    <3>6. valueCounter' = (n + k) + 1
      BY <2>1, <3>4
    <3>7. (n + k) + 1 = 1 + n + k
      BY SMT
    <3>. QED
      BY <2>6, <3>1, <3>3, <3>5, <3>6, <3>7
  <2>10. Len(proposals') <= 1 /\ Head(proposals').id = valueCounter' - 1
    BY <1>1, <2>1, <2>3, <2>6, SMT
  <2>11. Supply'
    BY <2>1, <2>9, <2>10 DEF Supply
  <2>. QED
    BY <1>2, <2>11 DEF Flow
<1>. QED
  BY <1>4, <1>5 DEF BuilderNext, SendFails

\* What leaves the simulator and the values alone.
LEMMA OrderKept ==
    ASSUME OrderInv, UNCHANGED <<simVars, builderVars, proposals>>,
           status'["simulator"] = status["simulator"]
    PROVE  OrderInv'
<1>1. UNCHANGED <<network, current, effects, log, states, valueCounter, staged, proposals>>
  BY DEF simVars, appVars, builderVars
<1>2. RoundZero' /\ DecidedInOrder' /\ Backpressure' /\ NoProcessError'
  BY <1>1 DEF OrderInv, RoundZero, DecidedInOrder, Backpressure, NoProcessError
<1>3. (Fresh' <=> Fresh) /\ (Running("simulator")' <=> Running("simulator"))
  BY <1>1 DEF Fresh, Running
<1>4. Flow => Supply'
  BY <1>1, <1>3 DEF Flow, Supply
<1>5. Flow => Flow'
  BY <1>1, <1>4 DEF Flow
<1>. QED
  BY <1>2, <1>3, <1>5 DEF OrderInv

\* The simulator panics, and nothing is left to keep but what has been decided.
LEMMA OrderPanics ==
    ASSUME OrderInv, TypeInv, NEW s \in {"no value", "no consumer"}, Ends("simulator", s),
           UNCHANGED <<log, states, builderVars>>
    PROVE  OrderInv'
<1>1. status'["simulator"] = s
  BY DEF Ends, TypeInv, ChainTypeOK, ChannelsTypeOK, Threads
<1>2. ~Running("simulator")' /\ NoProcessError'
  BY <1>1 DEF Running, NoProcessError
<1>3. RoundZero' /\ DecidedInOrder' /\ Backpressure'
  BY DEF OrderInv, RoundZero, DecidedInOrder, Backpressure, builderVars
<1>. QED
  BY <1>2, <1>3 DEF OrderInv

\* Every handler of an effect keeps the invariant.
LEMMA OrderHandler ==
    ASSUME TypeInv, TypeInv', OrderInv, HandleEffect, UNCHANGED <<states, builderVars>>
    PROVE  OrderInv'
<1>1. PICK e \in effects : \/ HandleScheduleTimeout(e) \/ HandlePublishVote(e)
                           \/ HandlePublishProposal(e) \/ HandleDecide(e)
                           \/ HandleGetValue(e)
  BY DEF HandleEffect
<1>2. Running("simulator") /\ Flow /\ DecidedInOrder /\ NoProcessError
  BY <1>1 DEF HandleScheduleTimeout, HandlePublishVote, HandlePublishProposal,
              HandleDecide, HandleGetValue, Handling, OrderInv
<1>3. ASSUME Flow', DecidedInOrder', UNCHANGED status PROVE OrderInv'
  <2>1. NoProcessError'
    BY <1>2, <1>3 DEF NoProcessError
  <2>2. RoundZero' /\ Backpressure'
    BY <1>3, FlowGives
  <2>. QED
    BY <1>3, <2>1, <2>2 DEF OrderInv
<1>4. ASSUME log' = log PROVE DecidedInOrder'
  BY <1>2, <1>4 DEF DecidedInOrder
<1>5. CASE HandleScheduleTimeout(e)
  <2>1. log' = log /\ UNCHANGED status
    BY <1>5 DEF HandleScheduleTimeout
  <2>. QED
    BY <1>2, <1>3, <1>4, <1>5, <2>1, TimeoutFlow
<1>6. CASE HandlePublishVote(e)
  <2>1. log' = log /\ UNCHANGED status
    BY <1>6 DEF HandlePublishVote
  <2>. QED
    BY <1>2, <1>3, <1>4, <1>6, <2>1, VoteFlow
<1>7. CASE HandlePublishProposal(e)
  <2>1. log' = log
    BY <1>7 DEF HandlePublishProposal
  <2>2. CASE Running("consumer")
    <3>1. UNCHANGED status
      BY <1>7, <2>2 DEF HandlePublishProposal
    <3>. QED
      BY <1>2, <1>3, <1>4, <1>7, <2>1, <2>2, <3>1, ProposalFlow
  <2>3. CASE ~Running("consumer")
    <3>1. Ends("simulator", "no consumer")
      BY <1>7, <2>3 DEF HandlePublishProposal
    <3>. QED
      BY <2>1, <3>1, OrderPanics
  <2>. QED
    BY <2>2, <2>3
<1>8. CASE HandleDecide(e)
  <2>1. CASE Running("consumer")
    <3>1. UNCHANGED status
      BY <1>8, <2>1 DEF HandleDecide
    <3>. QED
      BY <1>2, <1>3, <1>8, <2>1, <3>1, DecideFlow
  <2>2. CASE ~Running("consumer")
    <3>1. Ends("simulator", "no consumer") /\ log' = log
      BY <1>8, <2>2 DEF HandleDecide
    <3>. QED
      BY <3>1, OrderPanics
  <2>. QED
    BY <2>1, <2>2
<1>9. CASE HandleGetValue(e)
  <2>1. log' = log
    BY <1>9 DEF HandleGetValue
  <2>2. CASE proposals # <<>>
    <3>1. UNCHANGED status
      BY <1>9, <2>2 DEF HandleGetValue
    <3>. QED
      BY <1>2, <1>3, <1>4, <1>9, <2>1, <2>2, <3>1, ValueFlow
  <2>3. CASE proposals = <<>>
    <3>1. Ends("simulator", "no value")
      BY <1>9, <2>3 DEF HandleGetValue
    <3>. QED
      BY <2>1, <3>1, OrderPanics
  <2>. QED
    BY <2>2, <2>3
<1>. QED
  BY <1>1, <1>5, <1>6, <1>7, <1>8, <1>9

-----------------------------------------------------------------------------
(* The invariant. *)

\* Each peer starts with the token for height 0 in the network.
LEMMA OrderInit == ChainInit => OrderInv
<1> SUFFICES ASSUME ChainInit PROVE OrderInv
  OBVIOUS
<1>1. /\ network = [i \in 1..N |-> Envelope(i - 1, i - 1, StartHeight(0))]
      /\ effects = {} /\ log = [p \in Peers |-> <<>>] /\ proposals = <<>>
      /\ states = [p \in Peers |-> StateAt(0, "unstarted")]
      /\ valueCounter = 0 /\ staged = {} /\ status = [t \in Threads |-> "running"]
  BY DEF ChainInit, SimInit, AppInit, InitialEnvelopes, ChannelsInit, BuilderInit
<1>2. N \in Nat /\ 0 \in Peers /\ \A i \in 1..N : i - 1 \in Peers
  BY NAssumption, SMT DEF Peers
<1>3. \A p \in Peers : /\ states[p].step = "unstarted" /\ states[p].proposal = {}
                       /\ log[p] = <<>> /\ Len(log[p]) = 0
  BY <1>1 DEF StateAt
<1>4. /\ DOMAIN network = 1..N
      /\ \A i \in 1..N : /\ network[i].destination = i - 1
                         /\ network[i].payload.type = "StartHeight"
                         /\ network[i].payload.height = 0
  BY <1>1 DEF Envelope, StartHeight
<1>5. NetOK(network, states, log)
  <2>1. ASSUME NEW i \in DOMAIN network
        PROVE  Fits(network[i].payload, states[network[i].destination],
                    log[network[i].destination])
    BY <1>2, <1>3, <1>4, SMT DEF Fits, Carries
  <2>2. ASSUME NEW i \in DOMAIN network, NEW j \in DOMAIN network,
               network[i].destination = network[j].destination
        PROVE  i = j
    BY <1>4, <2>2, SMT
  <2>. QED
    BY <2>1, <2>2 DEF NetOK
<1>6. \A p \in Peers : PeerOK(states[p], log[p])
  BY <1>3 DEF PeerOK
<1>7. Supply
  <2>1. Fresh
    BY <1>2, <1>3 DEF Fresh
  <2>2. Len(proposals) = 0 /\ Len(log[0]) = 0
    BY <1>1, <1>2, <1>3
  <2>. QED
    BY <1>1, <2>1, <2>2, SMT DEF Supply
<1>8. Flow
  BY <1>1, <1>5, <1>6, <1>7 DEF Flow
<1>9. RoundZero /\ DecidedInOrder
  BY <1>3, SMT DEF RoundZero, DecidedInOrder
<1>10. Backpressure
  BY <1>1, <1>2, <1>3, SMT DEF Backpressure, SelectProposer, ProposalsCapacity
<1>11. NoProcessError
  BY <1>1 DEF NoProcessError, Threads
<1>. QED
  BY <1>8, <1>9, <1>10, <1>11 DEF OrderInv

\* Every step of the builder keeps the invariant.
LEMMA OrderBuilder ==
    ASSUME TypeInv, TypeInv', OrderInv, Builder
    PROVE  OrderInv'
<1>1. BuilderNext /\ UNCHANGED simVars
  BY DEF Builder
<1>2. UNCHANGED <<log, states>>
  BY <1>1 DEF simVars, appVars
<1>3. RoundZero' /\ DecidedInOrder'
  BY <1>2 DEF OrderInv, RoundZero, DecidedInOrder
<1>4. status'["simulator"] = status["simulator"]
  <2>1. \/ UNCHANGED status
        \/ status' = [status EXCEPT !["builder"] = "no simulator"]
    BY <1>1 DEF BuilderNext, CollectTransactions, SendValue, SendFails, Ends
  <2>. QED
    BY <2>1 DEF TypeInv, ChainTypeOK, ChannelsTypeOK, Threads
<1>5. NoProcessError' /\ (Running("simulator")' <=> Running("simulator"))
  BY <1>4 DEF OrderInv, NoProcessError, Running
<1>6. CASE Running("simulator")
  <2>1. Flow'
    BY <1>1, <1>6, BuilderFlow DEF OrderInv
  <2>. QED
    BY <1>3, <1>5, <2>1, FlowGives DEF OrderInv
<1>7. CASE ~Running("simulator")
  <2>1. valueCounter' = valueCounter
    BY <1>1, <1>7 DEF BuilderNext, CollectTransactions, SendValue, SendFails, builderVars
  <2>2. Backpressure'
    BY <1>2, <2>1 DEF OrderInv, Backpressure
  <2>. QED
    BY <1>3, <1>5, <1>7, <2>2 DEF OrderInv
<1>. QED
  BY <1>6, <1>7

\* Every step of every thread keeps the invariant.
LEMMA OrderNext == TypeInv /\ TypeInv' /\ OrderInv /\ [ChainNext]_chainVars => OrderInv'
<1> SUFFICES ASSUME TypeInv, TypeInv', OrderInv, [ChainNext]_chainVars PROVE OrderInv'
  OBVIOUS
<1>0. status \in [Threads -> Statuses]
  BY DEF TypeInv, ChainTypeOK, ChannelsTypeOK
<1>1. CASE Builder
  BY <1>1, OrderBuilder
<1>2. CASE Simulate
  <2>1. UNCHANGED builderVars /\ (Step \/ (HandleEffect /\ UNCHANGED states))
    BY <1>2 DEF Simulate, SimNext
  <2>2. CASE Step
    <3>1. Flow' /\ DecidedInOrder' /\ NoProcessError'
      BY <2>1, <2>2, OrderStep
    <3>2. RoundZero' /\ Backpressure'
      BY <3>1, FlowGives
    <3>. QED
      BY <3>1, <3>2 DEF OrderInv
  <2>3. CASE HandleEffect /\ UNCHANGED states
    BY <2>1, <2>3, OrderHandler
  <2>. QED
    BY <2>1, <2>2, <2>3
<1>3. CASE Consuming
  <2>1. ConsumerNext /\ UNCHANGED <<builderVars, simVars>>
    BY <1>3 DEF Consuming
  <2>2. /\ proposals' = proposals
        /\ \/ UNCHANGED status
           \/ \E s \in Statuses : Ends("consumer", s)
    BY <2>1 DEF ConsumerNext, Consume, OnProposed, OnFinalized, OnFinalizedElsewhere,
                StopConsuming, channels, Statuses, Panics
  <2>3. status'["simulator"] = status["simulator"]
    BY <1>0, <2>2 DEF Ends, Threads
  <2>. QED
    BY <2>1, <2>2, <2>3, OrderKept
<1>4. CASE PoolChanges
  BY <1>4, OrderKept DEF PoolChanges
<1>5. CASE TaskEnds
  <2>1. status'["simulator"] = status["simulator"]
    BY <1>0, <1>5 DEF TaskEnds, Ends, Threads
  <2>. QED
    BY <1>5, <2>1, OrderKept DEF TaskEnds, channels
<1>6. CASE ConsumerCancelled
  <2>1. status'["simulator"] = status["simulator"]
    BY <1>0, <1>6 DEF ConsumerCancelled, Ends, Threads
  <2>. QED
    BY <1>6, <2>1, OrderKept DEF ConsumerCancelled, channels
<1>7. CASE UNCHANGED chainVars
  BY <1>7, OrderKept DEF chainVars, channels
<1>. QED
  BY <1>1, <1>2, <1>3, <1>4, <1>5, <1>6, <1>7 DEF ChainNext

\* The invariant holds in every state of the consensus layer.
THEOREM OrderCorrect == ChainSpec => []OrderInv
BY TypeInit, TypeNext, OrderInit, OrderNext, PTL DEF ChainSpec

\* No peer leaves round 0, although no timeout but the commit timeout ever elapses:
\* the claim behind the `unimplemented` effects of handle_effect.
THEOREM StaysInRoundZero == ChainSpec => []RoundZero
<1>1. OrderInv => RoundZero
  BY DEF OrderInv
<1>. QED
  BY <1>1, OrderCorrect, PTL

\* Every peer decides the value with identifier h at height h: all peers agree, and
\* no value is decided twice or passed over.
THEOREM DecidesInOrder == ChainSpec => []DecidedInOrder
<1>1. OrderInv => DecidedInOrder
  BY DEF OrderInv
<1>. QED
  BY <1>1, OrderCorrect, PTL

\* The builder is at most two values ahead of the decisions, in the bounded channel
\* and in consensus.
THEOREM BuilderIsHeldBack == ChainSpec => []Backpressure
<1>1. OrderInv => Backpressure
  BY DEF OrderInv
<1>. QED
  BY <1>1, OrderCorrect, PTL

\* The `expect` on the library's result in step_with_envelope never panics.
THEOREM LibraryNeverFails == ChainSpec => []NoProcessError
<1>1. OrderInv => NoProcessError
  BY DEF OrderInv
<1>. QED
  BY <1>1, OrderCorrect, PTL

=============================================================================
