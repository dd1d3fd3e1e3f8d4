---------------------------- MODULE RelayProofs -----------------------------
(***************************************************************************)
(* The consumer finds the proposal of every decision, and the consensus    *)
(* layer implements the log of finalized blocks, for every number of peers *)
(* and heights.                                                            *)
(*                                                                         *)
(* For the first, the inductive invariant is that every height a peer      *)
(* knows a value of was announced before.  For the second, on top of the   *)
(* order of the decisions, the argument follows two things: every value on *)
(* its way, from the builder through the network to the map of the         *)
(* consumer, is the one that was built under its identifier; and the       *)
(* decisions of peer 0 that are still in the channel are those of the      *)
(* heights not yet relayed, in order.                                      *)
(***************************************************************************)
EXTENDS OrderProofs

\* The prover of the steps that name no other; most of them need no arithmetic.
USE Zenon

-----------------------------------------------------------------------------
(* The announcements. *)

SafeInv == TypeInv /\ AnnouncedFirst /\ ProposedBeforeFinalized /\ ConsumerFindsProposal

\* An announcement that has been sent stays announced ...
AnnouncementsKept == \A h : Announced(h) => Announced(h)'

\* ... and so does what a peer may know.
KnowledgeKept == \A h, q : Known(h, q) => Known(h, q)'

\* Appending to the decision steps withdraws no announcement.
LEMMA AnnouncedExtend ==
    ASSUME TypeInv, UNCHANGED decisions, NEW t \in Seq(DecisionSteps),
           decisionSteps' = decisionSteps \o t
    PROVE  AnnouncementsKept
<1>1. decisionSteps \in Seq(DecisionSteps)
  BY DEF TypeInv, ChainTypeOK, ChannelsTypeOK
<1>2. \A i \in DOMAIN decisionSteps :
         i \in DOMAIN decisionSteps' /\ decisionSteps'[i] = decisionSteps[i]
  BY <1>1, SMT
<1>. QED
  BY <1>2 DEF AnnouncementsKept, Announced

\* Appending a step leaves the order of the earlier ones alone.
LEMMA ProposedBeforeExtend ==
    ASSUME TypeInv, ProposedBeforeFinalized, UNCHANGED decisions,
           NEW t \in Seq(DecisionSteps), decisionSteps' = decisionSteps \o t,
           \A i \in DOMAIN t : t[i].step = "Finalized" => Announced(t[i].height)
    PROVE  ProposedBeforeFinalized'
<1>1. decisionSteps \in Seq(DecisionSteps)
  BY DEF TypeInv, ChainTypeOK, ChannelsTypeOK
<1>2. \A i \in DOMAIN decisionSteps :
         i \in DOMAIN decisionSteps' /\ decisionSteps'[i] = decisionSteps[i]
  BY <1>1, SMT
<1> SUFFICES ASSUME NEW j \in DOMAIN decisionSteps', decisionSteps'[j].step = "Finalized"
             PROVE  ProposedBefore(j)'
  BY DEF ProposedBeforeFinalized
<1>3. CASE j \in DOMAIN decisionSteps
  <2>1. decisionSteps'[j] = decisionSteps[j]
    BY <1>2, <1>3
  <2>2. ProposedBefore(j)
    BY <1>3, <2>1 DEF ProposedBeforeFinalized
  <2>3. \A i \in 1..j-1 : decisionSteps'[i] = decisionSteps[i]
    BY <1>1, <1>2, <1>3, SMT
  <2>. QED
    BY <2>1, <2>2, <2>3 DEF ProposedBefore
<1>4. CASE j \notin DOMAIN decisionSteps
  <2>1. /\ j \in Len(decisionSteps)+1 .. Len(decisionSteps)+Len(t)
        /\ decisionSteps'[j] = t[j - Len(decisionSteps)]
        /\ j - Len(decisionSteps) \in DOMAIN t
    BY <1>1, <1>4, SMT
  <2>2. Announced(decisionSteps'[j].height)
    BY <2>1
  <2>3. \A i \in DOMAIN decisionSteps : i \in 1..j-1
    BY <1>1, <2>1, SMT
  <2>. QED
    BY <1>2, <2>2, <2>3 DEF Announced, ProposedBefore
<1>. QED
  BY <1>3, <1>4

\* A turn of the consumer moves the head of the channel into the map.
LEMMA ConsumeKeeps ==
    ASSUME SafeInv, Consume
    PROVE  AnnouncementsKept /\ ProposedBeforeFinalized' /\ ConsumerFindsProposal'
<1> DEFINE d == Head(decisionSteps)
<1>0. /\ TypeInv /\ ProposedBeforeFinalized /\ ConsumerFindsProposal
      /\ decisionSteps \in Seq(DecisionSteps) /\ status \in [Threads -> Statuses]
  BY DEF SafeInv, TypeInv, ChainTypeOK, ChannelsTypeOK
<1>1. /\ decisionSteps # <<>> /\ decisionSteps' = Tail(decisionSteps)
      /\ \/ d.step = "Proposed" /\ OnProposed(d)
         \/ d.step = "Finalized" /\ (OnFinalized(d) \/ OnFinalizedElsewhere(d))
  BY DEF Consume
<1>2. /\ d = decisionSteps[1] /\ 1 \in DOMAIN decisionSteps
      /\ \A i \in DOMAIN decisionSteps' :
            i + 1 \in DOMAIN decisionSteps /\ decisionSteps'[i] = decisionSteps[i+1]
      /\ \A i \in DOMAIN decisionSteps : i # 1 =>
            i - 1 \in DOMAIN decisionSteps' /\ decisionSteps'[i-1] = decisionSteps[i]
  BY <1>0, <1>1, SMT
<1> HIDE DEF d
<1>3. d.step = "Finalized" => d.height \in DOMAIN decisions
  BY <1>0, <1>2, SMT DEF ProposedBeforeFinalized, ProposedBefore
<1>4. /\ \A h \in DOMAIN decisions : h \in DOMAIN decisions'
      /\ d.step = "Proposed" => d.height \in DOMAIN decisions'
  BY <1>1 DEF OnProposed, OnFinalized, OnFinalizedElsewhere, Put
<1>5. AnnouncementsKept
  <2> SUFFICES ASSUME NEW h, Announced(h) PROVE Announced(h)'
    BY DEF AnnouncementsKept
  <2>1. CASE h \in DOMAIN decisions
    BY <1>4, <2>1 DEF Announced
  <2>2. ASSUME NEW i \in DOMAIN decisionSteps,
               decisionSteps[i].step = "Proposed", decisionSteps[i].height = h
        PROVE  Announced(h)'
    <3>1. CASE i = 1
      BY <1>2, <1>4, <2>2, <3>1 DEF Announced
    <3>2. CASE i # 1
      BY <1>2, <2>2, <3>2 DEF Announced
    <3>. QED
      BY <3>1, <3>2
  <2>. QED
    BY <2>1, <2>2 DEF Announced
<1>6. ProposedBeforeFinalized'
  <2> SUFFICES ASSUME NEW j \in DOMAIN decisionSteps',
                      decisionSteps'[j].step = "Finalized"
               PROVE  ProposedBefore(j)'
    BY DEF ProposedBeforeFinalized
  <2>1. j \in Nat \ {0} /\ j + 1 \in DOMAIN decisionSteps
        /\ decisionSteps'[j] = decisionSteps[j+1]
    BY <1>0, <1>1, <1>2, SMT
  <2>2. ProposedBefore(j+1)
    BY <1>0, <2>1 DEF ProposedBeforeFinalized
  <2>3. CASE decisionSteps[j+1].height \in DOMAIN decisions
    BY <1>4, <2>1, <2>3 DEF ProposedBefore
  <2>4. ASSUME NEW i \in 1..j, decisionSteps[i].step = "Proposed",
               decisionSteps[i].height = decisionSteps[j+1].height
        PROVE  ProposedBefore(j)'
    <3>1. CASE i = 1
      BY <1>2, <1>4, <2>1, <2>4, <3>1 DEF ProposedBefore
    <3>2. CASE i # 1
      <4>1. i \in DOMAIN decisionSteps /\ i - 1 \in 1..j-1
        BY <1>0, <2>1, <3>2, SMT
      <4>2. decisionSteps'[i-1] = decisionSteps[i]
        BY <1>2, <3>2, <4>1
      <4>. QED
        BY <2>1, <2>4, <4>1, <4>2 DEF ProposedBefore
    <3>. QED
      BY <3>1, <3>2
  <2>5. (j + 1) - 1 = j
    BY <2>1, SMT
  <2>. QED
    BY <2>2, <2>3, <2>4, <2>5 DEF ProposedBefore
<1>7. ConsumerFindsProposal'
  <2>1. \/ UNCHANGED status
        \/ Ends("consumer", "no task")
    BY <1>1, <1>3 DEF OnProposed, OnFinalized, OnFinalizedElsewhere
  <2>. QED
    BY <1>0, <2>1 DEF Ends, ConsumerFindsProposal, Threads
<1>. QED
  BY <1>5, <1>6, <1>7

\* The three conjuncts of AnnouncedFirst with the message and the state named, so
\* that they can be carried from one state to the next.
InNetwork(m) == \E i \in DOMAIN network : network[i].payload = m

\* What AnnouncedFirst says while the simulator runs.
LEMMA Decompose ==
    ASSUME AnnouncedFirst, Running("simulator")
    PROVE  /\ \A m : InNetwork(m) => MessageAnnounced(m)
           /\ \A p \in Peers : StateAnnounced(p, states[p])
           /\ \A e \in effects : EffectAnnounced(e)
BY DEF AnnouncedFirst, InNetwork

\* What has to be shown of the next state.
LEMMA Recompose ==
    ASSUME \A m : InNetwork(m)' => MessageAnnounced(m)',
           \A p \in Peers : \A st : states'[p] = st => StateAnnounced(p, st)',
           \A e \in effects' : EffectAnnounced(e)'
    PROVE  AnnouncedFirst'
<1>1. ASSUME NEW i \in DOMAIN network' PROVE MessageAnnounced(network[i].payload)'
  <2>1. PICK m : m = network'[i].payload
    OBVIOUS
  <2>2. MessageAnnounced(m)'
    BY <2>1 DEF InNetwork
  <2>. QED
    BY <2>1, <2>2 DEF MessageAnnounced, VoteAnnounced, Known, Announced, Pending
<1>2. ASSUME NEW p \in Peers PROVE StateAnnounced(p, states[p])'
  <2>1. PICK st : st = states'[p]
    OBVIOUS
  <2>2. StateAnnounced(p, st)'
    BY <2>1
  <2>. QED
    BY <2>1, <2>2 DEF StateAnnounced, Known, Announced, Pending
<1>. QED
  BY <1>1, <1>2 DEF AnnouncedFirst

\* What was announced of a message, a state or an effect stays so.
LEMMA FactsKept ==
    ASSUME AnnouncementsKept, KnowledgeKept
    PROVE  /\ \A m : MessageAnnounced(m) => MessageAnnounced(m)'
           /\ \A p, st : StateAnnounced(p, st) => StateAnnounced(p, st)'
           /\ \A e : EffectAnnounced(e) => EffectAnnounced(e)'
BY DEF AnnouncementsKept, KnowledgeKept, MessageAnnounced, StateAnnounced,
       EffectAnnounced, VoteAnnounced

\* Steps of the other threads.
LEMMA ElsewhereKeeps ==
    ASSUME SafeInv, AnnouncementsKept, UNCHANGED simVars,
           Running("simulator")' => Running("simulator")
    PROVE  AnnouncedFirst'
<1>1. SUFFICES ASSUME Running("simulator")' PROVE AnnouncedFirst'
  BY DEF AnnouncedFirst
<1>2. /\ UNCHANGED <<network, current, effects, states>>
      /\ AnnouncedFirst /\ Running("simulator")
  BY <1>1 DEF simVars, appVars, SafeInv
<1>3. KnowledgeKept
  BY <1>2 DEF KnowledgeKept, AnnouncementsKept, Known, Pending
<1>4. \A m : InNetwork(m)' => InNetwork(m)
  BY <1>2 DEF InNetwork
<1>. QED
  BY <1>2, <1>3, <1>4, Decompose, Recompose, FactsKept

\* Handling an effect: what is new in the network has been announced.
LEMMA HandlerKeeps ==
    ASSUME SafeInv, Running("simulator"), AnnouncementsKept, KnowledgeKept,
           UNCHANGED states, effects' \subseteq effects,
           \A m : InNetwork(m)' => InNetwork(m) \/ MessageAnnounced(m)'
    PROVE  AnnouncedFirst'
BY Decompose, Recompose, FactsKept DEF SafeInv

\* A send to oneself adds only that message to the network.
LEMMA SendToSelfAdds ==
    ASSUME TypeInv, NEW x, SendToSelf(x), NEW m, InNetwork(m)'
    PROVE  InNetwork(m) \/ m = x
<1>1. network \in Seq(Envelopes)
  BY DEF TypeInv, ChainTypeOK, SimTypeOK, AppTypeOK
<1>2. PICK i \in DOMAIN network' : network'[i].payload = m
  BY DEF InNetwork
<1>3. CASE i \in DOMAIN network
  BY <1>1, <1>2, <1>3, SMT DEF SendToSelf, InNetwork
<1>4. CASE i \notin DOMAIN network
  <2>1. network'[i] = Envelope(current, current, x)
    BY <1>1, <1>2, <1>4, SMT DEF SendToSelf
  <2>. QED
    BY <1>2, <2>1, SMT DEF Envelope
<1>. QED
  BY <1>3, <1>4

\* Only the proposal among the effects can make something known.
LEMMA PendingKept ==
    ASSUME NEW e, effects' = effects \ {e}, UNCHANGED current, AnnouncementsKept,
           ~(e.effect = "Publish" /\ e.msg.type = "Proposal")
    PROVE  KnowledgeKept
BY DEF KnowledgeKept, AnnouncementsKept, Known, Pending

\* A panic of the simulator claims nothing more of the network and the peers.
LEMMA SimulatorEnds ==
    ASSUME SafeInv, NEW s \in Panics, Ends("simulator", s)
    PROVE  AnnouncedFirst' /\ ConsumerFindsProposal'
<1>1. status \in [Threads -> Statuses]
  BY DEF SafeInv, TypeInv, ChainTypeOK, ChannelsTypeOK
<1>2. s # "running"
  BY DEF Panics
<1>3. status'["simulator"] = s /\ status'["consumer"] = status["consumer"]
  BY <1>1 DEF Ends, Threads
<1>. QED
  BY <1>2, <1>3 DEF SafeInv, AnnouncedFirst, Running, ConsumerFindsProposal

\* A step that sends the consumer nothing keeps the announcements and their order.
LEMMA StepsUnchanged ==
    ASSUME SafeInv, UNCHANGED <<decisionSteps, decisions>>
    PROVE  AnnouncementsKept /\ ProposedBeforeFinalized'
BY DEF SafeInv, AnnouncementsKept, Announced, ProposedBeforeFinalized, ProposedBefore

\* Every handler of an effect preserves the invariant.
LEMMA SafeHandler ==
    ASSUME SafeInv, NEW e \in effects, UNCHANGED <<states, consumerVars>>,
           \/ HandleScheduleTimeout(e) \/ HandlePublishVote(e)
           \/ HandlePublishProposal(e) \/ HandleDecide(e) \/ HandleGetValue(e)
    PROVE  AnnouncedFirst' /\ ProposedBeforeFinalized' /\ ConsumerFindsProposal'
<1>0. /\ TypeInv /\ AnnouncedFirst /\ ProposedBeforeFinalized /\ ConsumerFindsProposal
      /\ UNCHANGED decisions
  BY DEF SafeInv, consumerVars
<1>1. /\ Running("simulator") /\ effects' = effects \ {e} /\ current' = current
      /\ effects' \subseteq effects
  BY DEF HandleScheduleTimeout, HandlePublishVote, HandlePublishProposal,
         HandleDecide, HandleGetValue, Handling
<1>2. /\ network \in Seq(Envelopes) /\ decisionSteps \in Seq(DecisionSteps)
      /\ current \in Peers /\ e \in Effects
  BY <1>0 DEF TypeInv, ChainTypeOK, SimTypeOK, AppTypeOK, ChannelsTypeOK
<1>3. EffectAnnounced(e)
  BY <1>0, <1>1, Decompose
<1>4. ASSUME UNCHANGED status PROVE ConsumerFindsProposal'
  BY <1>0, <1>4 DEF ConsumerFindsProposal
<1>5. CASE HandleScheduleTimeout(e)
  <2>1. /\ e.effect = "ScheduleTimeout" /\ UNCHANGED <<status, decisionSteps>>
        /\ UNCHANGED network \/ SendToSelf(TimeoutElapsed(e.kind))
    BY <1>5 DEF HandleScheduleTimeout, channels
  <2>2. AnnouncementsKept /\ ProposedBeforeFinalized'
    BY <1>0, <2>1, StepsUnchanged
  <2>3. KnowledgeKept
    BY <1>1, <2>1, <2>2, PendingKept
  <2>4. \A m : m = TimeoutElapsed(e.kind) => MessageAnnounced(m)'
    BY SMT DEF TimeoutElapsed, MessageAnnounced, VoteAnnounced
  <2>5. \A m : InNetwork(m)' => InNetwork(m) \/ MessageAnnounced(m)'
    <3>1. CASE UNCHANGED network
      BY <3>1 DEF InNetwork
    <3>2. CASE SendToSelf(TimeoutElapsed(e.kind))
      BY <1>0, <3>2, <2>4, SendToSelfAdds
    <3>. QED
      BY <2>1, <3>1, <3>2
  <2>. QED
    BY <1>1, <1>4, <2>1, <2>2, <2>3, <2>5, HandlerKeeps
<1>6. CASE HandlePublishVote(e)
  <2>1. /\ e.effect = "Publish" /\ e.msg.type = "Vote" /\ UNCHANGED <<status, decisionSteps>>
        /\ network' = network \o
              [i \in 1..N-1 |-> Envelope(current, Others(current)[i], e.msg)]
    BY <1>6 DEF HandlePublishVote, channels
  <2>2. AnnouncementsKept /\ ProposedBeforeFinalized'
    BY <1>0, <2>1, StepsUnchanged
  <2>3. KnowledgeKept
    BY <1>1, <2>1, <2>2, PendingKept
  <2>4. MessageAnnounced(e.msg)
    BY <1>3, <2>1 DEF EffectAnnounced, MessageAnnounced, VoteAnnounced
  <2>5. ASSUME NEW m, InNetwork(m)' PROVE InNetwork(m) \/ m = e.msg
    <3>1. PICK i \in DOMAIN network' : network'[i].payload = m
      BY <2>5 DEF InNetwork
    <3> DEFINE t == [j \in 1..N-1 |-> Envelope(current, Others(current)[j], e.msg)]
    <3>2. t \in Seq({Envelope(current, Others(current)[j], e.msg) : j \in 1..N-1})
      BY NAssumption, SMT
    <3>3. \/ i \in DOMAIN network /\ network'[i] = network[i]
          \/ /\ i - Len(network) \in DOMAIN t
             /\ network'[i] = t[i - Len(network)]
      <4>1. network' = network \o t
        BY <2>1
      <4> HIDE DEF t
      <4>. QED
        BY <1>2, <3>1, <3>2, <4>1, SMT
    <3>. QED
      BY <3>1, <3>3, SMT DEF InNetwork, Envelope
  <2>6. \A m : InNetwork(m)' => InNetwork(m) \/ MessageAnnounced(m)'
    BY <2>2, <2>3, <2>4, <2>5, FactsKept
  <2>. QED
    BY <1>1, <1>4, <2>1, <2>2, <2>3, <2>6, HandlerKeeps
<1>7. CASE HandlePublishProposal(e) /\ ~Running("consumer")
  <2>1. Ends("simulator", "no consumer") /\ UNCHANGED decisionSteps
    BY <1>7 DEF HandlePublishProposal
  <2>. QED
    BY <1>0, <2>1, StepsUnchanged, SimulatorEnds DEF Panics
<1>8. CASE HandlePublishProposal(e) /\ Running("consumer")
  <2>0. PICK h, v : h = e.msg.height /\ v = e.msg.value
    OBVIOUS
  <2>1. /\ e.effect = "Publish" /\ e.msg.type = "Proposal" /\ UNCHANGED status
        /\ network' = network \o ProposalEnvelopes(h, v)
        /\ decisionSteps' = decisionSteps \o Announcements(h, v)
    BY <1>8, <2>0 DEF HandlePublishProposal
  <2>2. h \in Nat /\ v \in Values
    BY <1>2, <2>0, <2>1, EffectFields, MessageFields
  <2>3. /\ Announcements(h, v) \in Seq(DecisionSteps)
        /\ Len(Announcements(h, v)) = N
        /\ \A i \in DOMAIN Announcements(h, v) : Announcements(h, v)[i] = Proposed(h, v)
    BY <2>2, StepTypes, NAssumption, SMT DEF Announcements
  <2>4. AnnouncementsKept
    BY <1>0, <2>1, <2>3, AnnouncedExtend
  <2>5. ProposedBeforeFinalized'
    <3>1. \A i \in DOMAIN Announcements(h, v) :
             Announcements(h, v)[i].step = "Finalized" =>
                 Announced(Announcements(h, v)[i].height)
      BY <2>3, SMT DEF Proposed
    <3>. QED
      BY <1>0, <2>1, <2>3, <3>1, ProposedBeforeExtend
  <2>6. Announced(h)'
    <3>1. PICK t \in Seq(DecisionSteps) :
              /\ decisionSteps' = decisionSteps \o t
              /\ Len(t) = N /\ \A i \in DOMAIN t : t[i] = Proposed(h, v)
      BY <2>1, <2>3
    <3>2. 1 \in DOMAIN t
      BY <3>1, NAssumption, SMT
    <3>3. /\ Len(decisionSteps) + 1 \in DOMAIN decisionSteps'
          /\ decisionSteps'[Len(decisionSteps) + 1] = t[1]
      BY <1>2, <3>1, <3>2, SMT
    <3>4. t[1].step = "Proposed" /\ t[1].height = h
      BY <3>1, <3>2, SMT DEF Proposed
    <3>. QED
      BY <3>3, <3>4 DEF Announced
  <2>7. KnowledgeKept
    <3>1. \A k : Pending(k) => k = h \/ Pending(k)'
      BY <1>1, <2>0 DEF Pending
    <3>. QED
      BY <1>1, <2>4, <2>6, <3>1 DEF KnowledgeKept, AnnouncementsKept, Known
  <2>8. ASSUME NEW m, InNetwork(m)'
        PROVE  InNetwork(m) \/ m = Proposal(h, v) \/ m = ProposedValue(h, v)
    <3>1. PICK i \in DOMAIN network' : network'[i].payload = m
      BY <2>8 DEF InNetwork
    <3>2. /\ ProposalEnvelopes(h, v) \in Seq({ProposalEnvelopes(h, v)[j] : j \in 1..2*N})
          /\ \A j \in DOMAIN ProposalEnvelopes(h, v) :
                ProposalEnvelopes(h, v)[j].payload \in {Proposal(h, v), ProposedValue(h, v)}
      <4>1. DOMAIN ProposalEnvelopes(h, v) = 1..2*N /\ 2*N \in Nat
        BY NAssumption, SMT DEF ProposalEnvelopes
      <4>2. \A j \in 1..2*N : ProposalEnvelopes(h, v)[j]
               = Envelope(current, (j - 1) \div 2,
                          IF j % 2 = 1 THEN Proposal(h, v) ELSE ProposedValue(h, v))
        BY DEF ProposalEnvelopes
      <4>3. ProposalEnvelopes(h, v) \in [1..2*N -> {ProposalEnvelopes(h, v)[j] : j \in 1..2*N}]
        BY <4>1 DEF ProposalEnvelopes
      <4>4. \A src, dst, x : Envelope(src, dst, x).payload = x
        BY DEF Envelope
      <4>5. \A j \in 1..2*N :
               ProposalEnvelopes(h, v)[j].payload \in {Proposal(h, v), ProposedValue(h, v)}
        BY <4>2, <4>4, SMT
      <4>. QED
        BY <4>1, <4>3, <4>5, SMT
    <3>3. \/ i \in DOMAIN network /\ network'[i] = network[i]
          \/ /\ i - Len(network) \in DOMAIN ProposalEnvelopes(h, v)
             /\ network'[i] = ProposalEnvelopes(h, v)[i - Len(network)]
      BY <1>2, <2>1, <3>1, <3>2, SMT
    <3>. QED
      BY <3>1, <3>2, <3>3 DEF InNetwork
  <2>9. \A m : m = Proposal(h, v) \/ m = ProposedValue(h, v) => MessageAnnounced(m)'
    BY <2>6, SMT DEF Proposal, ProposedValue, MessageAnnounced, VoteAnnounced
  <2>. QED
    BY <1>1, <1>4, <2>1, <2>4, <2>5, <2>7, <2>8, <2>9, HandlerKeeps
<1>9. CASE HandleDecide(e) /\ ~Running("consumer")
  <2>1. Ends("simulator", "no consumer") /\ UNCHANGED decisionSteps
    BY <1>9 DEF HandleDecide
  <2>. QED
    BY <1>0, <2>1, StepsUnchanged, SimulatorEnds DEF Panics
<1>10. CASE HandleDecide(e) /\ Running("consumer")
  <2> DEFINE d == Finalized(current, e.height, e.id)
  <2>1. /\ e.effect = "Decide" /\ UNCHANGED status
        /\ decisionSteps' = Append(decisionSteps, d)
        /\ SendToSelf(StartHeight(NextHeight(e.height)))
    BY <1>10 DEF HandleDecide
  <2>2. d \in DecisionSteps
    BY <1>2, <2>1, EffectFields, StepTypes
  <2>3. d.height = e.height /\ Announced(e.height)
    BY <1>3, <2>1 DEF EffectAnnounced, Finalized
  <2> HIDE DEF d
  <2>4. /\ <<d>> \in Seq(DecisionSteps) /\ decisionSteps' = decisionSteps \o <<d>>
        /\ \A i \in DOMAIN <<d>> : <<d>>[i] = d
    BY <1>2, <2>1, <2>2, SMT
  <2>5. AnnouncementsKept
    BY <1>0, <2>4, AnnouncedExtend
  <2>6. ProposedBeforeFinalized'
    BY <1>0, <2>3, <2>4, ProposedBeforeExtend
  <2>7. KnowledgeKept
    BY <1>1, <2>1, <2>5, PendingKept
  <2>8. \A m : m = StartHeight(NextHeight(e.height)) => MessageAnnounced(m)'
    BY SMT DEF StartHeight, MessageAnnounced, VoteAnnounced
  <2>9. \A m : InNetwork(m)' => InNetwork(m) \/ MessageAnnounced(m)'
    BY <1>0, <2>1, <2>8, SendToSelfAdds
  <2>. QED
    BY <1>1, <1>4, <2>1, <2>5, <2>6, <2>7, <2>9, HandlerKeeps
<1>11. CASE HandleGetValue(e) /\ proposals = <<>>
  <2>1. Ends("simulator", "no value") /\ UNCHANGED decisionSteps
    BY <1>11 DEF HandleGetValue
  <2>. QED
    BY <1>0, <2>1, StepsUnchanged, SimulatorEnds DEF Panics
<1>12. CASE HandleGetValue(e) /\ proposals # <<>>
  <2>1. /\ e.effect = "GetValue" /\ UNCHANGED <<status, decisionSteps>>
        /\ SendToSelf(Propose(e.height, Head(proposals)))
    BY <1>12 DEF HandleGetValue
  <2>2. AnnouncementsKept /\ ProposedBeforeFinalized'
    BY <1>0, <2>1, StepsUnchanged
  <2>3. KnowledgeKept
    BY <1>1, <2>1, <2>2, PendingKept
  <2>4. \A m : m = Propose(e.height, Head(proposals)) => MessageAnnounced(m)'
    BY SMT DEF Propose, MessageAnnounced, VoteAnnounced
  <2>5. \A m : InNetwork(m)' => InNetwork(m) \/ MessageAnnounced(m)'
    BY <1>0, <2>1, <2>4, SendToSelfAdds
  <2>. QED
    BY <1>1, <1>4, <2>1, <2>2, <2>3, <2>5, HandlerKeeps
<1>. QED
  BY <1>5, <1>6, <1>7, <1>8, <1>9, <1>10, <1>11, <1>12

-----------------------------------------------------------------------------
(* The step in which a peer processes a message.                            *)

\* Peer p processes m while no effect is left, so that all that is known has been
\* announced; what becomes known is announced or, to p itself, pending.
InputProcessed(p, st, m, new) ==
    /\ AnnouncementsKept /\ KnowledgeKept
    /\ StateAnnounced(p, st) /\ MessageAnnounced(m)
    /\ effects' = EffectsOf(p, st, m, new) /\ current' = p

\* A proposal p holds came from the network or is being published by p itself.
LEMMA NewProposalKnown ==
    ASSUME NEW p \in Peers, NEW st \in PeerStates, NEW m \in Inputs,
           NEW new \in Outcomes(p, st, m),
           InputProcessed(p, st, m, new)
    PROVE  new.proposal # {} => Known(new.height, p)'
<1>a. /\ AnnouncementsKept /\ KnowledgeKept
      /\ StateAnnounced(p, st) /\ MessageAnnounced(m)
      /\ effects' = EffectsOf(p, st, m, new) /\ current' = p
  BY DEF InputProcessed
<1>b. /\ new \in PeerStates
      /\ m.type = "StartHeight" => new = StateAt(m.height, "propose")
      /\ m.type # "StartHeight" => InputResult(p, st, m, new)
  BY OutcomeFacts
<1>1. CASE m.type = "StartHeight"
  BY <1>b, <1>1, SMT DEF StateAt
<1>2. CASE m.type # "StartHeight" /\ new.proposal = st.proposal
  <2>1. new.height = st.height
    BY <1>b, <1>2 DEF InputResult
  <2>2. new.proposal # {} => Known(st.height, p)
    BY <1>a, <1>2 DEF StateAnnounced
  <2>. QED
    BY <1>a, <2>1, <2>2 DEF KnowledgeKept
<1>3. CASE m.type # "StartHeight" /\ new.proposal # st.proposal
  <2>1. /\ new.height = st.height /\ Accepted(st, m)
        /\ m.type \in {"Propose", "Proposal"}
    BY <1>b, <1>3 DEF InputResult
  <2>2. st.height = m.height
    BY <2>1 DEF Accepted, Current
  <2>3. CASE m.type = "Proposal"
    <3>1. Announced(m.height)
      BY <1>a, <2>3 DEF MessageAnnounced
    <3>. QED
      BY <1>a, <2>1, <2>2, <3>1 DEF AnnouncementsKept, Known
  <2>4. CASE m.type = "Propose"
    <3>1. Publish(Proposal(m.height, m.value)) \in effects'
      BY <1>a, <2>1, <2>4, ProposePublishes DEF Accepted
    <3>2. Pending(m.height)'
      BY <3>1 DEF Pending, Publish, Proposal
    <3>. QED
      BY <1>a, <2>1, <2>2, <3>2 DEF Known
  <2>. QED
    BY <2>1, <2>3, <2>4
<1>. QED
  BY <1>1, <1>2, <1>3

\* A vote for a value is cast by p on a proposal it holds, or came from the network.
LEMMA NewVoteKnown ==
    ASSUME NEW p \in Peers, NEW st \in PeerStates, NEW m \in Inputs,
           NEW new \in Outcomes(p, st, m),
           InputProcessed(p, st, m, new),
           NEW q \in Peers, NEW id \in Int, id >= 0,
           VoteOrigin(p, m, new, q, id), m.type # "StartHeight", Accepted(st, m)
    PROVE  Known(new.height, q)'
<1>a. /\ AnnouncementsKept /\ KnowledgeKept
      /\ StateAnnounced(p, st) /\ MessageAnnounced(m)
      /\ effects' = EffectsOf(p, st, m, new) /\ current' = p
  BY DEF InputProcessed
<1>b. /\ new \in PeerStates
      /\ m.type = "StartHeight" => new = StateAt(m.height, "propose")
      /\ m.type # "StartHeight" => InputResult(p, st, m, new)
  BY OutcomeFacts
<1>1. CASE q = p /\ new.proposal # {}
  BY NewProposalKnown, <1>1
<1>2. CASE m.type = "Vote" /\ q = m.voter /\ id = m.id
  <2>1. Known(m.height, q)
    BY <1>a, <1>2, SMT DEF MessageAnnounced, VoteAnnounced
  <2>2. m.height = new.height
    BY <1>b, <1>2 DEF Accepted, Current, InputResult
  <2>. QED
    BY <1>a, <2>1, <2>2 DEF KnowledgeKept
<1>. QED
  BY <1>1, <1>2, SMT DEF VoteOrigin, Nil

\* Every vote for a value that p holds is for a height known to its voter.
LEMMA VotesKnown ==
    ASSUME NEW p \in Peers, NEW st \in PeerStates, NEW m \in Inputs,
           NEW new \in Outcomes(p, st, m),
           InputProcessed(p, st, m, new),
           NEW q \in Peers, new.prevotes[q] >= 0 \/ new.precommits[q] >= 0
    PROVE  Known(new.height, q)'
<1>a. /\ AnnouncementsKept /\ KnowledgeKept
      /\ StateAnnounced(p, st) /\ MessageAnnounced(m)
      /\ effects' = EffectsOf(p, st, m, new) /\ current' = p
  BY DEF InputProcessed
<1>b. /\ new \in PeerStates
      /\ m.type = "StartHeight" => new = StateAt(m.height, "propose")
      /\ m.type # "StartHeight" => InputResult(p, st, m, new)
  BY OutcomeFacts
<1>1. m.type # "StartHeight"
  BY <1>b, SMT DEF StateAt, NoVote
<1>2. new.height = st.height
  BY <1>b, <1>1 DEF InputResult
<1>3. CASE \/ new.prevotes[q] >= 0 /\ st.prevotes[q] = new.prevotes[q]
           \/ new.precommits[q] >= 0 /\ st.precommits[q] = new.precommits[q]
  <2>1. Known(st.height, q)
    BY <1>a, <1>3 DEF StateAnnounced
  <2>. QED
    BY <1>a, <1>2, <2>1 DEF KnowledgeKept
<1>4. CASE new.prevotes[q] >= 0 /\ st.prevotes[q] # new.prevotes[q]
  <2>1. /\ new.prevotes[q] \in Int /\ VoteOrigin(p, m, new, q, new.prevotes[q])
        /\ Accepted(st, m)
    BY <1>b, <1>1, <1>4 DEF InputResult, PeerStates
  <2>. QED
    BY NewVoteKnown, <1>1, <1>4, <2>1
<1>5. CASE new.precommits[q] >= 0 /\ st.precommits[q] # new.precommits[q]
  <2>1. /\ new.precommits[q] \in Int /\ VoteOrigin(p, m, new, q, new.precommits[q])
        /\ Accepted(st, m)
    BY <1>b, <1>1, <1>5 DEF InputResult, PeerStates
  <2>. QED
    BY NewVoteKnown, <1>1, <1>5, <2>1
<1>. QED
  BY <1>3, <1>4, <1>5

\* A commit needs the precommit of another peer, to whom the height was announced.
LEMMA CommitAnnounced ==
    ASSUME NEW p \in Peers, NEW st \in PeerStates, NEW m \in Inputs,
           NEW new \in Outcomes(p, st, m),
           InputProcessed(p, st, m, new)
    PROVE  new.step = "commit" => Announced(new.height)'
<1>a. /\ AnnouncementsKept /\ KnowledgeKept
      /\ StateAnnounced(p, st) /\ MessageAnnounced(m)
      /\ effects' = EffectsOf(p, st, m, new) /\ current' = p
  BY DEF InputProcessed
<1>b. /\ new \in PeerStates
      /\ m.type = "StartHeight" => new = StateAt(m.height, "propose")
      /\ m.type # "StartHeight" => InputResult(p, st, m, new)
  BY OutcomeFacts
<1> SUFFICES ASSUME new.step = "commit" PROVE Announced(new.height)'
  OBVIOUS
<1>1. m.type # "StartHeight"
  BY <1>b, SMT DEF StateAt
<1>2. new.height = st.height
  BY <1>b, <1>1 DEF InputResult
<1>3. CASE st.step = "commit"
  BY <1>a, <1>2, <1>3 DEF StateAnnounced, AnnouncementsKept
<1>4. CASE st.step # "commit"
  <2>1. new.proposal # {}
    BY <1>b, <1>1, <1>4 DEF InputResult
  <2>2. PICK q \in Peers : q # p /\ new.precommits[q] = ProposedId(new)
    BY <1>b, <1>1, <1>4 DEF InputResult
  <2>3. new.precommits[q] >= 0
    BY <1>b, <2>1, <2>2, ProposedIdType, SMT
  <2>4. Known(new.height, q)'
    BY VotesKnown, <2>3
  <2>. QED
    BY <1>a, <2>2, <2>4 DEF Known
<1>. QED
  BY <1>3, <1>4

\* The votes p publishes and what it decides are for announced or pending heights.
LEMMA NewEffectsAnnounced ==
    ASSUME NEW p \in Peers, NEW st \in PeerStates, NEW m \in Inputs,
           NEW new \in Outcomes(p, st, m),
           InputProcessed(p, st, m, new),
           NEW e \in effects'
    PROVE  EffectAnnounced(e)'
<1>a. /\ AnnouncementsKept /\ KnowledgeKept
      /\ StateAnnounced(p, st) /\ MessageAnnounced(m)
      /\ effects' = EffectsOf(p, st, m, new) /\ current' = p
  BY DEF InputProcessed
<1>b. /\ new \in PeerStates
      /\ m.type = "StartHeight" => new = StateAt(m.height, "propose")
      /\ m.type # "StartHeight" => InputResult(p, st, m, new)
  BY OutcomeFacts
<1>1. e \in EffectsOf(p, st, m, new)
  BY <1>a
<1>2. CASE \/ \E k \in TimeoutKinds : e = ScheduleTimeout(k)
           \/ e = GetValue(m.height)
           \/ e = Publish(Proposal(m.height, m.value))
  BY <1>2, SMT DEF ScheduleTimeout, GetValue, Publish, Proposal, EffectAnnounced,
              VoteAnnounced
<1>3. CASE e = Publish(Vote("Prevote", new.height, new.prevotes[p], p))
  <2>1. new.prevotes[p] >= 0 => Known(new.height, p)'
    BY <1>a, VotesKnown
  <2>2. new.prevotes[p] \in Int
    BY <1>a, <1>b DEF PeerStates
  <2>. QED
    BY <1>3, <2>1, <2>2, SMT DEF Publish, Vote, EffectAnnounced, VoteAnnounced
<1>4. CASE e = Publish(Vote("Precommit", new.height, new.precommits[p], p))
  <2>1. new.precommits[p] >= 0 => Known(new.height, p)'
    BY <1>a, VotesKnown
  <2>2. new.precommits[p] \in Int
    BY <1>a, <1>b DEF PeerStates
  <2>. QED
    BY <1>4, <2>1, <2>2, SMT DEF Publish, Vote, EffectAnnounced, VoteAnnounced
<1>5. CASE st.step = "commit" /\ e = Decide(st.height, ProposedId(st))
  <2>1. Announced(st.height)'
    BY <1>a, <1>5 DEF StateAnnounced, AnnouncementsKept
  <2>. QED
    BY <1>5, <2>1 DEF Decide, EffectAnnounced
<1>. QED
  BY <1>1, <1>2, <1>3, <1>4, <1>5, EffectKinds

\* Taking an envelope off the network and processing it.
LEMMA SafeStep ==
    ASSUME SafeInv, Step, UNCHANGED consumerVars
    PROVE  AnnouncedFirst' /\ ProposedBeforeFinalized' /\ ConsumerFindsProposal'
<1>0. /\ TypeInv /\ AnnouncedFirst /\ ConsumerFindsProposal
      /\ UNCHANGED <<decisions, decisionSteps>>
      /\ Running("simulator") /\ effects = {} /\ network # <<>>
      /\ network' = Tail(network)
  BY DEF SafeInv, consumerVars, Step, channels
<1>1. AnnouncementsKept /\ ProposedBeforeFinalized'
  BY <1>0, StepsUnchanged
<1>2. KnowledgeKept
  BY <1>0, <1>1 DEF KnowledgeKept, AnnouncementsKept, Known, Pending
<1>3. \A h, q : Known(h, q) => Announced(h)
  BY <1>0 DEF Known, Pending
<1>4. PICK p, m : p = Head(network).destination /\ m = Head(network).payload
  OBVIOUS
<1>5. network \in Seq(Envelopes) /\ states \in [Peers -> PeerStates]
  BY <1>0 DEF TypeInv, ChainTypeOK, SimTypeOK, AppTypeOK
<1>6. Head(network) \in Envelopes /\ Head(network) = network[1] /\ 1 \in DOMAIN network
  BY <1>0, <1>5, SMT
<1>7. p \in Peers /\ m \in Inputs /\ InNetwork(m)
  BY <1>4, <1>6 DEF Envelopes, InNetwork
<1>8. \A x : InNetwork(x)' => InNetwork(x)
  BY <1>0, <1>5, SMT DEF InNetwork
<1>9. PICK st : st = states[p]
  OBVIOUS
<1>10. st \in PeerStates /\ StateAnnounced(p, st) /\ MessageAnnounced(m)
  BY <1>0, <1>5, <1>7, <1>9, Decompose
<1>11. CASE Ends("simulator", "process error")
  BY <1>1, <1>11, SimulatorEnds DEF Panics
<1>12. ASSUME NEW new \in Outcomes(p, st, m),
              states' = [states EXCEPT ![p] = new],
              effects' = EffectsOf(p, st, m, new),
              current' = p, UNCHANGED status
       PROVE  AnnouncedFirst' /\ ConsumerFindsProposal'
  <2>1. InputProcessed(p, st, m, new)
    BY <1>1, <1>2, <1>10, <1>12 DEF InputProcessed
  <2>2. StateAnnounced(p, new)'
    BY <1>7, <1>10, <1>12, <2>1, NewProposalKnown, VotesKnown, CommitAnnounced
       DEF StateAnnounced
  <2>3. \A e \in effects' : EffectAnnounced(e)'
    BY <1>7, <1>10, <1>12, <2>1, NewEffectsAnnounced
  <2>4. ASSUME NEW q \in Peers, NEW s, states'[q] = s PROVE StateAnnounced(q, s)'
    <3>1. CASE q = p
      BY <1>5, <1>7, <1>12, <2>2, <2>4, <3>1
    <3>2. CASE q # p
      <4>1. s = states[q]
        BY <1>5, <1>12, <2>4, <3>2
      <4>2. StateAnnounced(q, s)
        BY <1>0, <4>1, Decompose
      <4>. QED
        BY <1>1, <1>2, <4>2, FactsKept
    <3>. QED
      BY <3>1, <3>2
  <2>5. \A x : InNetwork(x)' => MessageAnnounced(x)'
    BY <1>0, <1>1, <1>2, <1>8, Decompose, FactsKept
  <2>6. ConsumerFindsProposal'
    BY <1>0, <1>12 DEF ConsumerFindsProposal
  <2>. QED
    BY <2>3, <2>4, <2>5, <2>6, Recompose
<1>13. \/ Ends("simulator", "process error")
       \/ \E new \in Outcomes(p, st, m) :
             /\ states' = [states EXCEPT ![p] = new]
             /\ effects' = EffectsOf(p, st, m, new)
             /\ current' = p /\ UNCHANGED status
  BY <1>4, <1>9 DEF Step
<1>. QED
  BY <1>1, <1>11, <1>12, <1>13

\* At the start nothing is known and nothing has been decided.
LEMMA SafeInit == ChainInit => SafeInv
<1> SUFFICES ASSUME ChainInit PROVE SafeInv
  OBVIOUS
<1>1. /\ decisionSteps = <<>> /\ status = [t \in Threads |-> "running"]
      /\ effects = {} /\ network = InitialEnvelopes
      /\ states = [p \in Peers |-> StateAt(0, "unstarted")]
  BY DEF ChainInit, ChannelsInit, SimInit, AppInit
<1>2. ProposedBeforeFinalized /\ ConsumerFindsProposal
  BY <1>1, SMT DEF ProposedBeforeFinalized, ConsumerFindsProposal, Threads
<1>3. \A i \in DOMAIN network : MessageAnnounced(network[i].payload)
  <2>1. \A i \in 1..N : network[i].payload.type = "StartHeight"
    BY <1>1 DEF InitialEnvelopes, Envelope, StartHeight
  <2>2. DOMAIN network = 1..N
    BY <1>1 DEF InitialEnvelopes
  <2>. QED
    BY <2>1, <2>2 DEF MessageAnnounced, VoteAnnounced
<1>4. \A p \in Peers : StateAnnounced(p, states[p])
  BY <1>1, SMT DEF StateAnnounced, StateAt, NoVote
<1>. QED
  BY <1>1, <1>2, <1>3, <1>4, TypeInit DEF SafeInv, AnnouncedFirst

\* Every step of every thread preserves the invariant.
LEMMA SafeNext == SafeInv /\ [ChainNext]_chainVars => SafeInv'
<1> SUFFICES ASSUME SafeInv, [ChainNext]_chainVars PROVE SafeInv'
  OBVIOUS
<1>0. TypeInv' /\ status \in [Threads -> Statuses] /\ ConsumerFindsProposal
  BY TypeNext DEF SafeInv, TypeInv, ChainTypeOK, ChannelsTypeOK
<1>1. SUFFICES AnnouncedFirst' /\ ProposedBeforeFinalized' /\ ConsumerFindsProposal'
  BY <1>0 DEF SafeInv
\* A step that leaves the simulator, the consumer's map and its channel alone.
<1>2. ASSUME UNCHANGED <<simVars, decisions, decisionSteps>>,
             Running("simulator")' => Running("simulator"), ConsumerFindsProposal'
      PROVE  AnnouncedFirst' /\ ProposedBeforeFinalized' /\ ConsumerFindsProposal'
  BY <1>2, StepsUnchanged, ElsewhereKeeps
<1>3. ASSUME NEW t \in Threads, NEW s, s \notin {"running", "no proposal"}, Ends(t, s)
      PROVE  /\ Running("simulator")' => Running("simulator")
             /\ ConsumerFindsProposal'
  BY <1>0, <1>3 DEF Ends, Running, ConsumerFindsProposal, Threads
<1>4. ASSUME UNCHANGED status
      PROVE  /\ Running("simulator")' => Running("simulator")
             /\ ConsumerFindsProposal'
  BY <1>0, <1>4 DEF Running, ConsumerFindsProposal
<1>5. CASE Builder
  <2>1. UNCHANGED <<simVars, decisions, decisionSteps>>
    BY <1>5 DEF Builder, BuilderNext, CollectTransactions, SendValue, SendFails,
                channels, consumerVars
  <2>2. UNCHANGED status \/ Ends("builder", "no simulator")
    BY <1>5 DEF Builder, BuilderNext, CollectTransactions, SendValue, SendFails
  <2>. QED
    BY <1>2, <1>3, <1>4, <2>1, <2>2 DEF Threads
<1>6. CASE Simulate
  <2>1. CASE Step
    BY <1>6, <2>1, SafeStep DEF Simulate
  <2>2. CASE HandleEffect /\ UNCHANGED states
    BY <1>6, <2>2, SafeHandler DEF Simulate, HandleEffect
  <2>. QED
    BY <1>6, <2>1, <2>2 DEF Simulate, SimNext
<1>7. CASE Consuming
  <2>1. CASE Consume
    <3>1. AnnouncementsKept /\ ProposedBeforeFinalized' /\ ConsumerFindsProposal'
      BY <2>1, ConsumeKeeps
    <3>2. \/ UNCHANGED status
          \/ Ends("consumer", "no task") \/ Ends("consumer", "no proposal")
      BY <2>1 DEF Consume, OnProposed, OnFinalized, OnFinalizedElsewhere
    <3>3. Running("simulator")' => Running("simulator")
      BY <1>0, <3>2 DEF Ends, Running, Threads
    <3>4. UNCHANGED simVars
      BY <1>7 DEF Consuming
    <3>. QED
      BY <3>1, <3>3, <3>4, ElsewhereKeeps
  <2>2. CASE StopConsuming
    <3>1. /\ UNCHANGED <<simVars, decisions, decisionSteps>>
          /\ Ends("consumer", "stopped")
      BY <1>7, <2>2 DEF StopConsuming, Consuming, channels, consumerVars
    <3>. QED
      BY <1>2, <1>3, <3>1 DEF Threads
  <2>. QED
    BY <1>7, <2>1, <2>2 DEF Consuming, ConsumerNext
<1>8. CASE PoolChanges
  BY <1>2, <1>4, <1>8 DEF PoolChanges, consumerVars
<1>9. CASE TaskEnds
  <2>1. /\ UNCHANGED <<simVars, decisions, decisionSteps>>
        /\ Ends("task", "stopped")
    BY <1>9 DEF TaskEnds, channels, consumerVars
  <2>. QED
    BY <1>2, <1>3, <2>1 DEF Threads
<1>10. CASE ConsumerCancelled
  <2>1. /\ UNCHANGED <<simVars, decisions, decisionSteps>>
        /\ Ends("consumer", "cancelled")
    BY <1>10 DEF ConsumerCancelled, channels, consumerVars
  <2>. QED
    BY <1>2, <1>3, <2>1 DEF Threads
<1>11. CASE UNCHANGED chainVars
  <2>1. UNCHANGED <<simVars, decisions, decisionSteps>> /\ UNCHANGED status
    BY <1>11 DEF chainVars, channels, consumerVars
  <2>. QED
    BY <1>2, <1>4, <2>1
<1>. QED
  BY <1>5, <1>6, <1>7, <1>8, <1>9, <1>10, <1>11 DEF ChainNext

\* The inductive invariant: announcements precede what depends on them.
THEOREM AnnouncementsComeFirst == ChainSpec => []AnnouncedFirst
<1>1. SafeInv => AnnouncedFirst
  BY DEF SafeInv
<1>. QED
  BY <1>1, SafeInit, SafeNext, PTL DEF ChainSpec

\* In the channel to the consumer the announcement of a proposal precedes every
\* decision of its height.
THEOREM ProposalPrecedesDecision == ChainSpec => []ProposedBeforeFinalized
<1>1. SafeInv => ProposedBeforeFinalized
  BY DEF SafeInv
<1>. QED
  BY <1>1, SafeInit, SafeNext, PTL DEF ChainSpec

\* The unwrap of the consumer's lookup never panics.
THEOREM LookupNeverFails == ChainSpec => []ConsumerFindsProposal
<1>1. SafeInv => ConsumerFindsProposal
  BY DEF SafeInv
<1>. QED
  BY <1>1, SafeInit, SafeNext, PTL DEF ChainSpec

\* A value is the one that the builder made under its identifier.
Genuine(v, b) == v.id + 1 \in DOMAIN b /\ b[v.id + 1] = v

NetGenuine(nw, b) ==
    \A i \in DOMAIN nw : Carries(nw[i].payload) => Genuine(nw[i].payload.value, b)

EffectsGenuine(es, b) ==
    \A e \in es : e.effect = "Publish" /\ e.msg.type # "Vote" => Genuine(e.msg.value, b)

StepGenuine(d, b) ==
    /\ d.step = "Proposed" => Genuine(d.value, b) /\ d.value.id = d.height
    /\ d.step = "Finalized" => d.id = d.height

StepsGenuine(ds, b) == \A i \in DOMAIN ds : StepGenuine(ds[i], b)

Sources ==
    /\ Len(built) = valueCounter + (IF staged = {} THEN 0 ELSE 1)
    /\ \A v \in staged : Genuine(v, built)
    /\ \A i \in DOMAIN proposals : Genuine(proposals[i], built)
    /\ NetGenuine(network, built)
    /\ EffectsGenuine(effects, built)
    /\ StepsGenuine(decisionSteps, built)
    /\ \A h \in DOMAIN decisions : Genuine(decisions[h], built) /\ decisions[h].id = h

\* The decisions of peer 0 are due from height `done` up to height n - 1.
IsTurn(d) == d.step = "Finalized" /\ d.peer = 0

Due(ds, done, n) ==
    /\ done <= n
    /\ \A j \in DOMAIN ds : IsTurn(ds[j]) => done <= ds[j].height /\ ds[j].height < n
    /\ \A i, j \in DOMAIN ds :
          IsTurn(ds[i]) /\ IsTurn(ds[j]) /\ i < j => ds[i].height < ds[j].height
    /\ \A h \in done..n-1 : \E j \in DOMAIN ds : IsTurn(ds[j]) /\ ds[j].height = h

RelayInv ==
    /\ Sources
    /\ Running("consumer") => Due(decisionSteps, Len(relayed), Len(log[0]))
    /\ RelayedIsFinalized

-----------------------------------------------------------------------------
(* The channel to the consumer. *)

\* A step that is no decision of peer 0 is taken off the channel.
LEMMA DueTail ==
    ASSUME NEW ds \in Seq(DecisionSteps), ds # <<>>, NEW done \in Nat, NEW n \in Nat,
           Due(ds, done, n), ~IsTurn(ds[1])
    PROVE  Due(Tail(ds), done, n)
<1>1. /\ Len(ds) \in Nat /\ Len(ds) >= 1 /\ DOMAIN ds = 1..Len(ds)
      /\ DOMAIN Tail(ds) = 1..(Len(ds) - 1)
      /\ \A i \in 1..(Len(ds) - 1) : Tail(ds)[i] = ds[i + 1]
  BY SMT
<1>2. \A i \in DOMAIN Tail(ds) : i + 1 \in DOMAIN ds /\ Tail(ds)[i] = ds[i + 1] /\ i \in Int
  BY <1>1, SMT
<1>3. \A j \in DOMAIN ds : j = 1 \/ (j - 1 \in DOMAIN Tail(ds) /\ Tail(ds)[j - 1] = ds[j])
  BY <1>1, SMT
<1>4. \A j \in DOMAIN Tail(ds) :
         IsTurn(Tail(ds)[j]) => done <= Tail(ds)[j].height /\ Tail(ds)[j].height < n
  BY <1>2 DEF Due
<1>5. ASSUME NEW i \in DOMAIN Tail(ds), NEW j \in DOMAIN Tail(ds),
             IsTurn(Tail(ds)[i]), IsTurn(Tail(ds)[j]), i < j
      PROVE  Tail(ds)[i].height < Tail(ds)[j].height
  <2>1. i + 1 < j + 1
    BY <1>2, <1>5, SMT
  <2>. QED
    BY <1>2, <1>5, <2>1 DEF Due
<1>6. ASSUME NEW h \in done..n-1
      PROVE  \E j \in DOMAIN Tail(ds) : IsTurn(Tail(ds)[j]) /\ Tail(ds)[j].height = h
  <2>1. PICK j \in DOMAIN ds : IsTurn(ds[j]) /\ ds[j].height = h
    BY DEF Due
  <2>2. j - 1 \in DOMAIN Tail(ds) /\ Tail(ds)[j - 1] = ds[j]
    BY <1>3, <2>1
  <2>. QED
    BY <2>1, <2>2
<1>. QED
  BY <1>4, <1>5, <1>6 DEF Due

\* The first decision of peer 0 in the channel is that of the next height to relay.
LEMMA DueTurn ==
    ASSUME NEW ds \in Seq(DecisionSteps), ds # <<>>, NEW done \in Nat, NEW n \in Nat,
           Due(ds, done, n), IsTurn(ds[1])
    PROVE  /\ ds[1].height = done /\ done < n
           /\ Due(Tail(ds), done + 1, n)
<1>1. /\ Len(ds) \in Nat /\ Len(ds) >= 1 /\ DOMAIN ds = 1..Len(ds)
      /\ DOMAIN Tail(ds) = 1..(Len(ds) - 1)
      /\ \A i \in 1..(Len(ds) - 1) : Tail(ds)[i] = ds[i + 1]
  BY SMT
<1>2. \A i \in DOMAIN Tail(ds) : /\ i + 1 \in DOMAIN ds /\ Tail(ds)[i] = ds[i + 1]
                                 /\ i \in Int /\ 1 < i + 1
  BY <1>1, SMT
<1>3. \A j \in DOMAIN ds : \/ j = 1
                           \/ 1 < j /\ j - 1 \in DOMAIN Tail(ds) /\ Tail(ds)[j - 1] = ds[j]
  BY <1>1, SMT
<1>4. 1 \in DOMAIN ds
  BY <1>1, SMT
<1>5. \A j \in DOMAIN ds : IsTurn(ds[j]) => ds[j].height \in Nat
  <2>1. ASSUME NEW j \in DOMAIN ds PROVE ds[j] \in DecisionSteps
    BY <1>1, ElementOfSeq
  <2>. QED
    BY <2>1 DEF DecisionSteps
<1>6. done <= ds[1].height /\ ds[1].height < n
  BY <1>4 DEF Due
<1>7. done \in done..n-1
  BY <1>4, <1>5, <1>6, SMT
<1>8. PICK j \in DOMAIN ds : IsTurn(ds[j]) /\ ds[j].height = done
  BY <1>7 DEF Due
<1>9. 1 < j => ds[1].height < done
  BY <1>4, <1>8 DEF Due
<1>10. ds[1].height = done
  BY <1>3, <1>4, <1>5, <1>6, <1>8, <1>9, SMT
<1>11. ASSUME NEW i \in DOMAIN Tail(ds), IsTurn(Tail(ds)[i])
       PROVE  done + 1 <= Tail(ds)[i].height /\ Tail(ds)[i].height < n
  <2>1. ds[1].height < ds[i + 1].height /\ ds[i + 1].height < n
    BY <1>2, <1>4, <1>11 DEF Due
  <2>. QED
    BY <1>2, <1>5, <1>10, <1>11, <2>1, SMT
<1>12. ASSUME NEW i \in DOMAIN Tail(ds), NEW k \in DOMAIN Tail(ds),
              IsTurn(Tail(ds)[i]), IsTurn(Tail(ds)[k]), i < k
       PROVE  Tail(ds)[i].height < Tail(ds)[k].height
  <2>1. i + 1 < k + 1
    BY <1>2, <1>12, SMT
  <2>. QED
    BY <1>2, <1>12, <2>1 DEF Due
<1>13. ASSUME NEW h \in (done + 1)..n-1
       PROVE  \E k \in DOMAIN Tail(ds) : IsTurn(Tail(ds)[k]) /\ Tail(ds)[k].height = h
  <2>1. h \in done..n-1 /\ h # done
    BY SMT
  <2>2. PICK k \in DOMAIN ds : IsTurn(ds[k]) /\ ds[k].height = h
    BY <2>1 DEF Due
  <2>3. k - 1 \in DOMAIN Tail(ds) /\ Tail(ds)[k - 1] = ds[k]
    BY <1>3, <1>10, <2>1, <2>2
  <2>. QED
    BY <2>2, <2>3
<1>14. done + 1 <= n
  BY <1>7, SMT
<1>. QED
  BY <1>7, <1>10, <1>11, <1>12, <1>13, <1>14 DEF Due

\* Steps that are no decisions of peer 0 join the channel.
LEMMA DueConcat ==
    ASSUME NEW ds \in Seq(DecisionSteps), NEW more \in Seq(DecisionSteps),
           NEW done \in Nat, NEW n \in Nat, Due(ds, done, n),
           \A i \in DOMAIN more : ~IsTurn(more[i])
    PROVE  Due(ds \o more, done, n)
<1>1. /\ Len(ds) \in Nat /\ Len(more) \in Nat
      /\ DOMAIN ds = 1..Len(ds) /\ DOMAIN more = 1..Len(more)
      /\ DOMAIN (ds \o more) = 1..(Len(ds) + Len(more))
      /\ \A i \in 1..(Len(ds) + Len(more)) :
            (ds \o more)[i] = IF i <= Len(ds) THEN ds[i] ELSE more[i - Len(ds)]
  BY ConcatProperties, SMT
<1>2. \A i \in DOMAIN (ds \o more) :
         \/ i \in DOMAIN ds /\ (ds \o more)[i] = ds[i]
         \/ i - Len(ds) \in DOMAIN more /\ (ds \o more)[i] = more[i - Len(ds)]
  BY <1>1, SMT
<1>3. \A i \in DOMAIN (ds \o more) : IsTurn((ds \o more)[i]) =>
         i \in DOMAIN ds /\ (ds \o more)[i] = ds[i]
  BY <1>2
<1>4. \A i \in DOMAIN ds : i \in DOMAIN (ds \o more) /\ (ds \o more)[i] = ds[i]
  BY <1>1, SMT
<1>. QED
  BY <1>3, <1>4 DEF Due

\* Peer 0 decides the next height, or another peer decides.
LEMMA DueAppend ==
    ASSUME NEW ds \in Seq(DecisionSteps), NEW d \in DecisionSteps,
           NEW done \in Nat, NEW n \in Nat, Due(ds, done, n)
    PROVE  /\ ~IsTurn(d) => Due(Append(ds, d), done, n)
           /\ IsTurn(d) /\ d.height = n => Due(Append(ds, d), done, n + 1)
<1>1. PICK nx \in Seq(DecisionSteps) : nx = Append(ds, d)
  BY AppendProperties
<1>2. /\ Len(ds) \in Nat /\ DOMAIN ds = 1..Len(ds) /\ DOMAIN nx = 1..(Len(ds) + 1)
      /\ \A i \in 1..Len(ds) : nx[i] = ds[i]
      /\ nx[Len(ds) + 1] = d
  BY <1>1, SMT
<1>3. /\ \A i \in DOMAIN nx : \/ i \in DOMAIN ds /\ nx[i] = ds[i]
                              \/ i = Len(ds) + 1 /\ nx[i] = d
      /\ \A i \in DOMAIN ds : i \in DOMAIN nx /\ nx[i] = ds[i] /\ ~(Len(ds) + 1 < i)
      /\ Len(ds) + 1 \in DOMAIN nx /\ ~(Len(ds) + 1 < Len(ds) + 1)
  BY <1>2, SMT
<1>4. \A i \in DOMAIN ds : IsTurn(ds[i]) => ds[i].height \in Nat
  <2>1. ASSUME NEW i \in DOMAIN ds PROVE ds[i] \in DecisionSteps
    BY <1>2, ElementOfSeq
  <2>. QED
    BY <2>1 DEF DecisionSteps
<1>5. ASSUME ~IsTurn(d) PROVE Due(nx, done, n)
  BY <1>3, <1>5 DEF Due
<1>6. ASSUME IsTurn(d), d.height = n PROVE Due(nx, done, n + 1)
  <2>1. done <= n + 1
    BY SMT DEF Due
  <2>2. ASSUME NEW j \in DOMAIN nx, IsTurn(nx[j])
        PROVE  done <= nx[j].height /\ nx[j].height < n + 1
    BY <1>3, <1>4, <1>6, <2>2, SMT DEF Due
  <2>3. ASSUME NEW i \in DOMAIN nx, NEW j \in DOMAIN nx, IsTurn(nx[i]), IsTurn(nx[j]), i < j
        PROVE  nx[i].height < nx[j].height
    <3>1. CASE j \in DOMAIN ds
      BY <1>3, <2>3, <3>1 DEF Due
    <3>2. CASE j \notin DOMAIN ds
      BY <1>3, <1>6, <2>3, <3>2 DEF Due
    <3>. QED
      BY <3>1, <3>2
  <2>4. ASSUME NEW h \in done..(n + 1)-1
        PROVE  \E j \in DOMAIN nx : IsTurn(nx[j]) /\ nx[j].height = h
    <3>1. CASE h = n
      BY <1>3, <1>6, <3>1, SMT
    <3>2. CASE h # n
      <4>1. h \in done..n-1
        BY <3>2, SMT
      <4>2. PICK j \in DOMAIN ds : IsTurn(ds[j]) /\ ds[j].height = h
        BY <4>1 DEF Due
      <4>. QED
        BY <1>3, <4>2
    <3>. QED
      BY <3>1, <3>2
  <2>. QED
    BY <2>1, <2>2, <2>3, <2>4 DEF Due
<1>. QED
  BY <1>1, <1>5, <1>6

-----------------------------------------------------------------------------
(* The values on their way. *)

\* What is appended to a sequence is its only new element.
LEMMA AppendElements ==
    ASSUME NEW S, NEW s \in Seq(S), NEW x \in S
    PROVE  \A i \in DOMAIN Append(s, x) : \/ i \in DOMAIN s /\ Append(s, x)[i] = s[i]
                                          \/ Append(s, x)[i] = x
<1>1. /\ Len(s) \in Nat /\ DOMAIN s = 1..Len(s)
      /\ DOMAIN Append(s, x) = 1..(Len(s) + 1)
      /\ \A i \in 1..Len(s) : Append(s, x)[i] = s[i]
      /\ Append(s, x)[Len(s) + 1] = x
  BY SMT
<1>2. \A i \in 1..(Len(s) + 1) : i \in 1..Len(s) \/ i = Len(s) + 1
  BY <1>1, SMT
<1>. QED
  BY <1>1, <1>2

\* The elements of a concatenation are those of its parts.
LEMMA ConcatElements ==
    ASSUME NEW S, NEW s \in Seq(S), NEW t \in Seq(S)
    PROVE  \A i \in DOMAIN (s \o t) : \/ i \in DOMAIN s /\ (s \o t)[i] = s[i]
                                      \/ \E j \in DOMAIN t : (s \o t)[i] = t[j]
<1>1. /\ Len(s) \in Nat /\ Len(t) \in Nat /\ DOMAIN s = 1..Len(s) /\ DOMAIN t = 1..Len(t)
      /\ DOMAIN (s \o t) = 1..(Len(s) + Len(t))
      /\ \A i \in 1..(Len(s) + Len(t)) :
            (s \o t)[i] = IF i <= Len(s) THEN s[i] ELSE t[i - Len(s)]
  BY ConcatProperties, SMT
<1>2. \A i \in 1..(Len(s) + Len(t)) : IF i <= Len(s) THEN i \in DOMAIN s
                                      ELSE i - Len(s) \in DOMAIN t
  BY <1>1, SMT
<1>. QED
  BY <1>1, <1>2

\* The elements of a tail are elements of the sequence.
LEMMA TailElements ==
    ASSUME NEW S, NEW s \in Seq(S), s # <<>>
    PROVE  \A i \in DOMAIN Tail(s) : \E j \in DOMAIN s : Tail(s)[i] = s[j]
<1>1. /\ Len(s) \in Nat /\ Len(s) >= 1 /\ DOMAIN s = 1..Len(s)
      /\ DOMAIN Tail(s) = 1..(Len(s) - 1)
      /\ \A i \in 1..(Len(s) - 1) : Tail(s)[i] = s[i + 1]
  BY SMT
<1>2. \A i \in 1..(Len(s) - 1) : i + 1 \in 1..Len(s)
  BY <1>1, SMT
<1>. QED
  BY <1>1, <1>2

\* A value stays the one that was built under its identifier when more are built.
LEMMA GenuineKept ==
    ASSUME NEW b \in Seq(Values), NEW x \in Values
    PROVE  /\ \A v : Genuine(v, b) => Genuine(v, Append(b, x))
           /\ x.id = Len(b) => Genuine(x, Append(b, x))
<1>1. /\ Len(b) \in Nat /\ DOMAIN b = 1..Len(b) /\ DOMAIN Append(b, x) = 1..(Len(b) + 1)
      /\ \A i \in 1..Len(b) : Append(b, x)[i] = b[i]
      /\ Append(b, x)[Len(b) + 1] = x
  BY SMT
<1>2. \A i \in DOMAIN b : i \in DOMAIN Append(b, x) /\ Append(b, x)[i] = b[i]
  BY <1>1, SMT
<1>. QED
  BY <1>1, <1>2, SMT DEF Genuine

\* What the builder, the network and the consumer leave alone.
LEMMA SourcesKept ==
    ASSUME Sources, UNCHANGED <<builderVars, proposals, network, effects, decisionSteps,
                                decisions>>
    PROVE  Sources'
BY DEF Sources, builderVars

\* The builder makes a value, or sends the one it has made.
LEMMA SourcesBuilder ==
    ASSUME TypeInv, Sources, BuilderNext, UNCHANGED <<simVars, consumerVars>>
    PROVE  Sources'
<1>1. /\ valueCounter \in Nat /\ proposals \in Seq(Values) /\ staged \in SUBSET Values
      /\ built \in Seq(Values) /\ pool \in SUBSET Txs
  BY DEF TypeInv, ChainTypeOK, ChannelsTypeOK, BuilderTypeOK
<1>2. UNCHANGED <<network, effects, decisions>>
  BY DEF simVars, appVars, consumerVars
<1>3. CASE CollectTransactions
  <2>1. PICK x \in Values : x = [id |-> valueCounter, txs |-> pool] /\ x.id = valueCounter
    <3>1. [id |-> valueCounter, txs |-> pool] \in Values
      BY <1>1 DEF Values
    <3>. QED
      BY <3>1
  <2>2. /\ staged = {} /\ staged' = {x} /\ built' = Append(built, x)
        /\ UNCHANGED <<valueCounter, proposals, decisionSteps>>
    BY <1>3, <2>1 DEF CollectTransactions, channels
  <2>3. Len(built) = valueCounter
    BY <1>1, <2>2, SMT DEF Sources
  <2>4. PICK b \in Seq(Values) : b = built'
    BY <1>1, <2>2, AppendProperties
  <2>5. Genuine(x, b) /\ \A v : Genuine(v, built) => Genuine(v, b)
    BY <1>1, <2>1, <2>2, <2>3, <2>4, GenuineKept
  <2>6. Len(b) = valueCounter + 1
    BY <1>1, <2>2, <2>3, <2>4, AppendProperties
  <2>7. /\ \A i \in DOMAIN proposals : Genuine(proposals[i], b)
        /\ NetGenuine(network, b) /\ EffectsGenuine(effects, b)
        /\ StepsGenuine(decisionSteps, b)
        /\ \A h \in DOMAIN decisions : Genuine(decisions[h], b) /\ decisions[h].id = h
    BY <2>5 DEF Sources, NetGenuine, EffectsGenuine, StepsGenuine, StepGenuine
  <2>8. /\ staged' # {} /\ \A v \in staged' : Genuine(v, b)
    BY <2>2, <2>5
  <2>9. Len(built') = valueCounter' + (IF staged' = {} THEN 0 ELSE 1)
    BY <2>2, <2>4, <2>6, <2>8
  <2>. QED
    BY <1>2, <2>2, <2>4, <2>7, <2>8, <2>9 DEF Sources
<1>4. CASE SendValue
  <2>1. /\ staged' = {} /\ valueCounter' = valueCounter + 1
        /\ UNCHANGED <<built, decisionSteps>>
        /\ \E v \in staged : proposals' = Append(proposals, v)
    BY <1>4 DEF SendValue
  <2>2. PICK v \in Values : v \in staged /\ proposals' = Append(proposals, v)
    BY <1>1, <2>1
  <2>3. Len(built') = valueCounter' + (IF staged' = {} THEN 0 ELSE 1)
    BY <1>1, <2>1, <2>2, SMT DEF Sources
  <2>4. \A i \in DOMAIN proposals' : Genuine(proposals'[i], built)
    <3>1. \A i \in DOMAIN proposals' :
             \/ i \in DOMAIN proposals /\ proposals'[i] = proposals[i]
             \/ proposals'[i] = v
      BY <1>1, <2>2, AppendElements, SMT
    <3>. QED
      BY <2>2, <3>1 DEF Sources
  <2>. QED
    BY <1>2, <2>1, <2>3, <2>4 DEF Sources
<1>5. CASE SendFails
  BY <1>2, <1>5, SourcesKept DEF SendFails, channels
<1>. QED
  BY <1>3, <1>4, <1>5 DEF BuilderNext

\* The effects of an input carry no other value than the input.
LEMMA SourcesStep ==
    ASSUME TypeInv, Sources, Step, UNCHANGED <<builderVars, consumerVars>>
    PROVE  Sources'
<1>1. /\ effects = {} /\ network # <<>> /\ network' = Tail(network)
      /\ UNCHANGED <<proposals, decisionSteps>>
  BY DEF Step, channels
<1>2. network \in Seq(Envelopes)
  BY DEF TypeInv, ChainTypeOK, SimTypeOK, AppTypeOK
<1>3. Head(network) = network[1] /\ 1 \in DOMAIN network /\ network[1] \in Envelopes
  BY <1>1, <1>2, SMT
<1>4. PICK p, m : p = Head(network).destination /\ m = Head(network).payload
  OBVIOUS
<1>5. Carries(m) => Genuine(m.value, built)
  BY <1>3, <1>4 DEF Sources, NetGenuine
<1>6. \/ effects' = {}
      \/ \E new : effects' = EffectsOf(p, states[p], m, new)
  BY <1>1, <1>4 DEF Step
<1>7. EffectsGenuine(effects', built)
  <2>1. ASSUME NEW new, effects' = EffectsOf(p, states[p], m, new),
               NEW e \in effects', e.effect = "Publish", e.msg.type # "Vote"
        PROVE  Genuine(e.msg.value, built)
    <3>1. m.type = "Propose" /\ e.msg.value = m.value
      BY <2>1, EffectOrigins, SMT
    <3>. QED
      BY <1>5, <3>1 DEF Carries
  <2>. QED
    BY <1>6, <2>1 DEF EffectsGenuine
<1>8. NetGenuine(network', built)
  <2>1. \A i \in DOMAIN network' : \E j \in DOMAIN network : network'[i] = network[j]
    BY <1>1, <1>2, TailElements
  <2>. QED
    BY <2>1 DEF Sources, NetGenuine
<1>. QED
  BY <1>1, <1>7, <1>8 DEF Sources, builderVars, consumerVars

-----------------------------------------------------------------------------
(* The application handles an effect. *)

\* A message joins the network, with a value that was built if it has one.
LEMMA NetGenuineAppend ==
    ASSUME NEW nw \in Seq(Envelopes), NEW p \in Peers, NEW m \in Inputs, NEW b,
           NetGenuine(nw, b), Carries(m) => Genuine(m.value, b)
    PROVE  NetGenuine(Append(nw, Envelope(p, p, m)), b)
<1>1. PICK x \in Envelopes : x = Envelope(p, p, m) /\ x.payload = m
  BY EnvelopeType DEF Envelope
<1>2. \A i \in DOMAIN Append(nw, x) : \/ i \in DOMAIN nw /\ Append(nw, x)[i] = nw[i]
                                      \/ Append(nw, x)[i] = x
  BY AppendElements
<1>. QED
  BY <1>1, <1>2 DEF NetGenuine

\* So do the copies that are published.
LEMMA NetGenuineConcat ==
    ASSUME NEW nw \in Seq(Envelopes), NEW more \in Seq(Envelopes), NEW b, NetGenuine(nw, b),
           \A i \in DOMAIN more :
              Carries(more[i].payload) => Genuine(more[i].payload.value, b)
    PROVE  NetGenuine(nw \o more, b)
<1>1. \A i \in DOMAIN (nw \o more) : \/ i \in DOMAIN nw /\ (nw \o more)[i] = nw[i]
                                     \/ \E j \in DOMAIN more : (nw \o more)[i] = more[j]
  BY ConcatElements, SMT
<1>. QED
  BY <1>1 DEF NetGenuine

\* What a handler leaves to show.
LEMMA RelayFrame ==
    ASSUME RelayInv, UNCHANGED <<builderVars, consumerVars>>, effects' \subseteq effects,
           NetGenuine(network', built),
           \A i \in DOMAIN proposals' : Genuine(proposals'[i], built),
           StepsGenuine(decisionSteps', built),
           Running("consumer")' => Due(decisionSteps', Len(relayed), Len(log'[0]))
    PROVE  RelayInv'
<1>1. UNCHANGED <<valueCounter, staged, built, decisions, relayed>>
  BY DEF builderVars, consumerVars
<1>2. EffectsGenuine(effects', built)
  BY DEF RelayInv, Sources, EffectsGenuine
<1>3. Sources'
  BY <1>1, <1>2 DEF RelayInv, Sources
<1>4. RelayedIsFinalized'
  BY <1>1 DEF RelayInv, RelayedIsFinalized
<1>. QED
  BY <1>1, <1>3, <1>4 DEF RelayInv

\* A proposal is announced to the consumer once for every peer.
LEMMA AnnouncementsDue ==
    ASSUME NEW ds \in Seq(DecisionSteps), NEW h \in Nat, NEW v \in Values, NEW b,
           StepsGenuine(ds, b), Genuine(v, b), v.id = h
    PROVE  /\ StepsGenuine(ds \o Announcements(h, v), b)
           /\ \A done, n \in Nat : Due(ds, done, n) => Due(ds \o Announcements(h, v), done, n)
<1>1. Proposed(h, v) \in DecisionSteps
  BY StepTypes
<1>2. PICK d \in DecisionSteps : /\ d = Proposed(h, v)
                                 /\ d.step = "Proposed" /\ d.height = h /\ d.value = v
  BY <1>1 DEF Proposed
<1>3. PICK more \in Seq(DecisionSteps) :
         more = Announcements(h, v) /\ \A i \in DOMAIN more : more[i] = d
  <2>1. Announcements(h, v) = [i \in 1..N |-> d]
    BY <1>2 DEF Announcements
  <2>2. [i \in 1..N |-> d] \in Seq(DecisionSteps)
    BY NAssumption, SMT
  <2>3. \A i \in DOMAIN [k \in 1..N |-> d] : [k \in 1..N |-> d][i] = d
    OBVIOUS
  <2>. QED
    BY <2>1, <2>2, <2>3
<1>4. \A i \in DOMAIN (ds \o more) : \/ i \in DOMAIN ds /\ (ds \o more)[i] = ds[i]
                                     \/ \E j \in DOMAIN more : (ds \o more)[i] = more[j]
  BY ConcatElements, SMT
<1>5. StepGenuine(d, b) /\ ~IsTurn(d)
  BY <1>2 DEF StepGenuine, IsTurn
<1>6. StepsGenuine(ds \o more, b)
  <2>1. ASSUME NEW i \in DOMAIN (ds \o more)
        PROVE  StepGenuine((ds \o more)[i], b)
    <3>1. \/ i \in DOMAIN ds /\ (ds \o more)[i] = ds[i]
          \/ (ds \o more)[i] = d
      BY <1>3, <1>4, SMT
    <3>. QED
      BY <1>5, <3>1 DEF StepsGenuine
  <2>. QED
    BY <2>1 DEF StepsGenuine
<1>7. \A i \in DOMAIN more : ~IsTurn(more[i])
  BY <1>3, <1>5
<1>8. \A done, n \in Nat : Due(ds, done, n) => Due(ds \o more, done, n)
  BY <1>7, DueConcat
<1>. QED
  BY <1>3, <1>6, <1>8

\* A timeout, and a vote, carry no value.
LEMMA RelayQuiet ==
    ASSUME TypeInv, RelayInv, NEW e \in effects,
           HandleScheduleTimeout(e) \/ HandlePublishVote(e),
           UNCHANGED <<builderVars, consumerVars>>
    PROVE  RelayInv'
<1>1. /\ network \in Seq(Envelopes) /\ current \in Peers /\ e \in Effects
      /\ NetGenuine(network, built)
  BY DEF TypeInv, ChainTypeOK, SimTypeOK, AppTypeOK, RelayInv, Sources
<1>2. /\ effects' \subseteq effects /\ UNCHANGED <<status, proposals, decisionSteps, log>>
  BY DEF HandleScheduleTimeout, HandlePublishVote, Handling, channels
<1>3. NetGenuine(network', built)
  <2>1. CASE HandleScheduleTimeout(e)
    <3>1. \/ network' = network
          \/ network' = Append(network, Envelope(current, current, TimeoutElapsed("Commit")))
      BY <2>1 DEF HandleScheduleTimeout, ElapsesAtOnce, SendToSelf
    <3>2. TimeoutElapsed("Commit") \in Inputs /\ ~Carries(TimeoutElapsed("Commit"))
      <4>1. TimeoutElapsed("Commit") \in Inputs
        BY InputTypes DEF TimeoutKinds
      <4>2. ~Carries(TimeoutElapsed("Commit"))
        BY DEF TimeoutElapsed, Carries
      <4>. QED
        BY <4>1, <4>2
    <3>. QED
      BY <1>1, <3>1, <3>2, NetGenuineAppend
  <2>2. CASE HandlePublishVote(e)
    <3>1. /\ e.effect = "Publish" /\ e.msg.type = "Vote"
          /\ network' = network \o
               [i \in 1..N-1 |-> Envelope(current, Others(current)[i], e.msg)]
      BY <2>2 DEF HandlePublishVote
    <3>2. e.msg \in Inputs
      BY <1>1, <3>1, EffectFields, InputTypes
    <3>3. PICK more \in Seq(Envelopes) :
             /\ more = [i \in 1..N-1 |-> Envelope(current, Others(current)[i], e.msg)]
             /\ \A i \in DOMAIN more : more[i].payload = e.msg
      BY <1>1, <3>2, VotesSent
    <3>4. ~Carries(e.msg)
      BY <3>1 DEF Carries
    <3>5. NetGenuine(network \o more, built)
      BY <1>1, <3>3, <3>4, NetGenuineConcat
    <3>. QED
      BY <3>1, <3>3, <3>5
  <2>. QED
    BY <2>1, <2>2
<1>4. /\ \A i \in DOMAIN proposals' : Genuine(proposals'[i], built)
      /\ StepsGenuine(decisionSteps', built)
      /\ Running("consumer")' => Due(decisionSteps', Len(relayed), Len(log'[0]))
  BY <1>2 DEF RelayInv, Sources, Running
<1>. QED
  BY <1>2, <1>3, <1>4, RelayFrame

\* The simulator panics: nothing is sent.
LEMMA RelayPanics ==
    ASSUME TypeInv, RelayInv, NEW s, Ends("simulator", s), effects' \subseteq effects,
           UNCHANGED <<network, proposals, decisionSteps, log, builderVars, consumerVars>>
    PROVE  RelayInv'
<1>1. Running("consumer")' <=> Running("consumer")
  BY DEF Ends, Running, TypeInv, ChainTypeOK, ChannelsTypeOK, Threads
<1>2. /\ NetGenuine(network', built)
      /\ \A i \in DOMAIN proposals' : Genuine(proposals'[i], built)
      /\ StepsGenuine(decisionSteps', built)
      /\ Running("consumer")' => Due(decisionSteps', Len(relayed), Len(log'[0]))
  BY <1>1 DEF RelayInv, Sources
<1>. QED
  BY <1>2, RelayFrame

\* A proposal is sent to every peer and announced to the consumer.
LEMMA RelayProposal ==
    ASSUME TypeInv, Flow, RelayInv, NEW e \in effects, HandlePublishProposal(e),
           UNCHANGED <<builderVars, consumerVars>>
    PROVE  RelayInv'
<1>1. /\ e.effect = "Publish" /\ e.msg.type = "Proposal"
      /\ effects' \subseteq effects /\ UNCHANGED <<proposals, log>>
  BY DEF HandlePublishProposal, Handling
<1>2. /\ network \in Seq(Envelopes) /\ current \in Peers /\ e \in Effects
      /\ decisionSteps \in Seq(DecisionSteps) /\ log \in [Peers -> Seq(Int)]
      /\ relayed \in Seq([height : Nat, id : Int, value : Values])
  BY DEF TypeInv, ChainTypeOK, SimTypeOK, AppTypeOK, ChannelsTypeOK, ConsumerTypeOK
<1>3. Len(relayed) \in Nat /\ Len(log[0]) \in Nat
  <2>1. 0 \in Peers
    BY NAssumption, SMT DEF Peers
  <2>. QED
    BY <1>2, <2>1, LenProperties
<1>4. e.msg.height \in Nat /\ e.msg.value \in Values
  BY <1>1, <1>2, EffectFields, MessageFields
<1>5. PICK h \in Nat, v \in Values : h = e.msg.height /\ v = e.msg.value
  BY <1>4
<1>6. v.id = h /\ Genuine(v, built)
  BY <1>1, <1>5 DEF Flow, EffectOK, RelayInv, Sources, EffectsGenuine
<1>7. CASE Running("consumer")
  <2>1. /\ network' = network \o ProposalEnvelopes(h, v)
        /\ decisionSteps' = decisionSteps \o Announcements(h, v)
        /\ UNCHANGED status
    BY <1>5, <1>7 DEF HandlePublishProposal
  <2>2. PICK more \in Seq(Envelopes) :
           /\ more = ProposalEnvelopes(h, v)
           /\ \A i \in DOMAIN more : /\ ~IsToken(more[i].payload)
                                     /\ more[i].payload.value = v
                                     /\ more[i].payload.height = h
    BY <1>2, ProposalsSent
  <2>3. NetGenuine(network', built)
    <3>1. NetGenuine(network \o more, built)
      <4>1. NetGenuine(network, built)
        BY DEF RelayInv, Sources
      <4>2. \A i \in DOMAIN more :
               Carries(more[i].payload) => Genuine(more[i].payload.value, built)
        BY <1>6, <2>2
      <4>. QED
        BY <1>2, <4>1, <4>2, NetGenuineConcat
    <3>. QED
      BY <2>1, <2>2, <3>1
  <2>4. /\ StepsGenuine(decisionSteps', built)
        /\ Running("consumer")' => Due(decisionSteps', Len(relayed), Len(log'[0]))
    <3>1. StepsGenuine(decisionSteps, built) /\ Due(decisionSteps, Len(relayed), Len(log[0]))
      BY <1>7 DEF RelayInv, Sources
    <3>2. /\ StepsGenuine(decisionSteps \o Announcements(h, v), built)
          /\ Due(decisionSteps \o Announcements(h, v), Len(relayed), Len(log[0]))
      BY <1>2, <1>3, <1>6, <3>1, AnnouncementsDue
    <3>. QED
      BY <1>1, <2>1, <3>2
  <2>5. \A i \in DOMAIN proposals' : Genuine(proposals'[i], built)
    BY <1>1 DEF RelayInv, Sources
  <2>. QED
    BY <1>1, <2>3, <2>4, <2>5, RelayFrame
<1>8. CASE ~Running("consumer")
  <2>1. Ends("simulator", "no consumer") /\ UNCHANGED <<network, decisionSteps>>
    BY <1>8 DEF HandlePublishProposal
  <2>. QED
    BY <1>1, <2>1, RelayPanics
<1>. QED
  BY <1>7, <1>8

\* A decision is reported to the consumer; that of peer 0 is the next one due.
LEMMA RelayDecide ==
    ASSUME TypeInv, Flow, RelayInv, NEW e \in effects, HandleDecide(e),
           UNCHANGED <<builderVars, consumerVars>>
    PROVE  RelayInv'
<1>1. /\ e.effect = "Decide" /\ effects' \subseteq effects /\ proposals' = proposals
  BY DEF HandleDecide, Handling
<1>2. /\ network \in Seq(Envelopes) /\ e \in Effects /\ log \in [Peers -> Seq(Int)]
      /\ decisionSteps \in Seq(DecisionSteps)
      /\ relayed \in Seq([height : Nat, id : Int, value : Values])
  BY DEF TypeInv, ChainTypeOK, SimTypeOK, AppTypeOK, ChannelsTypeOK, ConsumerTypeOK
<1>3. PICK p \in Peers : p = current
  BY DEF TypeInv, ChainTypeOK, SimTypeOK, AppTypeOK
<1>4. PICK n \in Nat, done \in Nat : n = Len(log[0]) /\ done = Len(relayed)
  <2>1. 0 \in Peers
    BY NAssumption, SMT DEF Peers
  <2>. QED
    BY <1>2, <2>1, LenProperties
<1>5. /\ e.height \in Nat /\ e.id \in Int
      /\ e.height = Len(log[p]) /\ e.id = e.height
  <2>1. IsDecide(e)
    BY <1>1 DEF IsDecide
  <2>. QED
    BY <1>1, <1>2, <1>3, <2>1, EffectFields DEF Flow, EffectOK
<1>6. CASE Running("consumer")
  <2>1. /\ decisionSteps' = Append(decisionSteps, Finalized(p, e.height, e.id))
        /\ network' = Append(network, Envelope(p, p, StartHeight(e.height + 1)))
        /\ log' = [log EXCEPT ![p] = Append(@, e.id)]
        /\ UNCHANGED status
    BY <1>3, <1>6 DEF HandleDecide, SendToSelf, NextHeight
  <2>2. NetGenuine(network', built)
    <3>1. StartHeight(e.height + 1) \in Inputs
      BY <1>5, InputTypes, SMT
    <3>2. ~Carries(StartHeight(e.height + 1))
      BY DEF StartHeight, Carries
    <3>. QED
      BY <1>2, <2>1, <3>1, <3>2, NetGenuineAppend DEF RelayInv, Sources
  <2>3. PICK d \in DecisionSteps :
           /\ d = Finalized(p, e.height, e.id)
           /\ d.step = "Finalized" /\ d.peer = p /\ d.height = e.height /\ d.id = e.id
    <3>1. Finalized(p, e.height, e.id) \in DecisionSteps
      BY <1>5, StepTypes
    <3>. QED
      BY <3>1 DEF Finalized
  <2>4. StepsGenuine(decisionSteps', built)
    <3>1. \A i \in DOMAIN Append(decisionSteps, d) :
             \/ i \in DOMAIN decisionSteps
                /\ Append(decisionSteps, d)[i] = decisionSteps[i]
             \/ Append(decisionSteps, d)[i] = d
      BY <1>2, AppendElements
    <3>2. StepGenuine(d, built)
      BY <1>5, <2>3 DEF StepGenuine
    <3>3. StepsGenuine(Append(decisionSteps, d), built)
      BY <3>1, <3>2 DEF RelayInv, Sources, StepsGenuine
    <3>. QED
      BY <2>1, <2>3, <3>3
  <2>5. Due(decisionSteps, done, n)
    BY <1>4, <1>6 DEF RelayInv
  <2>6. Due(decisionSteps', done, Len(log'[0]))
    <3>1. decisionSteps' = Append(decisionSteps, d)
      BY <2>1, <2>3
    <3>2. CASE p = 0
      <4>1. IsTurn(d) /\ d.height = n
        BY <1>4, <1>5, <2>3, <3>2 DEF IsTurn
      <4>2. Len(log'[0]) = n + 1
        <5>1. PICK l \in Seq(Int) : l = log[0]
          BY <1>2, <3>2
        <5>2. log'[0] = Append(l, e.id)
          BY <1>2, <2>1, <3>2, <5>1
        <5>. QED
          BY <1>4, <1>5, <5>1, <5>2, AppendProperties, SMT
      <4>3. Due(Append(decisionSteps, d), done, n + 1)
        BY <1>2, <2>5, <4>1, DueAppend
      <4>. QED
        BY <3>1, <4>2, <4>3
    <3>3. CASE p # 0
      <4>1. ~IsTurn(d)
        BY <2>3, <3>3 DEF IsTurn
      <4>2. Len(log'[0]) = n
        <5>1. 0 \in Peers
          BY NAssumption, SMT DEF Peers
        <5>2. log'[0] = log[0]
          BY <1>2, <2>1, <3>3, <5>1
        <5>. QED
          BY <1>4, <5>2
      <4>3. Due(Append(decisionSteps, d), done, n)
        BY <1>2, <2>5, <4>1, DueAppend
      <4>. QED
        BY <3>1, <4>2, <4>3
    <3>. QED
      BY <3>2, <3>3
  <2>7. \A i \in DOMAIN proposals' : Genuine(proposals'[i], built)
    BY <1>1 DEF RelayInv, Sources
  <2>. QED
    BY <1>1, <1>4, <2>2, <2>4, <2>6, <2>7, RelayFrame, SMT
<1>7. CASE ~Running("consumer")
  <2>1. Ends("simulator", "no consumer") /\ UNCHANGED <<network, decisionSteps, log>>
    BY <1>7 DEF HandleDecide
  <2>. QED
    BY <1>1, <2>1, RelayPanics
<1>. QED
  BY <1>6, <1>7

\* The proposer takes the value out of the channel and puts it into the network.
LEMMA RelayValue ==
    ASSUME TypeInv, RelayInv, NEW e \in effects, HandleGetValue(e),
           UNCHANGED <<builderVars, consumerVars>>
    PROVE  RelayInv'
<1>1. /\ e.effect = "GetValue" /\ effects' \subseteq effects
      /\ UNCHANGED <<decisionSteps, log>>
  BY DEF HandleGetValue, Handling
<1>2. /\ network \in Seq(Envelopes) /\ e \in Effects /\ current \in Peers
      /\ proposals \in Seq(Values)
  BY DEF TypeInv, ChainTypeOK, SimTypeOK, AppTypeOK, ChannelsTypeOK
<1>3. CASE proposals # <<>>
  <2>1. /\ network' = Append(network, Envelope(current, current,
                                               Propose(e.height, Head(proposals))))
        /\ proposals' = Tail(proposals) /\ UNCHANGED status
    BY <1>3 DEF HandleGetValue, SendToSelf
  <2>2. PICK v \in Values : v = Head(proposals) /\ v = proposals[1] /\ 1 \in DOMAIN proposals
    BY <1>2, <1>3, SMT
  <2>3. Genuine(v, built)
    BY <2>2 DEF RelayInv, Sources
  <2>4. PICK m \in Inputs : m = Propose(e.height, v) /\ m.value = v
    <3>1. e.height \in Nat
      BY <1>1, <1>2, EffectFields
    <3>2. Propose(e.height, v) \in Inputs
      BY <3>1, InputTypes
    <3>. QED
      BY <3>2 DEF Propose
  <2>5. NetGenuine(network', built)
    <3>1. NetGenuine(Append(network, Envelope(current, current, m)), built)
      BY <1>2, <2>3, <2>4, NetGenuineAppend DEF RelayInv, Sources
    <3>. QED
      BY <2>1, <2>2, <2>4, <3>1
  <2>6. \A i \in DOMAIN proposals' : Genuine(proposals'[i], built)
    <3>1. \A i \in DOMAIN proposals' : \E j \in DOMAIN proposals : proposals'[i] = proposals[j]
      BY <1>2, <1>3, <2>1, TailElements
    <3>. QED
      BY <3>1 DEF RelayInv, Sources
  <2>7. /\ StepsGenuine(decisionSteps', built)
        /\ Running("consumer")' => Due(decisionSteps', Len(relayed), Len(log'[0]))
    BY <1>1, <2>1 DEF RelayInv, Sources, Running
  <2>. QED
    BY <1>1, <2>5, <2>6, <2>7, RelayFrame
<1>4. CASE proposals = <<>>
  <2>1. Ends("simulator", "no value") /\ UNCHANGED <<proposals, network>>
    BY <1>4 DEF HandleGetValue
  <2>. QED
    BY <1>1, <2>1, RelayPanics
<1>. QED
  BY <1>3, <1>4

-----------------------------------------------------------------------------
(* The invariant. *)

\* One turn of the consumer: the value it looks up is the one that was finalized.
LEMMA RelayConsume ==
    ASSUME TypeInv, RelayInv, Consume, UNCHANGED <<builderVars, simVars>>
    PROVE  RelayInv'
<1>1. /\ Running("consumer") /\ decisionSteps # <<>>
      /\ decisionSteps' = Tail(decisionSteps) /\ proposals' = proposals
  BY DEF Consume
<1>2. /\ decisionSteps \in Seq(DecisionSteps) /\ log \in [Peers -> Seq(Int)]
      /\ relayed \in Seq([height : Nat, id : Int, value : Values])
      /\ status \in [Threads -> Statuses]
  BY DEF TypeInv, ChainTypeOK, SimTypeOK, AppTypeOK, ChannelsTypeOK, ConsumerTypeOK
<1>3. UNCHANGED <<valueCounter, staged, built, network, effects, log>>
  BY DEF builderVars, simVars, appVars
<1>4. PICK n \in Nat, done \in Nat : n = Len(log[0]) /\ done = Len(relayed)
  <2>1. 0 \in Peers
    BY NAssumption, SMT DEF Peers
  <2>. QED
    BY <1>2, <2>1, LenProperties
<1>5. PICK d \in DecisionSteps : /\ d = Head(decisionSteps) /\ d = decisionSteps[1]
                                 /\ 1 \in DOMAIN decisionSteps
  BY <1>1, <1>2, SMT
<1>6. StepGenuine(d, built) /\ Due(decisionSteps, done, n)
  BY <1>1, <1>4, <1>5 DEF RelayInv, Sources, StepsGenuine
<1>7. \/ d.step = "Proposed" /\ OnProposed(d)
      \/ d.step = "Finalized" /\ (OnFinalized(d) \/ OnFinalizedElsewhere(d))
  BY <1>5 DEF Consume
<1>8. StepsGenuine(decisionSteps', built)
  <2>1. \A i \in DOMAIN decisionSteps' :
           \E j \in DOMAIN decisionSteps : decisionSteps'[i] = decisionSteps[j]
    BY <1>1, <1>2, TailElements
  <2>. QED
    BY <2>1 DEF RelayInv, Sources, StepsGenuine
<1>9. ASSUME \A h \in DOMAIN decisions' :
                Genuine(decisions'[h], built) /\ decisions'[h].id = h
      PROVE  Sources'
  BY <1>1, <1>3, <1>8, <1>9 DEF RelayInv, Sources
<1>10. ASSUME decisions' = decisions PROVE Sources'
  <2>1. \A h \in DOMAIN decisions' : Genuine(decisions'[h], built) /\ decisions'[h].id = h
    BY <1>10 DEF RelayInv, Sources
  <2>. QED
    BY <1>9, <2>1
<1>11. ASSUME ~IsTurn(d), UNCHANGED <<status, relayed>>
       PROVE  /\ Running("consumer")' => Due(decisionSteps', Len(relayed'), Len(log'[0]))
              /\ RelayedIsFinalized'
  <2>1. Due(Tail(decisionSteps), done, n)
    BY <1>1, <1>2, <1>5, <1>6, <1>11, DueTail
  <2>2. RelayedIsFinalized'
    BY <1>11 DEF RelayInv, RelayedIsFinalized
  <2>. QED
    BY <1>1, <1>3, <1>4, <1>11, <2>1, <2>2
<1>12. CASE d.step = "Proposed" /\ OnProposed(d)
  <2>1. /\ UNCHANGED <<status, relayed>>
        /\ decisions' = decisions \/ decisions' = Put(decisions, d.height, d.value)
    BY <1>12 DEF OnProposed
  <2>2. Sources'
    <3>1. CASE decisions' = decisions
      BY <1>10, <3>1
    <3>2. CASE decisions' = Put(decisions, d.height, d.value)
      <4>1. Genuine(d.value, built) /\ d.value.id = d.height
        BY <1>6, <1>12 DEF StepGenuine
      <4>2. \A h \in DOMAIN decisions :
               Genuine(decisions[h], built) /\ decisions[h].id = h
        BY DEF RelayInv, Sources
      <4>3. /\ DOMAIN decisions' = DOMAIN decisions \cup {d.height}
            /\ \A h \in DOMAIN decisions' :
                  decisions'[h] = IF h = d.height THEN d.value ELSE decisions[h]
        BY <3>2 DEF Put
      <4>4. \A h \in DOMAIN decisions' :
               Genuine(decisions'[h], built) /\ decisions'[h].id = h
        BY <4>1, <4>2, <4>3, SMT
      <4>. QED
        BY <1>9, <4>4
    <3>. QED
      BY <2>1, <3>1, <3>2
  <2>3. ~IsTurn(d)
    BY <1>12 DEF IsTurn
  <2>. QED
    BY <1>11, <2>1, <2>2, <2>3 DEF RelayInv
<1>13. CASE d.step = "Finalized" /\ OnFinalizedElsewhere(d)
  <2>1. UNCHANGED <<status, relayed, decisions>> /\ ~IsTurn(d)
    BY <1>13 DEF OnFinalizedElsewhere, FromPeerZero, IsTurn
  <2>. QED
    BY <1>10, <1>11, <2>1 DEF RelayInv
<1>14. CASE d.step = "Finalized" /\ OnFinalized(d)
  <2>1. decisions' = decisions /\ IsTurn(d) /\ d.id = d.height
    BY <1>6, <1>14 DEF OnFinalized, FromPeerZero, IsTurn, StepGenuine
  <2>2. d.height = done /\ done < n /\ Due(Tail(decisionSteps), done + 1, n)
    BY <1>1, <1>2, <1>5, <1>6, <2>1, DueTurn
  <2>3. CASE (\E s \in {"no proposal", "no task"} : Ends("consumer", s)) /\ relayed' = relayed
    <3>1. PICK s \in {"no proposal", "no task"} : status' = [status EXCEPT !["consumer"] = s]
      BY <2>3 DEF Ends
    <3>2. ~Running("consumer")'
      BY <1>2, <3>1 DEF Running, Threads
    <3>3. RelayedIsFinalized'
      BY <2>3 DEF RelayInv, RelayedIsFinalized
    <3>. QED
      BY <1>10, <2>1, <3>2, <3>3 DEF RelayInv
  <2>4. CASE /\ d.height \in DOMAIN decisions
             /\ relayed' = Append(relayed, [height |-> d.height, id |-> d.id,
                                            value |-> decisions[d.height]])
    <3>1. decisions[d.height].id = d.height
      BY <2>4 DEF RelayInv, Sources
    <3>2. decisions[d.height] \in Values /\ d.height \in Nat /\ d.id \in Int
      BY <1>5, <2>1, <2>4
         DEF TypeInv, ChainTypeOK, ConsumerTypeOK, DecisionSteps, IsTurn
    <3>3. PICK r \in [height : Nat, id : Int, value : Values] :
             /\ r = [height |-> d.height, id |-> d.id, value |-> decisions[d.height]]
             /\ r.height = done /\ r.value.id = r.id
      <4>1. [height |-> d.height, id |-> d.id, value |-> decisions[d.height]]
               \in [height : Nat, id : Int, value : Values]
        BY <3>2
      <4>. QED
        BY <2>1, <2>2, <3>1, <4>1
    <3>4. /\ Len(relayed') = done + 1 /\ DOMAIN relayed' = 1..(done + 1)
          /\ \A i \in 1..done : relayed'[i] = relayed[i]
          /\ relayed'[done + 1] = r /\ DOMAIN relayed = 1..done
      <4>1. PICK rs \in Seq([height : Nat, id : Int, value : Values]) :
               rs = Append(relayed, r)
        BY <1>2, AppendProperties
      <4>2. /\ Len(rs) = done + 1 /\ DOMAIN rs = 1..(done + 1)
            /\ \A i \in 1..done : rs[i] = relayed[i]
            /\ rs[done + 1] = r /\ DOMAIN relayed = 1..done
        BY <1>2, <1>4, <4>1, SMT
      <4>3. relayed' = rs
        BY <2>4, <3>3, <4>1
      <4>. QED
        BY <4>2, <4>3
    <3>5. RelayedIsFinalized'
      <4>1. ASSUME NEW i \in 1..(done + 1)
            PROVE  relayed'[i].height = i - 1 /\ relayed'[i].value.id = relayed'[i].id
        <5>1. CASE i = done + 1
          BY <3>3, <3>4, <5>1, SMT
        <5>2. CASE i # done + 1
          <6>1. i \in 1..done
            BY <5>2, SMT
          <6>. QED
            BY <3>4, <6>1 DEF RelayInv, RelayedIsFinalized
        <5>. QED
          BY <5>1, <5>2
      <4>. QED
        BY <3>4, <4>1 DEF RelayedIsFinalized
    <3>6. Due(decisionSteps', Len(relayed'), Len(log'[0]))
      BY <1>1, <1>3, <1>4, <2>2, <3>4
    <3>. QED
      BY <1>10, <2>1, <3>5, <3>6 DEF RelayInv
  <2>. QED
    BY <1>14, <2>3, <2>4 DEF OnFinalized
<1>. QED
  BY <1>7, <1>12, <1>13, <1>14

\* What leaves the values and the decisions alone.
LEMMA RelayKept ==
    ASSUME RelayInv, UNCHANGED <<builderVars, simVars, consumerVars, proposals, decisionSteps>>,
           Running("consumer")' => Running("consumer")
    PROVE  RelayInv'
<1>1. /\ effects' \subseteq effects /\ network' = network /\ log' = log
      /\ proposals' = proposals /\ decisionSteps' = decisionSteps
      /\ UNCHANGED <<builderVars, consumerVars>>
  BY DEF simVars, appVars
<1>2. /\ NetGenuine(network', built)
      /\ \A i \in DOMAIN proposals' : Genuine(proposals'[i], built)
      /\ StepsGenuine(decisionSteps', built)
      /\ Running("consumer")' => Due(decisionSteps', Len(relayed), Len(log'[0]))
  BY <1>1 DEF RelayInv, Sources
<1>. QED
  BY <1>1, <1>2, RelayFrame

\* Nothing has been built, sent or decided at first.
LEMMA RelayInit == ChainInit => RelayInv
<1> SUFFICES ASSUME ChainInit PROVE RelayInv
  OBVIOUS
<1>1. /\ network = [i \in 1..N |-> Envelope(i - 1, i - 1, StartHeight(0))]
      /\ effects = {} /\ log = [p \in Peers |-> <<>>] /\ proposals = <<>>
      /\ decisionSteps = <<>> /\ relayed = <<>> /\ decisions = [h \in {} |-> {}]
      /\ valueCounter = 0 /\ staged = {} /\ built = <<>>
  BY DEF ChainInit, SimInit, AppInit, InitialEnvelopes, ChannelsInit, BuilderInit,
         ConsumerInit
<1>2. /\ DOMAIN proposals = {} /\ DOMAIN decisionSteps = {} /\ DOMAIN relayed = {}
      /\ DOMAIN decisions = {} /\ Len(built) = 0 /\ Len(relayed) = 0
  BY <1>1, SMT
<1>3. NetGenuine(network, built)
  <2>1. \A i \in DOMAIN network : ~Carries(network[i].payload)
    BY <1>1 DEF Envelope, StartHeight, Carries
  <2>. QED
    BY <2>1 DEF NetGenuine
<1>4. Sources
  BY <1>1, <1>2, <1>3, SMT DEF Sources, EffectsGenuine, StepsGenuine
<1>5. Due(decisionSteps, Len(relayed), Len(log[0]))
  <2>1. Len(log[0]) = 0
    BY <1>1, NAssumption, SMT DEF Peers
  <2>. QED
    BY <1>2, <2>1, SMT DEF Due
<1>6. RelayedIsFinalized
  BY <1>2 DEF RelayedIsFinalized
<1>. QED
  BY <1>4, <1>5, <1>6 DEF RelayInv

\* The builder does not touch what the consumer sees.
LEMMA RelayBuilder ==
    ASSUME TypeInv, RelayInv, Builder
    PROVE  RelayInv'
<1>1. BuilderNext /\ UNCHANGED <<simVars, consumerVars>>
  BY DEF Builder
<1>2. UNCHANGED <<log, decisions, relayed>>
  BY <1>1 DEF simVars, appVars, consumerVars
<1>3. /\ decisionSteps' = decisionSteps
      /\ \/ UNCHANGED status
         \/ status' = [status EXCEPT !["builder"] = "no simulator"]
  BY <1>1 DEF BuilderNext, CollectTransactions, SendValue, SendFails, Ends, channels
<1>4. Running("consumer")' <=> Running("consumer")
  BY <1>3 DEF Running, TypeInv, ChainTypeOK, ChannelsTypeOK, Threads
<1>5. Sources'
  BY <1>1, SourcesBuilder DEF RelayInv
<1>6. RelayedIsFinalized'
  BY <1>2 DEF RelayInv, RelayedIsFinalized
<1>. QED
  BY <1>2, <1>3, <1>4, <1>5, <1>6 DEF RelayInv

\* A peer processes an input.
LEMMA RelayStep ==
    ASSUME TypeInv, RelayInv, Step, UNCHANGED <<builderVars, consumerVars>>
    PROVE  RelayInv'
<1>1. UNCHANGED <<log, decisionSteps, relayed>>
  BY DEF Step, channels, consumerVars
<1>2. \/ UNCHANGED status
      \/ status' = [status EXCEPT !["simulator"] = "process error"]
  BY DEF Step, Ends
<1>3. Running("consumer")' <=> Running("consumer")
  BY <1>2 DEF Running, TypeInv, ChainTypeOK, ChannelsTypeOK, Threads
<1>4. Sources'
  BY SourcesStep DEF RelayInv
<1>5. RelayedIsFinalized'
  BY <1>1 DEF RelayInv, RelayedIsFinalized
<1>. QED
  BY <1>1, <1>3, <1>4, <1>5 DEF RelayInv

\* Every step of every thread keeps the invariant.
LEMMA RelayNext == TypeInv /\ OrderInv /\ RelayInv /\ [ChainNext]_chainVars => RelayInv'
<1> SUFFICES ASSUME TypeInv, OrderInv, RelayInv, [ChainNext]_chainVars PROVE RelayInv'
  OBVIOUS
<1>0. status \in [Threads -> Statuses]
  BY DEF TypeInv, ChainTypeOK, ChannelsTypeOK
<1>1. CASE Builder
  BY <1>1, RelayBuilder
<1>2. CASE Simulate
  <2>1. UNCHANGED <<builderVars, consumerVars>> /\ (Step \/ HandleEffect)
    BY <1>2 DEF Simulate, SimNext
  <2>2. CASE Step
    BY <2>1, <2>2, RelayStep
  <2>3. CASE HandleEffect
    <3>1. PICK e \in effects : \/ HandleScheduleTimeout(e) \/ HandlePublishVote(e)
                               \/ HandlePublishProposal(e) \/ HandleDecide(e)
                               \/ HandleGetValue(e)
      BY <2>3 DEF HandleEffect
    <3>2. Flow
      BY <3>1 DEF HandleScheduleTimeout, HandlePublishVote, HandlePublishProposal,
                  HandleDecide, HandleGetValue, Handling, OrderInv
    <3>. QED
      BY <2>1, <3>1, <3>2, RelayQuiet, RelayProposal, RelayDecide, RelayValue
  <2>. QED
    BY <2>1, <2>2, <2>3
<1>3. CASE Consuming
  <2>1. UNCHANGED <<builderVars, simVars>> /\ (Consume \/ StopConsuming)
    BY <1>3 DEF Consuming, ConsumerNext
  <2>2. CASE Consume
    BY <2>1, <2>2, RelayConsume
  <2>3. CASE StopConsuming
    <3>1. UNCHANGED <<consumerVars, proposals, decisionSteps>> /\ Running("consumer")
      BY <2>3 DEF StopConsuming, channels
    <3>. QED
      BY <2>1, <3>1, RelayKept
  <2>. QED
    BY <2>1, <2>2, <2>3
<1>4. CASE PoolChanges
  BY <1>4, RelayKept DEF PoolChanges, Running
<1>5. CASE TaskEnds
  <2>1. status'["consumer"] = status["consumer"]
    BY <1>0, <1>5 DEF TaskEnds, Ends, Threads
  <2>. QED
    BY <1>5, <2>1, RelayKept DEF TaskEnds, channels, Running
<1>6. CASE ConsumerCancelled
  BY <1>6, RelayKept DEF ConsumerCancelled, channels
<1>7. CASE UNCHANGED chainVars
  BY <1>7, RelayKept DEF chainVars, channels, Running
<1>. QED
  BY <1>1, <1>2, <1>3, <1>4, <1>5, <1>6, <1>7 DEF ChainNext

\* The invariant holds in every state of the consensus layer.
THEOREM RelayCorrect == ChainSpec => []RelayInv
BY TypeInit, TypeNext, OrderInit, OrderNext, RelayInit, RelayNext, PTL DEF ChainSpec

\* The consumer relays the finalized values, height after height from 0 on, although
\* it looks them up by height and not by identifier.
THEOREM RelaysFinalized == ChainSpec => []RelayedIsFinalized
<1>1. RelayInv => RelayedIsFinalized
  BY DEF RelayInv
<1>. QED
  BY <1>1, RelayCorrect, PTL

-----------------------------------------------------------------------------
(* The refinement. *)

\* The values of relayed blocks: the blocks of the log, as the instance maps them.
ValuesOf(rs) == [i \in DOMAIN rs |-> rs[i].value]

RelayedBlocks == [height : Nat, id : Int, value : Values]

\* The block relayed last is the last of the log.
LEMMA ValuesAppend ==
    ASSUME NEW rs \in Seq(RelayedBlocks), NEW r \in RelayedBlocks
    PROVE  /\ Len(ValuesOf(rs)) = Len(rs)
           /\ ValuesOf(Append(rs, r)) = Append(ValuesOf(rs), r.value)
<1>1. /\ Len(rs) \in Nat /\ DOMAIN rs = 1..Len(rs)
      /\ \A i \in 1..Len(rs) : rs[i].value \in Values
  <2>1. \A i \in 1..Len(rs) : rs[i] \in RelayedBlocks
    BY ElementOfSeq
  <2>. QED
    BY <2>1, LenProperties DEF RelayedBlocks
<1>2. ValuesOf(rs) \in [1..Len(rs) -> Values]
  BY <1>1 DEF ValuesOf
<1>3. ValuesOf(rs) \in Seq(Values) /\ Len(ValuesOf(rs)) = Len(rs)
  BY <1>1, <1>2, SMT
<1>4. /\ DOMAIN Append(rs, r) = 1..Len(rs)+1
      /\ \A i \in 1..Len(rs) : Append(rs, r)[i] = rs[i]
      /\ Append(rs, r)[Len(rs)+1] = r
  BY <1>1, SMT
<1>5. /\ DOMAIN Append(ValuesOf(rs), r.value) = 1..Len(rs)+1
      /\ \A i \in 1..Len(rs) : Append(ValuesOf(rs), r.value)[i] = ValuesOf(rs)[i]
      /\ Append(ValuesOf(rs), r.value)[Len(rs)+1] = r.value
  BY <1>1, <1>3, SMT
<1>6. \A i \in 1..Len(rs)+1 : Append(rs, r)[i].value = Append(ValuesOf(rs), r.value)[i]
  BY <1>1, <1>4, <1>5, SMT DEF ValuesOf
<1>7. Append(ValuesOf(rs), r.value) = [i \in 1..Len(rs)+1 |-> Append(ValuesOf(rs), r.value)[i]]
  BY <1>1, <1>3, <1>5, SMT
<1>8. ValuesOf(Append(rs, r)) = [i \in 1..Len(rs)+1 |-> Append(rs, r)[i].value]
  BY <1>4 DEF ValuesOf
<1>. QED
  BY <1>3, <1>6, <1>7, <1>8

\* The head of a sequence is its first element.
LEMMA HeadIsFirst ==
    ASSUME NEW S, NEW s \in Seq(S), s # <<>>
    PROVE  Head(s) = s[1]
BY SMT

\* The empty sequence has length zero.
LEMMA NothingHasNoLength == Len(<<>>) = 0
BY SMT

\* A step that leaves the log and its threads alone is a stutter.
LEMMA LedgerStutter ==
    ASSUME UNCHANGED <<status, built, log, relayed>>
    PROVE  UNCHANGED Ledger!logVars
BY DEF Ledger!logVars, Ledger!history

\* The builder's steps are those of the log.
LEMMA LedgerBuild ==
    ASSUME TypeInv, RelayInv, Builder
    PROVE  [Ledger!Next]_(Ledger!logVars)
<1>1. BuilderNext /\ UNCHANGED <<log, relayed>>
  BY DEF Builder, simVars, appVars, consumerVars
<1>2. CASE CollectTransactions
  <2>1. Len(built) = valueCounter
    <3>1. staged = {} /\ valueCounter \in Nat
      BY <1>2 DEF CollectTransactions, TypeInv, ChainTypeOK, BuilderTypeOK
    <3>. QED
      BY <3>1, SMT DEF RelayInv, Sources
  <2>2. /\ built' = Append(built, [id |-> valueCounter, txs |-> pool])
        /\ Running("builder") /\ UNCHANGED status
    BY <1>2 DEF CollectTransactions
  <2>3. Ledger!Build
    BY <1>1, <2>1, <2>2 DEF Ledger!Build, Ledger!Running, Running
  <2>. QED
    BY <2>3 DEF Ledger!Next
<1>3. CASE SendValue
  <2>1. UNCHANGED <<status, built>>
    BY <1>3 DEF SendValue
  <2>. QED
    BY <1>1, <2>1, LedgerStutter
<1>4. CASE SendFails
  <2>1. /\ Running("builder") /\ ~Running("simulator") /\ built' = built
        /\ status' = [status EXCEPT !["builder"] = "no simulator"]
    BY <1>4 DEF SendFails, Ends, builderVars
  <2>2. Ledger!BuilderPanics
    BY <1>1, <2>1 DEF Ledger!BuilderPanics, Ledger!Ends, Ledger!Running, Ledger!history,
                      Running
  <2>. QED
    BY <2>2 DEF Ledger!Next
<1>. QED
  BY <1>1, <1>2, <1>3, <1>4 DEF BuilderNext

\* The simulator panics where the log says so: it finds the consumer gone, or asks
\* for a value of which the builder is late.
LEMMA LedgerPanics ==
    ASSUME TypeInv, OrderInv, RelayInv, NoProcessError', Simulate, status' # status
    PROVE  Ledger!Next
<1>1. UNCHANGED <<built, relayed>> /\ (Step \/ HandleEffect)
  BY DEF Simulate, SimNext, builderVars, consumerVars
<1>2. /\ status \in [Threads -> Statuses] /\ "simulator" \in Threads
      /\ log \in [Peers -> Seq(Int)] /\ 0 \in Peers
  BY NAssumption, SMT DEF TypeInv, ChainTypeOK, ChannelsTypeOK, SimTypeOK, AppTypeOK,
                          Threads, Peers
<1>3. ~Step
  <2>1. ASSUME Step PROVE status'["simulator"] = "process error"
    BY <1>2, <2>1 DEF Step, Ends
  <2>. QED
    BY <2>1 DEF NoProcessError
<1>4. PICK e \in effects : \/ HandlePublishProposal(e) \/ HandleDecide(e)
                           \/ HandleGetValue(e)
  BY <1>1, <1>3 DEF HandleEffect, HandleScheduleTimeout, HandlePublishVote
<1>5. CASE HandlePublishProposal(e) \/ HandleDecide(e)
  <2>1. /\ Running("simulator") /\ ~Running("consumer") /\ log' = log
        /\ status' = [status EXCEPT !["simulator"] = "no consumer"]
    BY <1>5 DEF HandlePublishProposal, HandleDecide, Handling, Ends
  <2>2. Ledger!SimulatorPanics
    BY <1>1, <2>1 DEF Ledger!SimulatorPanics, Ledger!Ends, Ledger!Running,
                      Ledger!history, Running
  <2>. QED
    BY <2>2 DEF Ledger!Next
<1>6. CASE HandleGetValue(e)
  <2>1. /\ Running("simulator") /\ proposals = <<>> /\ log' = log /\ IsGetValue(e)
        /\ status' = [status EXCEPT !["simulator"] = "no value"]
    BY <1>6 DEF HandleGetValue, Handling, Ends, IsGetValue
  <2>2. Fresh /\ Supply
    BY <1>4, <2>1 DEF Fresh, OrderInv, Flow
  <2>3. PICK n \in Nat : n = Len(log[0])
    BY <1>2, LenProperties
  <2>4. Len(built) <= n + 1
    <3>1. valueCounter = Len(proposals) + n + 0
      BY <2>2, <2>3 DEF Supply
    <3>2. Len(proposals) = 0
      BY <2>1, NothingHasNoLength
    <3>3. valueCounter = n
      BY <3>1, <3>2, SMT
    <3>4. Len(built) = n + 0 \/ Len(built) = n + 1
      BY <3>3 DEF RelayInv, Sources
    <3>. QED
      BY <3>4, SMT
  <2>5. Ledger!SimulatorStarves
    BY <1>1, <2>1, <2>3, <2>4 DEF Ledger!SimulatorStarves, Ledger!Ends, Ledger!Running,
                                  Ledger!history, Running, SelectProposer
  <2>. QED
    BY <2>5 DEF Ledger!Next
<1>. QED
  BY <1>4, <1>5, <1>6

\* The decisions of peer 0 are those of the log: there is a value to decide.
LEMMA LedgerDecide ==
    ASSUME TypeInv, OrderInv, RelayInv, Simulate, UNCHANGED status
    PROVE  [Ledger!Next]_(Ledger!logVars)
<1>1. UNCHANGED <<built, relayed>> /\ (Step \/ HandleEffect)
  BY DEF Simulate, SimNext, builderVars, consumerVars
<1>2. CASE log' = log
  BY <1>1, <1>2, LedgerStutter
<1>3. CASE log' # log
  <2>1. PICK e \in effects : HandleDecide(e) /\ Running("consumer")
    BY <1>1, <1>3 DEF Step, HandleEffect, HandleScheduleTimeout, HandlePublishVote,
                HandlePublishProposal, HandleDecide, HandleGetValue
  <2>2. /\ e.effect = "Decide" /\ Running("simulator")
        /\ log' = [log EXCEPT ![current] = Append(@, e.id)]
    BY <2>1 DEF HandleDecide, Handling
  <2>3. /\ log \in [Peers -> Seq(Int)] /\ current \in Peers /\ 0 \in Peers /\ e \in Effects
        /\ proposals \in Seq(Values) /\ valueCounter \in Nat /\ Flow
    BY <2>2, NAssumption, SMT DEF TypeInv, ChainTypeOK, SimTypeOK, AppTypeOK, ChannelsTypeOK,
                             BuilderTypeOK, Peers, OrderInv
  <2>4. CASE current # 0
    <3>1. log'[0] = log[0]
      BY <2>2, <2>3, <2>4
    <3>. QED
      BY <1>1, <3>1 DEF Ledger!logVars, Ledger!history, SelectProposer
  <2>5. CASE current = 0
    <3>1. PICK l \in Seq(Int) : l = log[0]
      BY <2>3
    <3>2. log'[0] = Append(l, e.id) /\ e.id \in Int
      BY <2>2, <2>3, <2>5, <3>1, EffectFields
    <3>3. Len(log'[0]) = Len(l) + 1 /\ Len(l) \in Nat
      BY <3>2, AppendProperties, LenProperties, SMT
    <3>4. ~Fresh
      <4>1. IsDecide(e)
        BY <2>2 DEF IsDecide
      <4>2. states[0].step = "decided"
        BY <2>3, <2>5, <4>1 DEF Flow, EffectOK
      <4>3. \A x \in effects : ~IsGetValue(x)
        BY <2>3, <2>5, <4>2 DEF Flow, EffectOK
      <4>. QED
        BY <2>5, <4>1, <4>2, <4>3 DEF Fresh
    <3>5. valueCounter = Len(proposals) + Len(l) + 1
      BY <2>3, <3>1, <3>4 DEF Flow, Supply
    <3>6. Len(l) < Len(built)
      <4>1. PICK k \in Nat : k = IF staged = {} THEN 0 ELSE 1
        OBVIOUS
      <4>2. Len(built) = valueCounter + k
        BY <4>1 DEF RelayInv, Sources
      <4>3. Len(proposals) \in Nat
        BY <2>3, LenProperties
      <4>. QED
        BY <3>3, <3>5, <4>2, <4>3, SMT
    <3>7. Ledger!Decide
      BY <1>1, <2>1, <2>2, <3>1, <3>3, <3>6 DEF Ledger!Decide, Ledger!Running, Running,
                                                SelectProposer
    <3>. QED
      BY <3>7 DEF Ledger!Next
  <2>. QED
    BY <2>4, <2>5
<1>. QED
  BY <1>2, <1>3

\* The consumer ends where the log says so: it finds the task gone when a block is
\* due, or returns when none is.
LEMMA LedgerStops ==
    ASSUME TypeInv, RelayInv, ConsumerFindsProposal', Consuming, status' # status
    PROVE  Ledger!Next
<1>1. UNCHANGED <<built, log>> /\ (Consume \/ StopConsuming) /\ Running("consumer")
  BY DEF Consuming, ConsumerNext, Consume, StopConsuming, builderVars, simVars, appVars
<1>2. /\ status \in [Threads -> Statuses] /\ "consumer" \in Threads
      /\ decisionSteps \in Seq(DecisionSteps)
      /\ log \in [Peers -> Seq(Int)] /\ 0 \in Peers
      /\ relayed \in Seq(RelayedBlocks)
  <2>1. 0 \in Peers
    BY NAssumption, SMT DEF Peers
  <2>. QED
    BY <2>1 DEF TypeInv, ChainTypeOK, ChannelsTypeOK, SimTypeOK, AppTypeOK,
                ConsumerTypeOK, Threads, RelayedBlocks
<1>3. PICK n \in Nat : n = Len(log[0])
  BY <1>2, LenProperties
<1>4. PICK done \in Nat : done = Len(relayed)
  BY <1>2, LenProperties
<1>5. Due(decisionSteps, done, n)
  BY <1>1, <1>3, <1>4 DEF RelayInv
<1>6. Len(ValuesOf(relayed)) = done
  <2>1. ValuesOf(relayed) \in [1..done -> Values]
    <3>1. DOMAIN relayed = 1..done
      BY <1>2, <1>4, LenProperties
    <3>2. ASSUME NEW i \in 1..done PROVE relayed[i].value \in Values
      <4>1. relayed[i] \in RelayedBlocks
        BY <1>2, <1>4, ElementOfSeq
      <4>. QED
        BY <4>1 DEF RelayedBlocks
    <3>. QED
      BY <3>1, <3>2 DEF ValuesOf
  <2>. QED
    BY <2>1, SMT
<1>7. CASE Consume
  <2>1. PICK d : /\ d = Head(decisionSteps) /\ decisionSteps # <<>> /\ IsTurn(d)
                 /\ ~Running("task") /\ relayed' = relayed
                 /\ status' = [status EXCEPT !["consumer"] = "no task"]
    <3>1. PICK d : /\ d = Head(decisionSteps) /\ decisionSteps # <<>>
                   /\ d.step = "Finalized" /\ OnFinalized(d)
      BY <1>7 DEF Consume, OnProposed, OnFinalizedElsewhere
    <3>2. ASSUME d.height \notin DOMAIN decisions
          PROVE  status'["consumer"] = "no proposal"
      BY <1>2, <3>1, <3>2 DEF OnFinalized, Ends
    <3>3. d.height \in DOMAIN decisions
      BY <3>2 DEF ConsumerFindsProposal
    <3>. QED
      BY <3>1, <3>3 DEF OnFinalized, FromPeerZero, IsTurn, Ends
  <2>2. d = decisionSteps[1]
    BY <1>2, <2>1, HeadIsFirst
  <2>3. done < n
    BY <1>2, <1>5, <2>1, <2>2, DueTurn
  <2>4. Ledger!ConsumerPanics
    BY <1>1, <1>3, <1>6, <2>1, <2>3
       DEF Ledger!ConsumerPanics, Ledger!Ends, Ledger!Running, Ledger!history, Running,
           ValuesOf, SelectProposer
  <2>. QED
    BY <2>4 DEF Ledger!Next
<1>8. CASE StopConsuming
  <2>1. /\ decisionSteps = <<>> /\ ~Running("simulator") /\ relayed' = relayed
        /\ status' = [status EXCEPT !["consumer"] = "stopped"]
    BY <1>8 DEF StopConsuming, Ends, consumerVars
  <2>2. done <= n /\ done..n-1 = {}
    <3>1. DOMAIN decisionSteps = {}
      BY <2>1, SMT
    <3>. QED
      BY <1>5, <3>1 DEF Due
  <2>3. done = n
    BY <2>2, SMT
  <2>4. Ledger!ConsumerStops
    BY <1>1, <1>3, <1>6, <2>1, <2>3
       DEF Ledger!ConsumerStops, Ledger!Ends, Ledger!Running, Ledger!history, Running,
           ValuesOf, SelectProposer
  <2>. QED
    BY <2>4 DEF Ledger!Next
<1>. QED
  BY <1>1, <1>7, <1>8

\* The consumer relays the block of the log that is due.
LEMMA LedgerRelay ==
    ASSUME TypeInv, RelayInv, Consuming, UNCHANGED status
    PROVE  [Ledger!Next]_(Ledger!logVars)
<1>1. UNCHANGED <<built, log>> /\ (Consume \/ StopConsuming)
  BY DEF Consuming, ConsumerNext, builderVars, simVars, appVars
<1>2. CASE relayed' = relayed
  BY <1>1, <1>2, LedgerStutter
<1>3. CASE relayed' # relayed
  <2>1. Consume
    BY <1>1, <1>3 DEF StopConsuming, consumerVars
  <2>2. PICK d : /\ d = Head(decisionSteps) /\ IsTurn(d) /\ d.height \in DOMAIN decisions
                 /\ Running("task")
                 /\ relayed' = Append(relayed, [height |-> d.height, id |-> d.id,
                                                value |-> decisions[d.height]])
    BY <1>3, <2>1 DEF Consume, OnProposed, OnFinalized, OnFinalizedElsewhere,
                FromPeerZero, IsTurn
  <2>3. /\ decisionSteps \in Seq(DecisionSteps) /\ decisionSteps # <<>>
        /\ log \in [Peers -> Seq(Int)] /\ Running("consumer")
        /\ relayed \in Seq([height : Nat, id : Int, value : Values])
        /\ decisions \in [DOMAIN decisions -> Values]
    BY <2>1 DEF Consume, TypeInv, ChainTypeOK, SimTypeOK, AppTypeOK, ChannelsTypeOK,
                ConsumerTypeOK
  <2>4. PICK n \in Nat, done \in Nat : n = Len(log[0]) /\ done = Len(relayed)
    <3>1. 0 \in Peers
      BY NAssumption, SMT DEF Peers
    <3>. QED
      BY <2>3, <3>1, LenProperties
  <2>5. d \in DecisionSteps /\ d = decisionSteps[1] /\ 1 \in DOMAIN decisionSteps
    BY <2>2, <2>3, SMT
  <2>6. d.height = done /\ done < n
    <3>1. Due(decisionSteps, done, n)
      BY <2>3, <2>4 DEF RelayInv
    <3>. QED
      BY <2>2, <2>3, <2>5, <3>1, DueTurn
  <2>7. PICK v \in Values : v = decisions[d.height] /\ v = built[done + 1]
    <3>1. Genuine(decisions[d.height], built) /\ decisions[d.height].id = done
      BY <2>2, <2>6 DEF RelayInv, Sources
    <3>. QED
      BY <2>2, <2>3, <3>1 DEF Genuine
  <2>8. PICK r \in [height : Nat, id : Int, value : Values] :
           r.value = v /\ relayed' = Append(relayed, r)
    <3>1. d.height \in Nat /\ d.id \in Int
      BY <2>2, <2>5 DEF DecisionSteps, IsTurn
    <3>2. [height |-> d.height, id |-> d.id, value |-> v]
             \in [height : Nat, id : Int, value : Values]
      BY <3>1
    <3>. QED
      BY <2>2, <2>7, <3>2
  <2>9. ValuesOf(relayed') = Append(ValuesOf(relayed), v) /\ Len(ValuesOf(relayed)) = done
    <3>1. relayed \in Seq(RelayedBlocks) /\ r \in RelayedBlocks
      BY <2>3 DEF RelayedBlocks
    <3>2. /\ Len(ValuesOf(relayed)) = Len(relayed)
          /\ ValuesOf(Append(relayed, r)) = Append(ValuesOf(relayed), r.value)
      BY <3>1, ValuesAppend
    <3>. QED
      BY <2>4, <2>8, <3>2
  <2>10. Ledger!Relay
    BY <1>1, <2>2, <2>3, <2>4, <2>6, <2>7, <2>9
       DEF Ledger!Relay, Ledger!Running, Running, ValuesOf, SelectProposer
  <2>. QED
    BY <2>10 DEF Ledger!Next
<1>. QED
  BY <1>2, <1>3

\* The consensus layer implements the log of finalized blocks: blocks are decided in
\* the order in which they were built and relayed in that order, each once, after
\* its decision and with the very transactions of its snapshot of the pool; and no
\* thread of it ends but for the reasons that the log names.
THEOREM Refinement == ChainSpec => ImplementsFinalizedLog
<1>1. ChainInit => Ledger!Init
  <2>1. ASSUME ChainInit
        PROVE  /\ Len(log[SelectProposer]) = 0 /\ built = <<>> /\ relayed = <<>>
               /\ status = [t \in Threads |-> "running"]
    BY <2>1, NAssumption, SMT DEF ChainInit, SimInit, AppInit, BuilderInit, ConsumerInit,
                             ChannelsInit, SelectProposer, Peers
  <2>. QED
    BY <2>1, SMT DEF Ledger!Init, Ledger!Running, Threads
<1>2. /\ TypeInv /\ OrderInv /\ RelayInv /\ OrderInv' /\ SafeInv'
      /\ [ChainNext]_chainVars
      => [Ledger!Next]_(Ledger!logVars)
  <2> SUFFICES ASSUME TypeInv, OrderInv, RelayInv, OrderInv', SafeInv',
                      [ChainNext]_chainVars
               PROVE  [Ledger!Next]_(Ledger!logVars)
    OBVIOUS
  <2>0. NoProcessError' /\ ConsumerFindsProposal'
    BY DEF OrderInv, SafeInv
  <2>1. CASE Builder
    BY <2>1, LedgerBuild
  <2>2. CASE Simulate
    BY <2>0, <2>2, LedgerDecide, LedgerPanics
  <2>3. CASE Consuming
    BY <2>0, <2>3, LedgerRelay, LedgerStops
  <2>4. CASE PoolChanges \/ UNCHANGED chainVars
    <3>1. UNCHANGED <<status, built, log, relayed>>
      BY <2>4 DEF PoolChanges, chainVars, builderVars, simVars, appVars, consumerVars
    <3>. QED
      BY <3>1, LedgerStutter
  <2>5. CASE TaskEnds \/ ConsumerCancelled
    <3>1. /\ UNCHANGED <<built, log, relayed>>
          /\ \/ status' = [status EXCEPT !["task"] = "stopped"]
             \/ /\ Running("consumer")
                /\ status' = [status EXCEPT !["consumer"] = "cancelled"]
      BY <2>5 DEF TaskEnds, ConsumerCancelled, Ends, builderVars, simVars, appVars,
                  consumerVars
    <3>2. status \in [Threads -> Statuses]
      BY DEF TypeInv, ChainTypeOK, ChannelsTypeOK
    <3>3. /\ status'["builder"] = status["builder"]
          /\ status'["simulator"] = status["simulator"]
          /\ \/ status'["consumer"] = status["consumer"]
             \/ Running("consumer") /\ status'["consumer"] = "cancelled"
      BY <3>1, <3>2 DEF Threads
    <3>4. Ledger!Environment
      BY <3>1, <3>3 DEF Ledger!Environment, Ledger!Running, Ledger!history, Running
    <3>. QED
      BY <3>4 DEF Ledger!Next
  <2>. QED
    BY <2>1, <2>2, <2>3, <2>4, <2>5 DEF ChainNext
<1>. QED
  BY <1>1, <1>2, TypeInit, TypeNext, OrderInit, OrderNext, RelayInit, RelayNext,
     SafeInit, SafeNext, PTL DEF ChainSpec, ImplementsFinalizedLog, Ledger!Spec

=============================================================================
