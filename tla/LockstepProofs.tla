--------------------------- MODULE LockstepProofs ---------------------------
(***************************************************************************)
(* The peers move in lockstep: the invariant behind the theorems of        *)
(* DeliveryProofs, and the step in which a peer processes an envelope.     *)
(*                                                                         *)
(* It rests on the order of one FIFO channel that carries every envelope.  *)
(* The argument gives each peer a clock, its height and step in one        *)
(* number, and each envelope the time it is due, the clock of the peers it *)
(* is meant for.  Envelopes are sent in the order in which they are due,   *)
(* no peer's clock is more than one ahead of another's, and what a peer    *)
(* waits for, it has, or the network holds, or an effect will send.        *)
(*                                                                         *)
(* One envelope is out of order: a proposer which applies its proposal at  *)
(* once may send its prevote ahead of the proposal.  No quorum hangs on    *)
(* that vote alone.                                                        *)
(***************************************************************************)
EXTENDS MalachiteProofs

\* The prover of the steps that name no other; most of them need no arithmetic.
USE Zenon

-----------------------------------------------------------------------------
(* The invariant. *)

Due(x, sts) == DueAt(x.payload, sts[x.destination])

\* Envelopes are in the order in which they are due.
InOrder(nw, sts) ==
    \A i, j \in DOMAIN nw :
        i < j /\ ~Overtakes(nw[i].payload) /\ ~Overtakes(nw[j].payload) =>
            Due(nw[i], sts) <= Due(nw[j], sts)

\* The sender has reached the time at which an envelope is due, and the others are
\* at most one behind it; all have started the height of a proposal.
Timely(x, sts) ==
    LET m == x.payload IN
    /\ Clock(sts[x.source]) >= Due(x, sts)
    /\ IsToken(m) => x.source = x.destination
    /\ m.type = "StartHeight" => Clock(sts[x.destination]) = 5 * m.height
    /\ m.type = "Propose" => /\ x.source = 0 /\ x.destination = 0
                             /\ Clock(sts[0]) = Due(x, sts)
    /\ m.type \in {"Proposal", "ProposedValue"} =>
         \A q \in Peers : Clock(sts[q]) >= Due(x, sts)
    /\ m.type = "Vote" => /\ m.id = m.height
                          /\ m.voter = x.source /\ m.voter # x.destination
                          /\ \A q \in Peers : Clock(sts[q]) + 1 >= Due(x, sts)

\* No peer is more than one ahead of another.
Level == \A p, q \in Peers : Clock(states[p]) <= Clock(states[q]) + 1

\* A vote of another peer is heard only when all have come that far.
Heard ==
    \A q, r \in Peers, k \in VoteKinds :
        r # q /\ ~(k = "Prevote" /\ r = 0) /\ VotesOf(states[q], k)[r] # NoVote =>
            \A s \in Peers : Clock(states[s]) >= 5 * states[q].height + VoteStage(k)

Coming(q, m) ==
    \E i \in DOMAIN network : network[i].destination = q /\ network[i].payload = m

Sending(m) == Publish(m) \in effects

\* The votes of those who have cast them, for a peer that still needs them.
VotesOwed ==
    \A q, r \in Peers, k \in VoteKinds :
        LET h == states[q].height IN
        /\ r # q
        /\ Clock(states[q]) \in {5 * h + VoteStage(k) - 1, 5 * h + VoteStage(k)}
        /\ Clock(states[r]) >= 5 * h + VoteStage(k)
        => \/ VotesOf(states[q], k)[r] = h
           \/ Coming(q, Vote(k, h, h, r))
           \/ Sending(Vote(k, h, h, r))

\* The token of a peer that has nothing else to wait for.
TokensOwed ==
    \A q \in Peers : states[q].step \in {"unstarted", "commit", "decided"} =>
        \/ \E i \in DOMAIN network :
              network[i].destination = q /\ IsToken(network[i].payload)
        \/ current = q /\ \E e \in effects : SendsToken(e)

\* The proposer has been asked for a value and has not yet proposed it.
ProposeAt(i) == network[i].payload.type = "Propose"

Asked ==
    \/ \E e \in effects : IsGetValue(e)
    \/ \E i \in DOMAIN network : ProposeAt(i)

\* Until then, nobody has a proposal of the height; afterwards, all have started it.
Asking ==
    /\ \A i, j \in DOMAIN network : ProposeAt(i) /\ ProposeAt(j) => i = j
    /\ (\E e \in effects : IsGetValue(e)) => \A i \in DOMAIN network : ~ProposeAt(i)
    /\ Asked =>
         /\ \A q \in Peers :
               /\ Clock(states[q]) <= Clock(states[0])
               /\ Clock(states[q]) = Clock(states[0]) => states[q].proposal = {}
         /\ \A i \in DOMAIN network :
               network[i].payload.type \in {"Proposal", "ProposedValue"} =>
                   network[i].payload.height # states[0].height
         /\ \A e \in effects : e.effect = "Publish" => e.msg.type = "Vote"
    /\ \A q \in Peers :
          states[q].step = "propose" /\ states[q].proposal # {} =>
              Clock(states[0]) >= Clock(states[q])
    /\ states[0].step = "propose" =>
          Asked \/ \A q \in Peers : Clock(states[q]) >= Clock(states[0])

\* The proposal and the value, for a peer that has not voted; all get the same.
ValueOwed(q, v) ==
    LET h == states[q].height IN
    /\ \/ states[q].proposal = {v}
       \/ /\ states[q].proposal = {}
          /\ Coming(q, Proposal(h, v)) \/ Sending(Proposal(h, v))
    /\ \/ v \in states[q].values
       \/ Coming(q, ProposedValue(h, v)) \/ Sending(Proposal(h, v))

Offered(v) ==
    /\ \A q \in Peers : states[q].step = "propose" =>
          Clock(states[0]) < Clock(states[q]) \/ Asked \/ ValueOwed(q, v)
    /\ \A i \in DOMAIN network :
          LET m == network[i].payload
              st == states[network[i].destination]
          IN /\ m.type \in {"Proposal", "ProposedValue"}
             /\ st.step = "propose" /\ st.height = m.height
             => m.value = v
    /\ \A e \in effects : e.effect = "Publish" /\ e.msg.type # "Vote" => e.msg.value = v

\* An effect that sends something is one of a peer that no other is ahead of.
EffectTimely(e) ==
    LET st == states[current] IN
    /\ IsDecide(e) => e.height = st.height
    /\ SendsToken(e) \/ IsGetValue(e) \/ (e.effect = "Publish" /\ e.msg.type = "Vote") =>
         \A q \in Peers : Clock(states[q]) <= Clock(st)
    /\ e.effect = "Publish" /\ e.msg.type = "Vote" =>
         /\ e.msg = Vote(e.msg.kind, st.height, st.height, current)
         /\ e.msg.kind \in VoteKinds
         /\ Clock(st) = 5 * st.height + VoteStage(e.msg.kind)
    /\ e.effect = "Publish" /\ e.msg.type # "Vote" =>
         /\ e.msg.type = "Proposal" /\ e.msg.height = st.height /\ current = 0
         /\ Clock(st) <= 5 * st.height + 2
         /\ \A q \in Peers : Clock(states[q]) >= 5 * st.height + 1
         /\ \A i \in DOMAIN network :
               ~Overtakes(network[i].payload) => Due(network[i], states) <= 5 * st.height + 1

Lockstep ==
    /\ \A p \in Peers : Settled(p, states[p])
    /\ Level
    /\ InOrder(network, states)
    /\ \A i \in DOMAIN network : Timely(network[i], states)
    /\ Heard
    /\ VotesOwed
    /\ TokensOwed
    /\ Asking
    /\ \E v \in Values : Offered(v)
    /\ \A e \in effects : EffectTimely(e)

-----------------------------------------------------------------------------
(* What the clocks say. *)

\* What the clock of a peer says of its state.
LEMMA PeerClock ==
    ASSUME TypeInv, Lockstep, NEW q \in Peers
    PROVE  /\ states[q] \in PeerStates /\ states[q].height \in Nat
           /\ Clock(states[q]) \in Nat
           /\ \A h \in Nat :
                /\ Clock(states[q]) = 5 * h + 1 <=>
                     states[q].step = "propose" /\ states[q].height = h
                /\ Clock(states[q]) = 5 * h + 2 <=>
                     states[q].step = "prevote" /\ states[q].height = h
                /\ Clock(states[q]) = 5 * h + 3 <=>
                     states[q].step = "precommit" /\ states[q].height = h
                /\ Clock(states[q]) = 5 * h + 4 <=>
                     states[q].step = "commit" /\ states[q].height = h
                /\ Clock(states[q]) >= 5 * h + 1 =>
                     states[q].step # "unstarted" /\ h <= states[q].height
<1>1. states[q] \in PeerStates /\ Settled(q, states[q])
  BY DEF TypeInv, ChainTypeOK, SimTypeOK, Lockstep
<1>2. PICK st \in PeerStates : st = states[q]
  BY <1>1
<1>3. st.step # "newround" /\ (st.step = "unstarted" => st.height = 0)
  BY <1>1, <1>2 DEF Settled, Consistent
<1>4. st.height \in Nat
  BY DEF PeerStates
<1>. QED
  BY <1>2, <1>3, <1>4, ClockReads

\* Level clocks are level heights: who is behind has decided.
LEMMA LevelHeights ==
    ASSUME TypeInv, Lockstep, NEW p \in Peers, NEW q \in Peers,
           states[p].height > states[q].height
    PROVE  states[q].step = "decided" /\ states[p].height = states[q].height + 1
<1>1. /\ states[p].height \in Nat /\ states[q].height \in Nat
      /\ states[p].step \in Steps /\ states[q].step \in Steps
  BY DEF TypeInv, ChainTypeOK, SimTypeOK, PeerStates
<1>2. states[p].step \notin {"unstarted", "newround"} /\ states[q].step # "newround"
  BY <1>1, SMT DEF Lockstep, Settled, Consistent
<1>3. Stage(states[p].step) \in 1..5
  BY <1>1, <1>2, SMT DEF Steps, Stage
<1>4. /\ Stage(states[q].step) \in 0..5
      /\ states[q].step # "decided" => Stage(states[q].step) <= 4
  BY <1>1, <1>2, SMT DEF Steps, Stage
<1>5. 5 * states[p].height + Stage(states[p].step)
          <= 5 * states[q].height + Stage(states[q].step) + 1
  BY DEF Lockstep, Level, Clock
<1>. QED
  BY <1>1, <1>3, <1>4, <1>5, SMT

\* The time at which an envelope is due is a number.
LEMMA DueType ==
    ASSUME TypeInv, Lockstep, NEW i \in DOMAIN network
    PROVE  Due(network[i], states) \in Nat
<1>1. network[i] \in Envelopes
  BY SMT DEF TypeInv, ChainTypeOK, SimTypeOK, AppTypeOK
<1>2. PICK m \in Inputs, q \in Peers : m = network[i].payload /\ q = network[i].destination
  BY <1>1 DEF Envelopes
<1>3. Clock(states[q]) \in Nat
  BY PeerClock
<1>4. VoteStage(m.kind) \in Nat
  BY DEF VoteStage
<1>5. ~IsToken(m) => m.height \in Nat
  BY InputFields DEF IsToken
<1>6. DueAt(m, states[q]) \in Nat
  BY <1>3, <1>4, <1>5, SMT DEF DueAt
<1>. QED
  BY <1>2, <1>6 DEF Due

-----------------------------------------------------------------------------
(* The first envelope is processed. *)

\* Peer p has processed message m and is now in state new.
Stepped(p, m, new) ==
    /\ network # <<>> /\ p = network[1].destination /\ m = network[1].payload
    /\ network' = Tail(network) /\ current' = p
    /\ states' = [states EXCEPT ![p] = new]
    /\ effects = {} /\ effects' = EffectsOf(p, states[p], m, new)
    /\ Finds(p, states[p], m) /\ Settled(p, new) /\ Progress(p, states[p], m, new)
    /\ m.type = "StartHeight" => new = StateAt(m.height, "propose")
    /\ m.type # "StartHeight" => Records(p, states[p], m, new) /\ Casts(p, states[p], new)
    /\ ~Overtakes(m) => \A q \in Peers : Clock(states[q]) >= DueAt(m, states[p])
    /\ Clock(new) # Clock(states[p]) =>
         \A q \in Peers : Clock(states[q]) >= Clock(states[p])

\* No clock goes back, and they stay level.
LEMMA StepClocks ==
    ASSUME TypeInv, Lockstep, NEW p \in Peers, NEW m \in Inputs, NEW new \in PeerStates,
           Stepped(p, m, new)
    PROVE  /\ states'[p] = new /\ \A q \in Peers \ {p} : states'[q] = states[q]
           /\ \A q \in Peers : /\ Clock(states[q]) \in Nat /\ Clock(states'[q]) \in Nat
                               /\ Clock(states[q]) <= Clock(states'[q])
                               /\ Settled(q, states'[q])
           /\ Clock(new) \in {Clock(states[p]), Clock(states[p]) + 1}
           /\ Level'
<1>1. states'[p] = new /\ \A q \in Peers \ {p} : states'[q] = states[q]
  BY DEF Stepped, TypeInv, ChainTypeOK, SimTypeOK
<1>2. \A q \in Peers : Clock(states[q]) \in Nat
  BY PeerClock
<1>3. Clock(new) = Clock(states[p]) \/ Clock(new) = Clock(states[p]) + 1
  BY DEF Stepped, Progress, Advances
<1>4. \A q \in Peers : Clock(states'[q]) \in Nat /\ Clock(states[q]) <= Clock(states'[q])
  BY <1>1, <1>2, <1>3, SMT
<1>5. \A q \in Peers : Settled(q, states'[q])
  BY <1>1 DEF Stepped, Lockstep
<1>6. ASSUME NEW q \in Peers, NEW r \in Peers
      PROVE  Clock(states'[q]) <= Clock(states'[r]) + 1
  <2>1. Clock(states[q]) <= Clock(states[r]) + 1
    BY DEF Lockstep, Level
  <2>2. Clock(new) # Clock(states[p]) => Clock(states[r]) >= Clock(states[p])
    BY DEF Stepped
  <2>3. CASE q # p
    BY <1>1, <1>2, <1>4, <2>1, <2>3, SMT
  <2>4. CASE q = p
    BY <1>1, <1>2, <1>3, <1>4, <2>1, <2>2, <2>4, SMT
  <2>. QED
    BY <2>3, <2>4
<1>. QED
  BY <1>1, <1>2, <1>3, <1>4, <1>5, <1>6 DEF Level

\* The envelopes that are left are those that were behind the first.
LEMMA StepTail ==
    ASSUME TypeInv, NEW p, NEW m, NEW new, Stepped(p, m, new)
    PROVE  /\ network \in Seq(Envelopes) /\ 1 \in DOMAIN network
           /\ \A i \in DOMAIN network' :
                 /\ i \in Nat /\ i + 1 \in DOMAIN network /\ i + 1 # 1
                 /\ network'[i] = network[i + 1] /\ network'[i] \in Envelopes
           /\ \A q, x : Coming(q, x) => Coming(q, x)' \/ (q = p /\ x = m)
           /\ \A i \in DOMAIN network : i # 1 =>
                 i - 1 \in DOMAIN network' /\ network'[i - 1] = network[i]
<1>1. network \in Seq(Envelopes) /\ network # <<>> /\ network' = Tail(network)
  BY DEF TypeInv, ChainTypeOK, SimTypeOK, AppTypeOK, Stepped
<1>2. /\ Len(network) \in Nat /\ Len(network) >= 1 /\ DOMAIN network = 1..Len(network)
      /\ DOMAIN network' = 1..(Len(network) - 1)
      /\ \A i \in 1..(Len(network) - 1) : network'[i] = network[i + 1]
  BY <1>1, SMT
<1>3. \A i \in DOMAIN network' :
         /\ i \in Nat /\ i + 1 \in DOMAIN network /\ i + 1 # 1
         /\ network'[i] = network[i + 1]
  BY <1>2, SMT
<1>4. \A i \in DOMAIN network : network[i] \in Envelopes
  BY <1>1, SMT
<1>5. \A i \in DOMAIN network : i # 1 =>
         i - 1 \in DOMAIN network' /\ network'[i - 1] = network[i]
  <2> SUFFICES ASSUME NEW i \in DOMAIN network, i # 1
               PROVE  i - 1 \in DOMAIN network' /\ network'[i - 1] = network[i]
    OBVIOUS
  <2>1. i - 1 \in 1..(Len(network) - 1) /\ (i - 1) + 1 = i
    BY <1>2, SMT
  <2>. QED
    BY <1>2, <2>1
<1>6. ASSUME NEW q, NEW x, Coming(q, x), ~(q = p /\ x = m)
      PROVE  Coming(q, x)'
  <2>1. PICK i \in DOMAIN network : network[i].destination = q /\ network[i].payload = x
    BY <1>6 DEF Coming
  <2>2. i # 1
    BY <1>6, <2>1 DEF Stepped
  <2>3. i - 1 \in DOMAIN network' /\ network'[i - 1] = network[i]
    BY <1>5, <2>2
  <2>. QED
    BY <2>1, <2>3 DEF Coming
<1>7. 1 \in DOMAIN network
  BY <1>2, SMT
<1>. QED
  BY <1>1, <1>3, <1>4, <1>5, <1>6, <1>7

\* While the proposer's value is in the network, the proposer stays where it is.
LEMMA AskedWaits ==
    ASSUME TypeInv, Lockstep, NEW p \in Peers, NEW m \in Inputs, NEW new \in PeerStates,
           Stepped(p, m, new), NEW i \in DOMAIN network, i # 1, ProposeAt(i)
    PROVE  /\ m.type # "Propose" /\ Asked
           /\ states[0].step = "propose" /\ states'[0].step = "propose"
           /\ states'[0].height = states[0].height
           /\ Clock(states'[0]) = Clock(states[0])
           /\ ~(Carries(m) /\ m.height = states[0].height)
<1>1. 1 \in DOMAIN network /\ network[i] \in Envelopes /\ m = network[1].payload /\ 0 \in Peers
  <2>1. network \in Seq(Envelopes) /\ 1 \in DOMAIN network
    BY StepTail
  <2>2. 0 \in Peers
    BY NAssumption, SMT DEF Peers
  <2>. QED
    BY <2>1, <2>2, SMT DEF Stepped
<1>2. m.type # "Propose" /\ Asked
  BY <1>1 DEF Lockstep, Asking, ProposeAt, Asked
<1>3. ~(Carries(m) /\ m.height = states[0].height)
  BY <1>1, <1>2 DEF Lockstep, Asking, Carries
<1>4. PICK x \in Inputs : x = network[i].payload
  BY <1>1 DEF Envelopes
<1>5. x.type = "Propose" /\ x.height \in Nat
  BY <1>4, InputFields DEF ProposeAt
<1>6. Clock(states[0]) = 5 * x.height + 1
  BY <1>4, <1>5 DEF Lockstep, Timely, Due, DueAt, IsToken
<1>7. states[0].step = "propose"
  BY <1>1, <1>5, <1>6, PeerClock
<1>8. CASE p # 0
  <2>1. states'[0] = states[0]
    BY <1>1, <1>8, StepClocks
  <2>. QED
    BY <1>2, <1>3, <1>7, <2>1
<1>9. CASE p = 0
  <2>1. Clock(new) = Clock(states[0]) /\ new.step = states[0].step /\ ~IsToken(m)
    BY <1>3, <1>7, <1>9 DEF Stepped, Progress, Advances
  <2>2. new.height = states[0].height
    BY <1>9, <2>1 DEF Stepped, Records, IsToken
  <2>3. states'[0] = new
    BY <1>9, StepClocks
  <2>. QED
    BY <1>2, <1>3, <1>7, <2>1, <2>2, <2>3
<1>. QED
  BY <1>8, <1>9

\* Every envelope is due when it was due before, and is as timely.
LEMMA StepNetwork ==
    ASSUME TypeInv, Flow, Lockstep, NEW p \in Peers, NEW m \in Inputs, NEW new \in PeerStates,
           Stepped(p, m, new)
    PROVE  /\ \A i \in DOMAIN network' :
                 Due(network'[i], states') = Due(network[i + 1], states)
           /\ InOrder(network', states')
           /\ \A i \in DOMAIN network' : Timely(network'[i], states')
<1>1. /\ 1 \in DOMAIN network
      /\ \A i \in DOMAIN network' :
           /\ i \in Nat /\ i + 1 \in DOMAIN network /\ i + 1 # 1
           /\ network'[i] = network[i + 1] /\ network'[i] \in Envelopes
  BY StepTail
<1>2. ASSUME NEW i \in DOMAIN network', IsToken(network'[i].payload)
      PROVE  Clock(states'[network'[i].destination]) = Clock(states[network'[i].destination])
  <2>1. PICK q \in Peers, x \in Inputs :
           q = network'[i].destination /\ x = network'[i].payload
    BY <1>1 DEF Envelopes
  <2>2. CASE q # p
    BY <2>1, <2>2, StepClocks
  <2>3. CASE q = p
    <3>1. PICK j \in DOMAIN network : j = i + 1 /\ j # 1 /\ network'[i] = network[j]
      BY <1>1
    <3>2. /\ network[j].payload = x /\ IsToken(network[j].payload)
          /\ network[j].destination = p
      BY <1>2, <2>1, <2>3, <3>1
    <3>3. /\ 1 \in DOMAIN network
          /\ network[1].payload = m /\ network[1].destination = p
      BY <1>1 DEF Stepped
    <3>4. ~IsToken(m)
      BY <3>1, <3>2, <3>3 DEF Flow, NetOK
    <3>5. Fits(x, states[p], log[p])
      BY <3>2 DEF Flow, NetOK
    <3>6. states[p].step \in {"unstarted", "decided", "commit"}
      BY <3>2, <3>5 DEF Fits, IsToken
    <3>7. Clock(new) = Clock(states[p])
      BY <3>4, <3>6, SMT DEF Stepped, Progress, Advances
    <3>. QED
      BY <2>1, <2>3, <3>7, StepClocks
  <2>. QED
    BY <2>2, <2>3
<1>3. ASSUME NEW i \in DOMAIN network'
      PROVE  Due(network'[i], states') = Due(network[i + 1], states)
  BY <1>1, <1>2 DEF Due, DueAt
<1>4. InOrder(network', states')
  <2> SUFFICES ASSUME NEW i \in DOMAIN network', NEW j \in DOMAIN network', i < j,
                      ~Overtakes(network'[i].payload), ~Overtakes(network'[j].payload)
               PROVE  Due(network'[i], states') <= Due(network'[j], states')
    BY DEF InOrder
  <2>1. i + 1 < j + 1
    BY <1>1, SMT
  <2>2. Due(network[i + 1], states) <= Due(network[j + 1], states)
    BY <1>1, <2>1 DEF Lockstep, InOrder
  <2>. QED
    BY <1>3, <2>2
<1>5. ASSUME NEW i \in DOMAIN network'
      PROVE  Timely(network'[i], states')
  <2>1. PICK src \in Peers, q \in Peers, x \in Inputs :
           /\ src = network'[i].source
           /\ q = network'[i].destination /\ x = network'[i].payload
    BY <1>1 DEF Envelopes
  <2>2. PICK d \in Nat : d = Due(network[i + 1], states) /\ d = Due(network'[i], states')
    BY <1>1, <1>3, DueType
  <2>3. Timely(network'[i], states)
    BY <1>1 DEF Lockstep
  <2>4. \A r \in Peers : /\ Clock(states[r]) \in Nat /\ Clock(states'[r]) \in Nat
                         /\ Clock(states[r]) <= Clock(states'[r])
    BY StepClocks
  <2>5. Clock(states'[src]) >= d
    <3>1. Clock(states[src]) >= d
      BY <1>1, <2>1, <2>2, <2>3 DEF Timely
    <3>. QED
      BY <2>4, <3>1, SMT
  <2>6. x.type = "StartHeight" => Clock(states'[q]) = 5 * x.height
    BY <1>2, <2>1, <2>3 DEF Timely, IsToken
  <2>7. x.type = "Propose" => src = 0 /\ q = 0 /\ Clock(states'[0]) = d
    <3>1. x.type = "Propose" => src = 0 /\ q = 0 /\ Clock(states[0]) = d
      BY <1>1, <2>1, <2>2, <2>3 DEF Timely
    <3>2. x.type = "Propose" => Clock(states'[0]) = Clock(states[0])
      BY <1>1, <2>1, AskedWaits DEF ProposeAt
    <3>. QED
      BY <3>1, <3>2
  <2>8. x.type \in {"Proposal", "ProposedValue"} => \A r \in Peers : Clock(states'[r]) >= d
    <3>1. x.type \in {"Proposal", "ProposedValue"} => \A r \in Peers : Clock(states[r]) >= d
      BY <1>1, <2>1, <2>2, <2>3 DEF Timely
    <3>. QED
      BY <2>4, <3>1, SMT
  <2>9. x.type = "Vote" => /\ x.id = x.height /\ x.voter = src /\ x.voter # q
                           /\ \A r \in Peers : Clock(states'[r]) + 1 >= d
    <3>1. x.type = "Vote" => /\ x.id = x.height /\ x.voter = src /\ x.voter # q
                             /\ \A r \in Peers : Clock(states[r]) + 1 >= d
      BY <1>1, <2>1, <2>2, <2>3 DEF Timely
    <3>. QED
      BY <2>4, <3>1, SMT
  <2>10. IsToken(x) => src = q
    BY <2>1, <2>3 DEF Timely
  <2>. QED
    BY <2>1, <2>2, <2>5, <2>6, <2>7, <2>8, <2>9, <2>10 DEF Timely
<1>. QED
  BY <1>3, <1>4, <1>5

\* A vote that is recorded now was in the network when all had come that far.
LEMMA StepHeard ==
    ASSUME TypeInv, Lockstep, NEW p \in Peers, NEW m \in Inputs, NEW new \in PeerStates,
           Stepped(p, m, new)
    PROVE  Heard'
<1> SUFFICES ASSUME NEW q \in Peers, NEW r \in Peers, NEW k \in VoteKinds,
                    r # q, ~(k = "Prevote" /\ r = 0), VotesOf(states'[q], k)[r] # NoVote,
                    NEW s \in Peers
             PROVE  Clock(states'[s]) >= 5 * states'[q].height + VoteStage(k)
  BY DEF Heard
<1>1. /\ states'[p] = new /\ \A a \in Peers \ {p} : states'[a] = states[a]
      /\ Clock(states[s]) \in Nat /\ Clock(states'[s]) \in Nat
      /\ Clock(states[s]) <= Clock(states'[s])
  BY StepClocks
<1>2. states[q].height \in Nat /\ VoteStage(k) \in Nat
  BY PeerClock DEF VoteStage
<1>3. CASE states'[q].height = states[q].height /\ VotesOf(states[q], k)[r] # NoVote
  <2>1. Clock(states[s]) >= 5 * states[q].height + VoteStage(k)
    BY <1>3 DEF Lockstep, Heard
  <2>. QED
    BY <1>1, <1>2, <1>3, <2>1, SMT
<1>4. CASE q # p
  BY <1>1, <1>3, <1>4
<1>5. CASE q = p /\ m.type = "StartHeight"
  <2>1. new = StateAt(m.height, "propose")
    BY <1>5 DEF Stepped
  <2>2. VotesOf(new, k)[r] = NoVote
    BY <2>1 DEF VotesOf, StateAt
  <2>. QED
    BY <1>1, <1>5, <2>2
<1>6. CASE q = p /\ m.type # "StartHeight"
  <2>1. Records(p, states[p], m, new)
    BY <1>6 DEF Stepped
  <2>2. new.height = states[p].height
    BY <2>1 DEF Records
  <2>3. CASE VotesOf(new, k)[r] = VotesOf(states[p], k)[r]
    BY <1>1, <1>3, <1>6, <2>2, <2>3
  <2>4. CASE m.type = "Vote" /\ m.kind = k /\ m.voter = r /\ m.height = states[p].height
    <3>1. ~Overtakes(m)
      BY <2>4 DEF Overtakes
    <3>2. DueAt(m, states[p]) = 5 * states[p].height + VoteStage(k)
      BY <2>4 DEF DueAt, IsToken
    <3>3. Clock(states[s]) >= 5 * states[p].height + VoteStage(k)
      BY <3>1, <3>2 DEF Stepped
    <3>. QED
      BY <1>1, <1>2, <1>6, <2>2, <3>3, SMT
  <2>. QED
    BY <1>6, <2>1, <2>3, <2>4 DEF Records
<1>. QED
  BY <1>4, <1>5, <1>6

\* A vote that is cast now is among the effects; one that arrives is recorded.
LEMMA StepVotesOwed ==
    ASSUME TypeInv, Lockstep, NEW p \in Peers, NEW m \in Inputs, NEW new \in PeerStates,
           Stepped(p, m, new)
    PROVE  VotesOwed'
<1> SUFFICES ASSUME NEW q \in Peers, NEW r \in Peers, NEW k \in VoteKinds, r # q,
                    NEW h, h = states'[q].height,
                    Clock(states'[q]) \in {5 * h + VoteStage(k) - 1, 5 * h + VoteStage(k)},
                    Clock(states'[r]) >= 5 * h + VoteStage(k)
             PROVE  \/ VotesOf(states'[q], k)[r] = h
                    \/ Coming(q, Vote(k, h, h, r))'
                    \/ Sending(Vote(k, h, h, r))'
  BY DEF VotesOwed
<1>1. /\ states'[p] = new /\ \A a \in Peers \ {p} : states'[a] = states[a]
      /\ Clock(new) \in {Clock(states[p]), Clock(states[p]) + 1}
      /\ Clock(states[p]) \in Nat /\ Clock(states[q]) \in Nat /\ Clock(states[r]) \in Nat
  BY StepClocks
<1>2. Clock(states[r]) <= Clock(states[q]) + 1 /\ Clock(states[p]) <= Clock(states[q]) + 1
  BY DEF Lockstep, Level
<1>3. h \in Nat /\ VoteStage(k) \in {2, 3}
  <2>1. states'[q] \in PeerStates
    BY <1>1, PeerClock
  <2>. QED
    BY <2>1 DEF PeerStates, VoteStage
<1>4. \A a, x : Coming(a, x) => Coming(a, x)' \/ (a = p /\ x = m)
  BY StepTail
<1>5. ASSUME h = states[q].height,
             Clock(states[q]) \in {5 * h + VoteStage(k) - 1, 5 * h + VoteStage(k)},
             Clock(states[r]) >= 5 * h + VoteStage(k)
      PROVE  VotesOf(states[q], k)[r] = h \/ Coming(q, Vote(k, h, h, r))
  <2>1. ~Sending(Vote(k, h, h, r))
    BY SMT DEF Stepped, Sending
  <2>. QED
    BY <1>5, <2>1 DEF Lockstep, VotesOwed
<1>6. CASE q # p /\ r # p
  <2>1. states'[q] = states[q] /\ states'[r] = states[r]
    BY <1>1, <1>6
  <2>2. VotesOf(states[q], k)[r] = h \/ Coming(q, Vote(k, h, h, r))
    BY <1>5, <2>1
  <2>. QED
    BY <1>4, <1>6, <2>1, <2>2
<1>7. CASE r = p
  <2>1. states'[q] = states[q] /\ states'[r] = new
    BY <1>1, <1>7
  <2>2. CASE Clock(states[p]) >= 5 * h + VoteStage(k)
    <3>1. VotesOf(states[q], k)[r] = h \/ Coming(q, Vote(k, h, h, r))
      BY <1>5, <1>7, <2>1, <2>2
    <3>. QED
      BY <1>4, <1>7, <2>1, <3>1
  <2>3. CASE ~(Clock(states[p]) >= 5 * h + VoteStage(k))
    <3>1. Clock(new) = 5 * h + VoteStage(k) /\ Clock(new) # Clock(states[p])
      BY <1>1, <1>3, <2>1, <2>3, SMT
    <3>2. Settled(p, new) /\ Settled(p, states[p]) /\ states[p] \in PeerStates
      BY PeerClock DEF Stepped, Lockstep
    <3>3. /\ k = "Prevote" => new.step = "prevote" /\ new.height = h
          /\ k = "Precommit" => new.step = "precommit" /\ new.height = h
      <4>1. /\ new.step # "newround"
            /\ new.step = "unstarted" => new.height = 0
        BY <3>2 DEF Settled, Consistent
      <4>2. /\ k = "Prevote" => Clock(new) = 5 * h + 2
            /\ k = "Precommit" => Clock(new) = 5 * h + 3
        BY <3>1 DEF VoteStage
      <4>3. /\ Clock(new) = 5 * h + 2 <=> new.step = "prevote" /\ new.height = h
            /\ Clock(new) = 5 * h + 3 <=> new.step = "precommit" /\ new.height = h
        BY <1>3, <4>1, ClockReads
      <4>. QED
        BY <4>2, <4>3
    <3>4. m.type # "StartHeight"
      BY <3>3, SMT DEF Stepped, StateAt, VoteKinds
    <3>5. Records(p, states[p], m, new) /\ Casts(p, states[p], new)
      BY <3>4 DEF Stepped
    <3>6. new.height = states[p].height
      BY <3>5 DEF Records
    <3>7. new.step # states[p].step
      BY <3>1, <3>2, <3>6, ClockMoves
    <3>8. Publish(Vote(k, h, h, p)) \in EffectsOf(p, states[p], m, new)
      BY <3>2, <3>3, <3>4, <3>5, <3>6, <3>7, AdvanceSends DEF VoteKinds
    <3>. QED
      BY <1>7, <3>8 DEF Stepped, Sending
  <2>. QED
    BY <2>2, <2>3
<1>8. CASE q = p /\ m.type = "StartHeight"
  <2>1. new = StateAt(m.height, "propose") /\ Clock(states[p]) = 5 * m.height
        /\ m.height \in Nat
    BY <1>8, InputFields DEF Stepped, Finds
  <2>2. h = m.height /\ states'[q] = new /\ states'[r] = states[r]
    BY <1>1, <1>8, <2>1, SMT DEF StateAt
  <2>3. Clock(new) = 5 * h + 1
    <3>1. new.step = "propose" /\ new.height = h
      BY <2>1, <2>2, SMT DEF StateAt
    <3>. QED
      BY <1>3, <3>1, ClockReads
  <2>4. Clock(states[r]) <= 5 * h + 1
    BY <1>2, <1>8, <2>1, <2>2
  <2>. QED
    BY <1>1, <1>3, <2>2, <2>4, SMT
<1>9. CASE q = p /\ m.type # "StartHeight"
  <2>1. Records(p, states[p], m, new) /\ states'[q] = new /\ states'[r] = states[r]
    BY <1>1, <1>9 DEF Stepped
  <2>2. h = states[q].height
    BY <1>9, <2>1 DEF Records
  <2>3. Clock(states[q]) \in {5 * h + VoteStage(k) - 1, 5 * h + VoteStage(k)}
    <3>1. Clock(states[r]) >= 5 * h + VoteStage(k)
      BY <2>1
    <3>2. Clock(states[q]) >= 5 * h + VoteStage(k) - 1
      BY <1>1, <1>2, <1>3, <3>1, SMT
    <3>3. Clock(states[q]) <= 5 * h + VoteStage(k)
      BY <1>1, <1>3, <1>9, <2>1, SMT
    <3>. QED
      BY <1>1, <1>3, <3>2, <3>3, SMT
  <2>4. VotesOf(states[q], k)[r] = h \/ Coming(q, Vote(k, h, h, r))
    BY <1>5, <2>1, <2>2, <2>3
  <2>5. CASE VotesOf(states[q], k)[r] = h
    <3>1. VotesOf(new, k)[r] = h
      BY <1>9, <2>1, <2>2, <2>5, SMT DEF Records
    <3>. QED
      BY <2>1, <3>1
  <2>6. CASE m = Vote(k, h, h, r)
    <3>1. states[p].step # "unstarted"
      <4>1. Clock(states[q]) >= 5 * h + 1
        BY <1>1, <1>3, <2>3, SMT
      <4>. QED
        BY <1>3, <1>9, <4>1, PeerClock
    <3>2. m.type = "Vote" /\ m.kind = k /\ m.voter = r /\ m.height = h
      BY <2>6 DEF Vote
    <3>3. Current(states[p], m)
      BY <1>9, <2>2, <3>1, <3>2 DEF Current
    <3>4. VotesOf(new, k)[r] = h
      BY <1>9, <2>1, <2>2, <3>2, <3>3 DEF Records
    <3>. QED
      BY <2>1, <3>4
  <2>. QED
    BY <1>4, <2>4, <2>5, <2>6
<1>. QED
  BY <1>6, <1>7, <1>8, <1>9

\* A peer that comes to wait for its token has the effect that sends it.
LEMMA StepTokensOwed ==
    ASSUME TypeInv, Lockstep, NEW p \in Peers, NEW m \in Inputs, NEW new \in PeerStates,
           Stepped(p, m, new)
    PROVE  TokensOwed'
<1> SUFFICES ASSUME NEW q \in Peers,
                    states'[q].step \in {"unstarted", "commit", "decided"}
             PROVE  \/ \E i \in DOMAIN network' :
                          network'[i].destination = q /\ IsToken(network'[i].payload)
                    \/ current' = q /\ \E e \in effects' : SendsToken(e)
  BY DEF TokensOwed
<1>1. states'[p] = new /\ \A a \in Peers \ {p} : states'[a] = states[a]
  BY StepClocks
<1>2. ASSUME states[q].step \in {"unstarted", "commit", "decided"}, ~(q = p /\ IsToken(m))
      PROVE  \E i \in DOMAIN network' :
                network'[i].destination = q /\ IsToken(network'[i].payload)
  <2>1. PICK i \in DOMAIN network :
           network[i].destination = q /\ IsToken(network[i].payload)
    BY <1>2 DEF Lockstep, TokensOwed, Stepped
  <2>2. i # 1
    BY <1>2, <2>1 DEF Stepped
  <2>3. i - 1 \in DOMAIN network' /\ network'[i - 1] = network[i]
    BY <2>2, StepTail
  <2>. QED
    BY <2>1, <2>3
<1>3. CASE q # p
  BY <1>1, <1>2, <1>3
<1>4. CASE q = p /\ new.step = states[p].step
  <2>1. m.type # "StartHeight"
    BY <1>1, <1>4, SMT DEF Stepped, StateAt
  <2>2. m.type # "TimeoutElapsed"
    <3>1. ASSUME m.type = "TimeoutElapsed" PROVE FALSE
      <4>1. Advances(p, states[p], m, new) /\ Records(p, states[p], m, new)
        BY <3>1 DEF Stepped, Progress, IsToken
      <4>2. Clock(new) = Clock(states[p]) + 1 /\ new.height = states[p].height
        BY <4>1 DEF Advances, Records
      <4>3. Clock(new) = Clock(states[p]) /\ Clock(states[p]) \in Nat
        BY <1>4, <4>2, PeerClock, ClockMoves
      <4>. QED
        BY <4>2, <4>3, SMT
    <3>. QED
      BY <3>1
  <2>. QED
    BY <1>1, <1>2, <1>4, <2>1, <2>2 DEF IsToken
<1>5. CASE q = p /\ new.step # states[p].step
  <2>1. m.type # "StartHeight"
    BY <1>1, <1>5, SMT DEF Stepped, StateAt
  <2>2. /\ Settled(p, new) /\ Settled(p, states[p]) /\ states[p] \in PeerStates
        /\ Records(p, states[p], m, new) /\ Casts(p, states[p], new)
    BY <2>1, PeerClock DEF Stepped, Lockstep
  <2>3. new.step \in {"commit", "decided"}
    BY <1>1, <1>5, <2>2 DEF Casts
  <2>4. \E e \in EffectsOf(p, states[p], m, new) : SendsToken(e)
    BY <1>5, <2>1, <2>2, <2>3, AdvanceSends
  <2>. QED
    BY <1>5, <2>4 DEF Stepped
<1>. QED
  BY <1>3, <1>4, <1>5

\* A peer is about to propose or to wait for a proposal because it was before, or
\* because it starts a height; the proposer is then asked for a value.
LEMMA StepPropose ==
    ASSUME TypeInv, Lockstep, NEW p \in Peers, NEW m \in Inputs, NEW new \in PeerStates,
           Stepped(p, m, new)
    PROVE  /\ Asked /\ m.type # "Propose" => Asked'
           /\ m.type = "StartHeight" =>
                /\ p = 0 => Asked'
                /\ \A h \in Nat : h = m.height =>
                     /\ Clock(states[p]) = 5 * h /\ Clock(new) = 5 * h + 1
                     /\ new.step = "propose" /\ new.height = h /\ new.proposal = {}
           /\ \A q \in Peers : states'[q].step = "propose" =>
                \/ q = p /\ m.type = "StartHeight"
                \/ /\ ~(q = p /\ m.type = "StartHeight")
                   /\ states[q].step = "propose"
                   /\ states'[q].height = states[q].height
                   /\ Clock(states'[q]) = Clock(states[q])
<1>1. states'[p] = new /\ \A q \in Peers \ {p} : states'[q] = states[q]
  BY StepClocks
<1>2. ASSUME Asked, m.type # "Propose" PROVE Asked'
  <2>1. PICK i \in DOMAIN network : ProposeAt(i)
    BY <1>2 DEF Asked, Stepped
  <2>2. i # 1
    BY <1>2, <2>1 DEF ProposeAt, Stepped
  <2>3. i - 1 \in DOMAIN network' /\ network'[i - 1] = network[i]
    BY <2>2, StepTail
  <2>. QED
    BY <2>1, <2>3 DEF Asked, ProposeAt
<1>3. ASSUME m.type = "StartHeight", p = 0 PROVE Asked'
  BY <1>3, EffectsMade DEF Stepped, Asked
<1>4. ASSUME m.type = "StartHeight", NEW h \in Nat, h = m.height
      PROVE  /\ Clock(states[p]) = 5 * h /\ Clock(new) = 5 * h + 1
             /\ new.step = "propose" /\ new.height = h /\ new.proposal = {}
  <2>1. Clock(states[p]) = 5 * h /\ new = StateAt(h, "propose")
    BY <1>4 DEF Stepped, Finds
  <2>2. new.step = "propose" /\ new.height = h /\ new.proposal = {}
    BY <2>1 DEF StateAt
  <2>3. Clock(new) = 5 * h + 1
    BY <2>2, ClockReads
  <2>. QED
    BY <2>1, <2>2, <2>3
<1>5. ASSUME NEW q \in Peers, states'[q].step = "propose", ~(q = p /\ m.type = "StartHeight")
      PROVE  /\ states[q].step = "propose" /\ states'[q].height = states[q].height
             /\ Clock(states'[q]) = Clock(states[q])
  <2>1. CASE q # p
    BY <1>1, <1>5, <2>1
  <2>2. CASE q = p
    <3>1. Records(p, states[p], m, new) /\ Casts(p, states[p], new) /\ states[p] \in PeerStates
      BY <1>5, <2>2, PeerClock DEF Stepped
    <3>2. states[p].step = "propose" /\ new.height = states[p].height
      BY <1>1, <1>5, <2>2, <3>1 DEF Casts, Records
    <3>3. Clock(new) = Clock(states[p])
      BY <1>1, <1>5, <2>2, <3>1, <3>2, ClockMoves
    <3>. QED
      BY <1>1, <2>2, <3>2, <3>3
  <2>. QED
    BY <2>1, <2>2
<1>. QED
  BY <1>2, <1>3, <1>4, <1>5

\* What processing the proposer's value finds: all peers have started the height,
\* none has a proposal, and nothing in the network is due later.
LEMMA ProposeFinds ==
    ASSUME TypeInv, Lockstep, NEW p \in Peers, NEW m \in Inputs, NEW new \in PeerStates,
           Stepped(p, m, new), m.type = "Propose", NEW h, h = m.height
    PROVE  /\ p = 0 /\ h \in Nat /\ Asked
           /\ states[0].height = h /\ states[0].step = "propose" /\ states[0].proposal = {}
           /\ new.height = h /\ Clock(states[0]) = 5 * h + 1
           /\ \A q \in Peers : Clock(states[q]) = 5 * h + 1 /\ states[q].proposal = {}
                                /\ states[q].height = h
           /\ \A i \in DOMAIN network : Due(network[i], states) <= 5 * h + 1
<1>1. 1 \in DOMAIN network /\ network \in Seq(Envelopes) /\ m = network[1].payload
      /\ p = network[1].destination
  BY StepTail DEF Stepped
<1>2. Timely(network[1], states) /\ p = 0 /\ h \in Nat
  BY <1>1, InputFields DEF Lockstep, Timely
<1>3. states[0].height = h /\ states[0].step = "propose"
  BY <1>2 DEF Stepped, Finds
<1>4. Clock(states[0]) = 5 * h + 1
  BY <1>2, <1>3, PeerClock
<1>5. Asked
  BY <1>1 DEF Asked, ProposeAt
<1>6. ASSUME NEW q \in Peers
      PROVE  Clock(states[q]) = 5 * h + 1 /\ states[q].proposal = {} /\ states[q].height = h
  <2>1. /\ Clock(states[q]) <= Clock(states[0])
        /\ Clock(states[q]) = Clock(states[0]) => states[q].proposal = {}
    BY <1>5 DEF Lockstep, Asking
  <2>2. ~Overtakes(m) /\ DueAt(m, states[p]) = 5 * h + 1
    BY DEF Overtakes, DueAt, IsToken
  <2>3. Clock(states[q]) >= 5 * h + 1 /\ Clock(states[q]) \in Nat
    BY <2>2, PeerClock DEF Stepped
  <2>4. Clock(states[q]) = 5 * h + 1
    BY <1>2, <1>4, <2>1, <2>3, SMT
  <2>. QED
    BY <1>2, <1>4, <2>1, <2>4, PeerClock
<1>7. ASSUME NEW i \in DOMAIN network
      PROVE  Due(network[i], states) <= 5 * h + 1
  <2>0. network[i] \in Envelopes
    BY <1>1, SMT
  <2>1. PICK r \in Peers : r = network[i].source
    BY <2>0 DEF Envelopes
  <2>2. Clock(states[r]) >= Due(network[i], states)
    BY <2>1 DEF Lockstep, Timely
  <2>3. Due(network[i], states) \in Nat
    BY DueType
  <2>. QED
    BY <1>2, <1>6, <2>2, <2>3
<1>8. new.height = h
  BY <1>2, <1>3 DEF Stepped, Records
<1>. QED
  BY <1>2, <1>3, <1>4, <1>5, <1>6, <1>7, <1>8

\* What the effects of the step say of the peer that took it.
LEMMA StepSends ==
    ASSUME TypeInv, Lockstep, NEW p \in Peers, NEW m \in Inputs, NEW new \in PeerStates,
           Stepped(p, m, new), NEW e \in effects'
    PROVE  /\ GoesWith(e, p, states[p], m, new)
           /\ IsGetValue(e) => m.type = "StartHeight" /\ p = 0
<1>1. states[p] \in PeerStates /\ Settled(p, states[p])
  BY PeerClock DEF Lockstep
<1>2. e \in EffectsOf(p, states[p], m, new)
  BY DEF Stepped
<1>3. /\ Settled(p, new) /\ Progress(p, states[p], m, new)
      /\ m.type = "StartHeight" => new = StateAt(m.height, "propose")
      /\ m.type # "StartHeight" => Records(p, states[p], m, new) /\ Casts(p, states[p], new)
  BY DEF Stepped
<1>4. IsGetValue(e) => m.type = "StartHeight" /\ p = 0
  BY <1>2, EffectOrigins
<1>. QED
  BY <1>1, <1>2, <1>3, <1>4, EffectsOfAdvance

\* The effects of the step are timely.
LEMMA StepEffects ==
    ASSUME TypeInv, Flow, Lockstep, NEW p \in Peers, NEW m \in Inputs, NEW new \in PeerStates,
           Stepped(p, m, new)
    PROVE  \A e \in effects' : EffectTimely(e)'
<1> SUFFICES ASSUME NEW e \in effects' PROVE EffectTimely(e)'
  OBVIOUS
<1>1. /\ states'[p] = new /\ \A q \in Peers \ {p} : states'[q] = states[q]
      /\ \A q \in Peers : /\ Clock(states[q]) \in Nat /\ Clock(states'[q]) \in Nat
                          /\ Clock(states[q]) <= Clock(states'[q])
      /\ Clock(new) \in {Clock(states[p]), Clock(states[p]) + 1}
  BY StepClocks
<1>2. current' = p /\ states'[current'] = new
  BY <1>1 DEF Stepped
<1>3. GoesWith(e, p, states[p], m, new)
  BY StepSends
<1>4. ASSUME Clock(new) = Clock(states[p]) + 1, NEW q \in Peers
      PROVE  Clock(states'[q]) <= Clock(new)
  <2>1. Clock(states[q]) <= Clock(states[p]) + 1
    BY DEF Lockstep, Level
  <2>. QED
    BY <1>1, <1>4, <2>1, SMT
<1>5. ASSUME e.effect = "Publish", e.msg.type # "Vote"
      PROVE  /\ e.msg.type = "Proposal" /\ e.msg.height = new.height /\ p = 0
             /\ Clock(new) <= 5 * new.height + 2
             /\ \A q \in Peers : Clock(states'[q]) >= 5 * new.height + 1
             /\ \A i \in DOMAIN network' : Due(network'[i], states') <= 5 * new.height + 1
  <2>1. m.type = "Propose" /\ e.msg = Proposal(m.height, m.value)
    BY <1>3, <1>5 DEF GoesWith
  <2>2. PICK h \in Nat : h = m.height
    BY <2>1, InputFields
  <2>3. /\ p = 0 /\ new.height = h /\ Clock(states[0]) = 5 * h + 1
        /\ \A q \in Peers : Clock(states[q]) = 5 * h + 1
        /\ \A i \in DOMAIN network : Due(network[i], states) <= 5 * h + 1
    BY <2>1, <2>2, ProposeFinds
  <2>4. e.msg.type = "Proposal" /\ e.msg.height = h
    BY <2>1, <2>2, SMT DEF Proposal
  <2>5. Clock(new) <= 5 * h + 2
    BY <1>1, <2>3, SMT
  <2>6. \A q \in Peers : Clock(states'[q]) >= 5 * h + 1
    BY <1>1, <2>3
  <2>7. ASSUME NEW i \in DOMAIN network'
        PROVE  Due(network'[i], states') <= 5 * h + 1
    <3>1. i + 1 \in DOMAIN network
      BY StepTail
    <3>2. Due(network'[i], states') = Due(network[i + 1], states)
      BY StepNetwork
    <3>. QED
      BY <2>3, <3>1, <3>2
  <2>. QED
    BY <2>3, <2>4, <2>5, <2>6, <2>7
<1>. QED
  BY <1>2, <1>3, <1>4, <1>5 DEF EffectTimely, GoesWith

\* The proposer is asked once per height, and answers when all have started it.
LEMMA StepAsking ==
    ASSUME TypeInv, Lockstep, NEW p \in Peers, NEW m \in Inputs, NEW new \in PeerStates,
           Stepped(p, m, new)
    PROVE  Asking'
<1>1. /\ states'[p] = new /\ \A q \in Peers \ {p} : states'[q] = states[q]
      /\ \A q \in Peers : /\ Clock(states[q]) \in Nat /\ Clock(states'[q]) \in Nat
                          /\ Clock(states[q]) <= Clock(states'[q])
      /\ Clock(new) \in {Clock(states[p]), Clock(states[p]) + 1}
  BY StepClocks
<1>2. /\ 1 \in DOMAIN network
      /\ \A i \in DOMAIN network' :
           /\ i \in Nat /\ i + 1 \in DOMAIN network /\ i + 1 # 1
           /\ network'[i] = network[i + 1] /\ network'[i] \in Envelopes
  BY StepTail
<1>3. 0 \in Peers
  BY NAssumption, SMT DEF Peers
<1>4. \A i \in DOMAIN network' : ProposeAt(i)' <=> ProposeAt(i + 1)
  BY <1>2 DEF ProposeAt
<1>5. ASSUME NEW i \in DOMAIN network', NEW j \in DOMAIN network', ProposeAt(i)', ProposeAt(j)'
      PROVE  i = j
  <2>1. i + 1 = j + 1
    BY <1>2, <1>4, <1>5 DEF Lockstep, Asking
  <2>. QED
    BY <1>2, <2>1, SMT
<1>6. ASSUME \E e \in effects' : IsGetValue(e)
      PROVE  m.type = "StartHeight" /\ p = 0 /\ m.height \in Nat
  BY <1>6, StepSends, InputFields
<1>7. ASSUME \E e \in effects' : IsGetValue(e), NEW i \in DOMAIN network', ProposeAt(i)'
      PROVE  FALSE
  <2>1. PICK h \in Nat : h = m.height /\ m.type = "StartHeight" /\ p = 0
    BY <1>6, <1>7
  <2>2. Clock(states[0]) = 5 * h
    BY <2>1, StepPropose, SMT
  <2>3. states[0].step = "propose"
    BY <1>2, <1>4, <1>7, AskedWaits
  <2>4. Clock(states[0]) = 5 * states[0].height + 1 /\ states[0].height \in Nat
    BY <1>3, <2>3, PeerClock
  <2>. QED
    BY <2>2, <2>4, SMT
<1>8. \A e \in effects' : e.effect = "Publish" /\ e.msg.type # "Vote" => m.type = "Propose"
  BY StepSends DEF GoesWith
<1>9. ASSUME NEW i \in DOMAIN network', ProposeAt(i)'
      PROVE  /\ \A q \in Peers :
                   /\ Clock(states'[q]) <= Clock(states'[0])
                   /\ Clock(states'[q]) = Clock(states'[0]) => states'[q].proposal = {}
             /\ \A j \in DOMAIN network' :
                   network'[j].payload.type \in {"Proposal", "ProposedValue"} =>
                       network'[j].payload.height # states'[0].height
             /\ m.type # "Propose"
  <2>1. /\ m.type # "Propose" /\ Asked
        /\ states[0].step = "propose" /\ states'[0].height = states[0].height
        /\ Clock(states'[0]) = Clock(states[0])
        /\ ~(Carries(m) /\ m.height = states[0].height)
    BY <1>2, <1>4, <1>9, AskedWaits
  <2>2. \A q \in Peers : /\ Clock(states[q]) <= Clock(states[0])
                         /\ Clock(states[q]) = Clock(states[0]) => states[q].proposal = {}
    BY <2>1 DEF Lockstep, Asking
  <2>3. \A j \in DOMAIN network' :
           network'[j].payload.type \in {"Proposal", "ProposedValue"} =>
               network'[j].payload.height # states'[0].height
    BY <1>2, <2>1 DEF Lockstep, Asking
  <2>4. PICK h \in Nat : h = states[0].height /\ Clock(states[0]) = 5 * h + 1
    <3>1. Clock(states[0]) = 5 * states[0].height + 1 /\ states[0].height \in Nat
      BY <1>3, <2>1, PeerClock
    <3>. QED
      BY <3>1
  <2>5. Clock(states[p]) = Clock(states[0]) => states[p].step = "propose" /\ states[p].height = h
    <3>1. Clock(states[p]) = 5 * h + 1 <=> states[p].step = "propose" /\ states[p].height = h
      BY PeerClock
    <3>. QED
      BY <2>4, <3>1
  <2>6. /\ Clock(new) <= Clock(states[0])
        /\ Clock(new) = Clock(states[0]) => new.proposal = {}
    <3>1. CASE Clock(new) = Clock(states[p])
      <4>1. m.type # "StartHeight"
        <5>1. m.type = "StartHeight" => Clock(new) = Clock(states[p]) + 1
          BY DEF Stepped, Progress, Advances, IsToken
        <5>. QED
          BY <1>1, <3>1, <5>1, SMT
      <4>2. Records(p, states[p], m, new)
        BY <4>1 DEF Stepped
      <4>3. Clock(states[p]) = Clock(states[0]) => new.proposal = states[p].proposal
        BY <2>1, <2>4, <2>5, <4>2 DEF Records, Carries
      <4>. QED
        BY <2>2, <3>1, <4>3
    <3>2. CASE Clock(new) # Clock(states[p])
      <4>1. Clock(new) = Clock(states[p]) + 1 /\ Advances(p, states[p], m, new)
        BY <3>2 DEF Stepped, Progress, Advances
      <4>2. Clock(states[p]) # Clock(states[0])
        BY <2>1, <2>4, <2>5, <4>1 DEF Advances
      <4>3. Clock(new) <= Clock(states[0])
        BY <1>1, <1>3, <2>2, <4>1, <4>2, SMT
      <4>4. ASSUME Clock(new) = Clock(states[0]) PROVE new.proposal = {}
        <5>1. new.step = "propose"
          <6>1. /\ new.step # "newround"
                /\ new.step = "unstarted" => new.height = 0
            BY DEF Stepped, Settled, Consistent
          <6>2. Clock(new) = 5 * h + 1 <=> new.step = "propose" /\ new.height = h
            BY <6>1, ClockReads
          <6>. QED
            BY <2>4, <4>4, <6>2
        <5>2. m.type = "StartHeight"
          BY <1>1, <3>2, <5>1, StepPropose, SMT
        <5>. QED
          BY <5>2, InputFields, StepPropose
      <4>. QED
        BY <4>3, <4>4
    <3>. QED
      BY <3>1, <3>2
  <2>7. ASSUME NEW q \in Peers
        PROVE  /\ Clock(states'[q]) <= Clock(states'[0])
               /\ Clock(states'[q]) = Clock(states'[0]) => states'[q].proposal = {}
    BY <1>1, <2>1, <2>2, <2>6
  <2>. QED
    BY <2>1, <2>3, <2>7
<1>10. ASSUME \E e \in effects' : IsGetValue(e)
       PROVE  /\ \A q \in Peers :
                    /\ Clock(states'[q]) <= Clock(states'[0])
                    /\ Clock(states'[q]) = Clock(states'[0]) => states'[q].proposal = {}
              /\ \A j \in DOMAIN network' :
                    network'[j].payload.type \in {"Proposal", "ProposedValue"} =>
                        network'[j].payload.height # states'[0].height
              /\ m.type # "Propose"
  <2>1. PICK h \in Nat : h = m.height /\ m.type = "StartHeight" /\ p = 0
    BY <1>6, <1>10
  <2>2. /\ Clock(states[0]) = 5 * h /\ Clock(new) = 5 * h + 1
        /\ new.height = h /\ new.proposal = {} /\ states'[0] = new
    BY <1>1, <2>1, StepPropose, SMT
  <2>3. ASSUME NEW q \in Peers, q # 0
        PROVE  /\ Clock(states'[q]) <= 5 * h + 1
               /\ Clock(states'[q]) = 5 * h + 1 => states'[q].proposal = {}
    <3>1. states'[q] = states[q] /\ Clock(states[q]) <= Clock(states[0]) + 1
      BY <1>1, <1>3, <2>1, <2>3 DEF Lockstep, Level
    <3>2. Clock(states[q]) = 5 * h + 1 => states[q].step = "propose"
      BY PeerClock
    <3>3. states[q].step = "propose" /\ states[q].proposal # {} =>
            Clock(states[0]) >= Clock(states[q])
      BY DEF Lockstep, Asking
    <3>. QED
      BY <2>2, <3>1, <3>2, <3>3, SMT
  <2>4. ASSUME NEW j \in DOMAIN network',
               network'[j].payload.type \in {"Proposal", "ProposedValue"},
               network'[j].payload.height = h
        PROVE  FALSE
    <3>1. Timely(network'[j], states)
      BY <1>2 DEF Lockstep
    <3>2. Due(network'[j], states) = 5 * h + 1
      BY <2>4 DEF Due, DueAt, IsToken
    <3>3. Clock(states[0]) >= 5 * h + 1
      BY <1>3, <2>4, <3>1, <3>2 DEF Timely
    <3>. QED
      BY <2>2, <3>3, SMT
  <2>. QED
    BY <2>1, <2>2, <2>3, <2>4, SMT
<1>11. ASSUME NEW q \in Peers, states'[q].step = "propose", states'[q].proposal # {}
       PROVE  Clock(states'[0]) >= Clock(states'[q])
  <2>1. ~(q = p /\ m.type = "StartHeight")
    BY <1>1, <1>11, InputFields, StepPropose
  <2>2. /\ states[q].step = "propose" /\ Clock(states'[q]) = Clock(states[q])
    BY <1>11, <2>1, StepPropose, SMT
  <2>3. Clock(states[0]) >= Clock(states[q])
    <3>1. CASE states[q].proposal # {}
      BY <2>2, <3>1 DEF Lockstep, Asking
    <3>2. CASE states[q].proposal = {}
      <4>1. q = p /\ m.type # "StartHeight"
        BY <1>1, <1>11, <2>1, <3>2
      <4>2. m.type \in {"Propose", "Proposal"} /\ m.height = states[p].height
        BY <1>1, <1>11, <3>2, <4>1 DEF Stepped, Records
      <4>3. ~Overtakes(m) /\ DueAt(m, states[p]) = 5 * states[p].height + 1
        BY <4>2 DEF Overtakes, DueAt, IsToken
      <4>4. Clock(states[p]) = 5 * states[p].height + 1
        BY <2>2, <4>1, PeerClock
      <4>. QED
        BY <1>3, <4>1, <4>3, <4>4 DEF Stepped
    <3>. QED
      BY <3>1, <3>2
  <2>. QED
    BY <1>1, <1>3, <2>2, <2>3, SMT
<1>12. ASSUME states'[0].step = "propose"
       PROVE  Asked' \/ \A q \in Peers : Clock(states'[q]) >= Clock(states'[0])
  <2>1. CASE p = 0 /\ m.type = "StartHeight"
    BY <2>1, StepPropose
  <2>2. CASE ~(p = 0 /\ m.type = "StartHeight")
    <3>1. states[0].step = "propose" /\ Clock(states'[0]) = Clock(states[0])
      BY <1>3, <1>12, <2>2, StepPropose, SMT
    <3>2. Asked \/ \A q \in Peers : Clock(states[q]) >= Clock(states[0])
      BY <3>1 DEF Lockstep, Asking
    <3>3. CASE \A q \in Peers : Clock(states[q]) >= Clock(states[0])
      BY <1>1, <1>3, <3>1, <3>3, SMT
    <3>4. CASE Asked /\ m.type # "Propose"
      BY <3>4, StepPropose
    <3>5. CASE m.type = "Propose"
      <4>1. \A q \in Peers : Clock(states[q]) = Clock(states[0])
        BY <3>5, ProposeFinds, SMT
      <4>. QED
        BY <1>1, <1>3, <3>1, <4>1
    <3>. QED
      BY <3>2, <3>3, <3>4, <3>5
  <2>. QED
    BY <2>1, <2>2
<1>13. Asked' => \/ \E e \in effects' : IsGetValue(e)
                 \/ \E i \in DOMAIN network' : ProposeAt(i)'
  BY DEF Asked
<1>. QED
  BY <1>5, <1>7, <1>8, <1>9, <1>10, <1>11, <1>12, <1>13 DEF Asking

\* A value that is owed to a peer stays owed to it until it has it.
LEMMA StepValueOwed ==
    ASSUME TypeInv, Lockstep, NEW p \in Peers, NEW m \in Inputs, NEW new \in PeerStates,
           Stepped(p, m, new), m.type # "Propose", NEW v \in Values, Offered(v),
           NEW q \in Peers, states[q].step = "propose", ValueOwed(q, v),
           ~(q = p /\ m.type = "StartHeight")
    PROVE  ValueOwed(q, v)'
<1>1. states'[p] = new /\ \A r \in Peers \ {p} : states'[r] = states[r]
  BY StepClocks
<1>2. \A r, x : Coming(r, x) => Coming(r, x)' \/ (r = p /\ x = m)
  BY StepTail
<1>3. \A x : ~Sending(x)
  BY DEF Stepped, Sending
<1>4. PICK h \in Nat : h = states[q].height
  BY PeerClock
<1>5. /\ \/ states[q].proposal = {v}
         \/ states[q].proposal = {} /\ Coming(q, Proposal(h, v))
      /\ v \in states[q].values \/ Coming(q, ProposedValue(h, v))
  BY <1>3, <1>4 DEF ValueOwed
<1>6. CASE q # p
  BY <1>1, <1>2, <1>4, <1>5, <1>6, SMT DEF ValueOwed
<1>7. CASE q = p
  <2>1. Records(p, states[p], m, new)
    BY <1>7 DEF Stepped
  <2>2. new.height = h
    BY <1>4, <1>7, <2>1 DEF Records
  <2>3. new.proposal # {} => new.proposal = {v}
    <3>1. CASE new.proposal = states[p].proposal
      BY <1>5, <1>7, <3>1
    <3>2. CASE new.proposal # states[p].proposal
      <4>1. m.type = "Proposal" /\ m.height = states[p].height /\ new.proposal = {m.value}
        BY <2>1, <3>2 DEF Records
      <4>2. 1 \in DOMAIN network /\ m = network[1].payload /\ p = network[1].destination
        BY StepTail DEF Stepped
      <4>3. m.value = v
        BY <1>7, <4>1, <4>2 DEF Offered
      <4>. QED
        BY <4>1, <4>3
    <3>. QED
      BY <3>1, <3>2
  <2>4. \/ new.proposal = {v}
        \/ new.proposal = {} /\ Coming(q, Proposal(h, v))'
    <3>1. CASE states[p].proposal = {v}
      BY <2>1, <2>3, <3>1 DEF Records
    <3>2. CASE Coming(q, Proposal(h, v))'
      BY <2>3, <3>2
    <3>3. CASE m = Proposal(h, v)
      <4>1. m.type = "Proposal" /\ Current(states[p], m)
        BY <1>4, <1>7, <3>3 DEF Proposal, Current
      <4>2. new.proposal # {}
        BY <2>1, <4>1 DEF Records
      <4>. QED
        BY <2>3, <4>2
    <3>. QED
      BY <1>2, <1>5, <1>7, <3>1, <3>2, <3>3
  <2>5. v \in new.values \/ Coming(q, ProposedValue(h, v))'
    <3>1. CASE m = ProposedValue(h, v)
      <4>1. m.type = "ProposedValue" /\ Current(states[p], m) /\ m.value = v
        BY <1>4, <1>7, <3>1 DEF ProposedValue, Current
      <4>. QED
        BY <2>1, <4>1 DEF Records
    <3>2. CASE m # ProposedValue(h, v)
      BY <1>2, <1>5, <1>7, <2>1, <3>2 DEF Records
    <3>. QED
      BY <3>1, <3>2
  <2>. QED
    BY <1>1, <1>7, <2>2, <2>4, <2>5 DEF ValueOwed
<1>. QED
  BY <1>6, <1>7

\* The proposer's value becomes the one that all peers are owed.
LEMMA StepOffers ==
    ASSUME TypeInv, Lockstep, NEW p \in Peers, NEW m \in Inputs, NEW new \in PeerStates,
           Stepped(p, m, new), m.type = "Propose"
    PROVE  m.value \in Values /\ Offered(m.value)'
<1>1. states'[p] = new /\ \A r \in Peers \ {p} : states'[r] = states[r]
  BY StepClocks
<1>2. PICK h \in Nat : h = m.height
  BY InputFields
<1>3. /\ p = 0 /\ Asked /\ states[0].height = h /\ states[0].step = "propose"
      /\ \A q \in Peers : states[q].proposal = {} /\ states[q].height = h
  BY <1>2, ProposeFinds
<1>4. m.value \in Values
  BY InputFields
<1>5. Sending(Proposal(h, m.value))'
  <2>1. Current(states[p], m)
    BY <1>2, <1>3 DEF Current
  <2>. QED
    BY <1>2, <1>3, <2>1 DEF Stepped, EffectsOf, InputEffects, When, Sending
<1>6. Records(p, states[p], m, new)
  BY DEF Stepped
<1>7. ASSUME NEW q \in Peers PROVE ValueOwed(q, m.value)' /\ states'[q].height = h
  <2>1. CASE q # p
    BY <1>1, <1>3, <1>5, <2>1 DEF ValueOwed
  <2>2. CASE q = p
    <3>1. new.height = h /\ (new.proposal = {} \/ new.proposal = {m.value})
      BY <1>3, <1>6, <2>2 DEF Records
    <3>. QED
      BY <1>1, <1>5, <2>2, <3>1 DEF ValueOwed
  <2>. QED
    BY <2>1, <2>2
<1>8. ASSUME NEW i \in DOMAIN network',
             network'[i].payload.type \in {"Proposal", "ProposedValue"},
             states'[network'[i].destination].height = network'[i].payload.height
      PROVE  FALSE
  <2>1. i + 1 \in DOMAIN network /\ network'[i] = network[i + 1] /\ network'[i] \in Envelopes
    BY StepTail
  <2>2. network'[i].destination \in Peers
    BY <2>1 DEF Envelopes
  <2>3. network[i + 1].payload.height = states[0].height
    BY <1>3, <1>7, <1>8, <2>1, <2>2
  <2>. QED
    BY <1>3, <1>8, <2>1, <2>3 DEF Lockstep, Asking
<1>9. ASSUME NEW e \in effects', e.effect = "Publish", e.msg.type # "Vote"
      PROVE  e.msg.value = m.value
  <2>1. e.msg = Proposal(m.height, m.value)
    BY <1>9, StepSends DEF GoesWith
  <2>. QED
    BY <2>1, SMT DEF Proposal
<1>. QED
  BY <1>4, <1>7, <1>8, <1>9 DEF Offered

\* There is one value that all peers are owed.
LEMMA StepOffered ==
    ASSUME TypeInv, Lockstep, NEW p \in Peers, NEW m \in Inputs, NEW new \in PeerStates,
           Stepped(p, m, new)
    PROVE  \E v \in Values : Offered(v)'
<1>1. CASE m.type = "Propose"
  BY <1>1, StepOffers
<1>2. CASE m.type # "Propose"
  <2>1. PICK v \in Values : Offered(v)
    BY DEF Lockstep
  <2>2. /\ states'[p] = new /\ \A q \in Peers \ {p} : states'[q] = states[q]
        /\ \A q \in Peers : /\ Clock(states[q]) \in Nat /\ Clock(states'[q]) \in Nat
                            /\ Clock(states[q]) <= Clock(states'[q])
        /\ Clock(new) \in {Clock(states[p]), Clock(states[p]) + 1}
    BY StepClocks
  <2>3. 0 \in Peers
    BY NAssumption, SMT DEF Peers
  <2>4. Asked => Asked'
    BY <1>2, StepPropose
  <2>5. ASSUME NEW q \in Peers, states'[q].step = "propose", ~Asked'
        PROVE  Clock(states'[0]) < Clock(states'[q]) \/ ValueOwed(q, v)'
    <3>1. CASE q = p /\ m.type = "StartHeight"
      <4>1. PICK h \in Nat : h = m.height
        BY <3>1, InputFields
      <4>2. p # 0 /\ Clock(states[p]) = 5 * h /\ Clock(new) = 5 * h + 1
        BY <2>5, <3>1, <4>1, StepPropose, SMT
      <4>3. Clock(states[0]) <= Clock(states[p]) + 1
        BY <2>3 DEF Lockstep, Level
      <4>4. Clock(states[0]) # 5 * h + 1
        <5>1. Clock(states[0]) = 5 * h + 1 => states[0].step = "propose"
          BY <2>3, <4>1, PeerClock
        <5>2. states[0].step = "propose" => \A r \in Peers : Clock(states[r]) >= Clock(states[0])
          BY <2>4, <2>5 DEF Lockstep, Asking
        <5>. QED
          BY <4>1, <4>2, <5>1, <5>2, SMT
      <4>. QED
        BY <2>2, <2>3, <3>1, <4>1, <4>2, <4>3, <4>4, SMT
    <3>2. CASE ~(q = p /\ m.type = "StartHeight")
      <4>1. states[q].step = "propose" /\ Clock(states'[q]) = Clock(states[q])
        BY <2>5, <3>2, StepPropose, SMT
      <4>2. Clock(states[0]) < Clock(states[q]) \/ ValueOwed(q, v)
        BY <2>1, <2>4, <2>5, <4>1 DEF Offered
      <4>3. CASE ValueOwed(q, v)
        BY <1>2, <2>1, <3>2, <4>1, <4>3, StepValueOwed
      <4>4. CASE Clock(states[0]) < Clock(states[q]) /\ ~(Clock(states'[0]) < Clock(states'[q]))
        <5>1. p = 0 /\ Clock(states'[0]) = Clock(states[q]) /\ Clock(states'[0]) # Clock(states[0])
          BY <2>2, <2>3, <4>1, <4>4, SMT
        <5>2. PICK g \in Nat : Clock(states[q]) = 5 * g + 1
          BY <4>1, PeerClock
        <5>3. new.step = "propose"
          <6>1. /\ new.step # "newround"
                /\ new.step = "unstarted" => new.height = 0
            BY DEF Stepped, Settled, Consistent
          <6>2. Clock(new) = 5 * g + 1
            BY <2>2, <5>1, <5>2
          <6>. QED
            BY <5>2, <6>1, <6>2, ClockReads
        <5>4. m.type = "StartHeight"
          BY <2>2, <5>1, <5>3, StepPropose, SMT
        <5>. QED
          BY <2>5, <5>1, <5>4, StepPropose
      <4>. QED
        BY <4>2, <4>3, <4>4
    <3>. QED
      BY <3>1, <3>2
  <2>6. ASSUME NEW i \in DOMAIN network',
               network'[i].payload.type \in {"Proposal", "ProposedValue"},
               states'[network'[i].destination].step = "propose",
               states'[network'[i].destination].height = network'[i].payload.height
        PROVE  network'[i].payload.value = v
    <3>1. i + 1 \in DOMAIN network /\ network'[i] = network[i + 1] /\ network'[i] \in Envelopes
      BY StepTail
    <3>2. PICK d \in Peers : d = network'[i].destination
      BY <3>1 DEF Envelopes
    <3>3. ~(d = p /\ m.type = "StartHeight")
      <4> SUFFICES ASSUME d = p, m.type = "StartHeight" PROVE FALSE
        OBVIOUS
      <4>1. PICK h \in Nat : h = m.height
        BY InputFields
      <4>2. Clock(states[p]) = 5 * h /\ new.height = h
        BY <4>1, StepPropose, SMT
      <4>3. Due(network[i + 1], states) = 5 * h + 1
        BY <2>2, <2>6, <3>1, <3>2, <4>2 DEF Due, DueAt, IsToken
      <4>4. Clock(states[p]) >= Due(network[i + 1], states)
        BY <2>6, <3>1 DEF Lockstep, Timely
      <4>. QED
        BY <4>1, <4>2, <4>3, <4>4, SMT
    <3>4. states[d].step = "propose" /\ states'[d].height = states[d].height
      BY <2>6, <3>2, <3>3, StepPropose, SMT
    <3>. QED
      BY <2>1, <2>6, <3>1, <3>2, <3>4 DEF Offered
  <2>7. \A e \in effects' : ~(e.effect = "Publish" /\ e.msg.type # "Vote")
    BY <1>2, StepSends DEF GoesWith
  <2>8. Offered(v)'
    BY <2>5, <2>6, <2>7 DEF Offered
  <2>. QED
    BY <2>1, <2>8
<1>. QED
  BY <1>1, <1>2

=============================================================================
