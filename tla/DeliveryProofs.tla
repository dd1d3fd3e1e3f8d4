--------------------------- MODULE DeliveryProofs ---------------------------
(***************************************************************************)
(* The simulator never waits on an empty network, and no message reaches a *)
(* peer before its height does, for every number of peers and heights.     *)
(*                                                                         *)
(* The effects that the application handles keep the peers in lockstep     *)
(* (see LockstepProofs), and so does every other step.  A peer that is     *)
(* behind all others therefore finds an envelope in the network that is    *)
(* due: the network is not dry, and whatever comes first in it is not too  *)
(* early for anyone.                                                       *)
(***************************************************************************)
EXTENDS OrderProofs, LockstepProofs

\* The prover of the steps that name no other; most of them need no arithmetic.
USE Zenon

-----------------------------------------------------------------------------
(* The application handles an effect: the envelopes of S are sent. *)

Grown(S) ==
    /\ DOMAIN network' \subseteq Nat
    /\ \A i \in DOMAIN network : i \in DOMAIN network' /\ network'[i] = network[i]
    /\ \A i \in DOMAIN network' \ DOMAIN network :
          network'[i] \in S /\ \A j \in DOMAIN network : j < i
    /\ \A x \in S : \E i \in DOMAIN network' : network'[i] = x

\* Sending several envelopes.
LEMMA GrownConcat ==
    ASSUME network \in Seq(Envelopes), NEW more \in Seq(Envelopes),
           network' = network \o more
    PROVE  Grown({more[i] : i \in DOMAIN more})
<1> DEFINE S == {more[i] : i \in DOMAIN more}
<1>1. PICK k \in Nat, n \in Nat : k = Len(network) /\ n = Len(more)
  BY LenProperties
<1>2. /\ DOMAIN network' = 1..(k + n) /\ DOMAIN network = 1..k /\ DOMAIN more = 1..n
      /\ \A i \in 1..k : network'[i] = network[i]
      /\ \A i \in (k+1)..(k+n) : network'[i] = more[i - k]
  BY <1>1, SMT
<1>3. ASSUME NEW i \in DOMAIN network' \ DOMAIN network
      PROVE  network'[i] \in S /\ \A j \in DOMAIN network : j < i
  <2>1. i \in (k+1)..(k+n) /\ i - k \in 1..n
    BY <1>2, SMT
  <2>. QED
    BY <1>2, <2>1, SMT
<1>4. ASSUME NEW x \in S PROVE \E i \in DOMAIN network' : network'[i] = x
  <2>1. PICK j \in 1..n : x = more[j]
    BY <1>2
  <2>2. k + j \in (k+1)..(k+n) /\ (k + j) - k = j
    BY <1>1, <2>1, SMT
  <2>3. network'[k + j] = x /\ k + j \in DOMAIN network'
    BY <1>1, <1>2, <2>1, <2>2, SMT
  <2>. QED
    BY <2>3
<1>5. /\ DOMAIN network' \subseteq Nat
      /\ \A i \in DOMAIN network : i \in DOMAIN network' /\ network'[i] = network[i]
  BY <1>1, <1>2, SMT
<1>. QED
  BY <1>3, <1>4, <1>5 DEF Grown

\* Sending one envelope.
LEMMA GrownAppend ==
    ASSUME network \in Seq(Envelopes), NEW x \in Envelopes, network' = Append(network, x)
    PROVE  Grown({x})
<1>1. PICK k \in Nat : k = Len(network)
  BY LenProperties
<1>2. /\ DOMAIN network' = 1..(k + 1) /\ DOMAIN network = 1..k
      /\ \A i \in 1..k : network'[i] = network[i]
      /\ network'[k + 1] = x
  BY <1>1, SMT
<1>3. ASSUME NEW i \in DOMAIN network' \ DOMAIN network
      PROVE  network'[i] \in {x} /\ \A j \in DOMAIN network : j < i
  <2>1. i = k + 1
    BY <1>2, SMT
  <2>. QED
    BY <1>2, <2>1, SMT
<1>. QED
  BY <1>1, <1>2, <1>3, SMT DEF Grown

\* What is sent comes later than all that is in the network, which stays as it is.
LEMMA SentInOrder ==
    ASSUME TypeInv, Lockstep, UNCHANGED states, NEW S \in SUBSET Envelopes, Grown(S),
           NEW d \in Nat,
           \A x \in S : /\ Timely(x, states)
                        /\ ~Overtakes(x.payload) => Due(x, states) = d,
           S # {} => \A i \in DOMAIN network :
                        ~Overtakes(network[i].payload) => Due(network[i], states) <= d
    PROVE  /\ InOrder(network', states')
           /\ \A i \in DOMAIN network' : Timely(network'[i], states')
<1>1. \A i \in DOMAIN network' : Timely(network'[i], states')
  BY DEF Grown, Lockstep
<1>2. ASSUME NEW i \in DOMAIN network', NEW j \in DOMAIN network', i < j,
             ~Overtakes(network'[i].payload), ~Overtakes(network'[j].payload)
      PROVE  Due(network'[i], states') <= Due(network'[j], states')
  <2>1. CASE j \in DOMAIN network
    <3>1. i \in DOMAIN network
      BY <1>2, <2>1, SMT DEF Grown
    <3>. QED
      BY <1>2, <2>1, <3>1 DEF Grown, Lockstep, InOrder
  <2>2. CASE j \notin DOMAIN network
    <3>1. network'[j] \in S /\ Due(network'[j], states') = d
      BY <1>2, <2>2 DEF Grown
    <3>2. CASE i \in DOMAIN network
      BY <1>2, <3>1, <3>2 DEF Grown
    <3>3. CASE i \notin DOMAIN network
      BY <1>2, <3>1, <3>3, SMT DEF Grown
    <3>. QED
      BY <3>2, <3>3
  <2>. QED
    BY <2>1, <2>2
<1>. QED
  BY <1>1, <1>2 DEF InOrder

\* What was coming still is, and so is what is sent.
LEMMA SentComes ==
    ASSUME NEW S, Grown(S)
    PROVE  /\ \A q, m : Coming(q, m) => Coming(q, m)'
           /\ \A x \in S : Coming(x.destination, x.payload)'
BY DEF Grown, Coming

\* All that handling an effect leaves in lockstep, except for the proposal.
LEMMA SentInLockstep ==
    ASSUME TypeInv, Lockstep, NEW e \in effects, effects' = effects \ {e},
           UNCHANGED <<states, current>>, NEW S \in SUBSET Envelopes, Grown(S),
           NEW d \in Nat,
           \A x \in S : /\ Timely(x, states)
                        /\ ~Overtakes(x.payload) => Due(x, states) = d,
           S # {} => \A i \in DOMAIN network :
                        ~Overtakes(network[i].payload) => Due(network[i], states) <= d,
           \A y \in effects' : y.effect = "Publish" /\ y.msg.type # "Vote" =>
               \A x \in S : ~Overtakes(x.payload) => d <= 5 * states[current].height + 1,
           SendsToken(e) =>
               \E x \in S : x.destination = current /\ IsToken(x.payload),
           e.effect = "Publish" /\ e.msg.type = "Vote" =>
               \A q \in Peers \ {current} :
                   \E x \in S : x.destination = q /\ x.payload = e.msg,
           Asking', (\E v \in Values : Offered(v))'
    PROVE  Lockstep'
<1>1. (\A p \in Peers : Settled(p, states[p]))' /\ Level' /\ Heard'
  BY DEF Lockstep, Level, Heard
<1>2. InOrder(network', states') /\ \A i \in DOMAIN network' : Timely(network'[i], states')
  BY SentInOrder
<1>3. VotesOwed'
  <2>1. ASSUME NEW q \in Peers, NEW r \in Peers, NEW k \in VoteKinds, NEW h,
               h = states[q].height, r # q, Sending(Vote(k, h, h, r))
        PROVE  Coming(q, Vote(k, h, h, r))' \/ Sending(Vote(k, h, h, r))'
    <3>1. CASE Publish(Vote(k, h, h, r)) = e
      <4>1. e.effect = "Publish" /\ e.msg = Vote(k, h, h, r)
        BY <3>1 DEF Publish
      <4>2. e.msg.type = "Vote" /\ e.msg.voter = r
        BY <4>1, SMT DEF Vote
      <4>3. EffectTimely(e)
        BY DEF Lockstep
      <4>4. e.msg.voter = current
        BY <4>1, <4>2, <4>3, SMT DEF EffectTimely, Vote
      <4>5. PICK x \in S : x.destination = q /\ x.payload = e.msg
        BY <2>1, <4>1, <4>2, <4>4
      <4>. QED
        BY <4>1, <4>5, SentComes
    <3>2. CASE Publish(Vote(k, h, h, r)) # e
      BY <2>1, <3>2 DEF Sending
    <3>. QED
      BY <3>1, <3>2
  <2>2. \A q, m : Coming(q, m) => Coming(q, m)'
    BY SentComes
  <2>3. ASSUME NEW q \in Peers, NEW r \in Peers, NEW k \in VoteKinds, NEW h,
               h = states[q].height, r # q,
               Clock(states[q]) \in {5 * h + VoteStage(k) - 1, 5 * h + VoteStage(k)},
               Clock(states[r]) >= 5 * h + VoteStage(k)
        PROVE  \/ VotesOf(states[q], k)[r] = h
               \/ Coming(q, Vote(k, h, h, r))'
               \/ Sending(Vote(k, h, h, r))'
    <3>1. \/ VotesOf(states[q], k)[r] = h
          \/ Coming(q, Vote(k, h, h, r))
          \/ Sending(Vote(k, h, h, r))
      BY <2>3 DEF Lockstep, VotesOwed
    <3>. QED
      BY <2>1, <2>2, <2>3, <3>1
  <2>. QED
    BY <2>3 DEF VotesOwed
<1>4. TokensOwed'
  <2>1. ASSUME NEW q \in Peers, states[q].step \in {"unstarted", "commit", "decided"}
        PROVE  \/ \E i \in DOMAIN network' :
                     network'[i].destination = q /\ IsToken(network'[i].payload)
               \/ current = q /\ \E y \in effects' : SendsToken(y)
    <3>1. \/ \E i \in DOMAIN network :
                network[i].destination = q /\ IsToken(network[i].payload)
          \/ current = q /\ \E y \in effects : SendsToken(y)
      BY <2>1 DEF Lockstep, TokensOwed
    <3>2. CASE current = q /\ SendsToken(e)
      BY <3>2 DEF Grown
    <3>3. CASE ~(current = q /\ SendsToken(e))
      BY <3>1, <3>3 DEF Grown
    <3>. QED
      BY <3>2, <3>3
  <2>. QED
    BY <2>1 DEF TokensOwed
<1>5. ASSUME NEW y \in effects' PROVE EffectTimely(y)'
  <2>1. EffectTimely(y)
    BY DEF Lockstep
  <2>2. ASSUME y.effect = "Publish", y.msg.type # "Vote", NEW i \in DOMAIN network',
               ~Overtakes(network'[i].payload)
        PROVE  Due(network'[i], states) <= 5 * states[current].height + 1
    <3>1. CASE i \in DOMAIN network
      BY <2>1, <2>2, <3>1 DEF EffectTimely, Grown
    <3>2. CASE i \notin DOMAIN network
      <4>1. network'[i] \in S
        BY <2>2, <3>2 DEF Grown
      <4>. QED
        BY <2>2, <4>1
    <3>. QED
      BY <3>1, <3>2
  <2>. QED
    BY <2>1, <2>2 DEF EffectTimely
<1>. QED
  BY <1>1, <1>2, <1>3, <1>4, <1>5 DEF Lockstep

\* Sending votes and tokens leaves the proposal as it is.
LEMMA QuietSent ==
    ASSUME TypeInv, Lockstep, NEW e \in effects, effects' = effects \ {e},
           UNCHANGED <<states, current>>, NEW S \in SUBSET Envelopes, Grown(S),
           \A x \in S : IsToken(x.payload) \/ x.payload.type = "Vote",
           ~IsGetValue(e), ~(e.effect = "Publish" /\ e.msg.type # "Vote")
    PROVE  Asking' /\ (\E v \in Values : Offered(v))'
<1>1. \A x \in S : x.payload.type \notin {"Propose", "Proposal", "ProposedValue"}
  BY DEF IsToken
<1>2. \A i \in DOMAIN network' : network'[i].payload.type \in {"Propose", "Proposal", "ProposedValue"}
         => i \in DOMAIN network /\ network'[i] = network[i]
  BY <1>1 DEF Grown
<1>3. Asked' <=> Asked
  BY <1>2 DEF Asked, ProposeAt, Grown
<1>4. Asking'
  <2>1. \A i, j \in DOMAIN network' : ProposeAt(i)' /\ ProposeAt(j)' => i = j
    BY <1>2 DEF Lockstep, Asking, ProposeAt
  <2>2. (\E x \in effects' : IsGetValue(x)) => \A i \in DOMAIN network' : ~ProposeAt(i)'
    BY <1>2 DEF Lockstep, Asking, ProposeAt
  <2>3. Asked =>
         /\ \A q \in Peers :
               /\ Clock(states[q]) <= Clock(states[0])
               /\ Clock(states[q]) = Clock(states[0]) => states[q].proposal = {}
         /\ \A i \in DOMAIN network' :
               network'[i].payload.type \in {"Proposal", "ProposedValue"} =>
                   network'[i].payload.height # states[0].height
         /\ \A x \in effects' : x.effect = "Publish" => x.msg.type = "Vote"
    BY <1>2 DEF Lockstep, Asking
  <2>4. /\ \A q \in Peers :
             states[q].step = "propose" /\ states[q].proposal # {} =>
                 Clock(states[0]) >= Clock(states[q])
        /\ states[0].step = "propose" =>
             Asked \/ \A q \in Peers : Clock(states[q]) >= Clock(states[0])
    BY DEF Lockstep, Asking
  <2>. QED
    BY <1>3, <2>1, <2>2, <2>3, <2>4 DEF Asking
<1>5. PICK v \in Values : Offered(v)
  BY DEF Lockstep
<1>6. \A h : Sending(Proposal(h, v)) => Sending(Proposal(h, v))'
  BY SMT DEF Sending, Publish, Proposal
<1>7. \A q, m : Coming(q, m) => Coming(q, m)'
  BY SentComes
<1>8. ASSUME NEW q \in Peers, ValueOwed(q, v) PROVE ValueOwed(q, v)'
  BY <1>6, <1>7, <1>8 DEF ValueOwed
<1>9. Offered(v)'
  <2>1. \A q \in Peers : states[q].step = "propose" =>
           Clock(states[0]) < Clock(states[q]) \/ Asked' \/ ValueOwed(q, v)'
    BY <1>3, <1>5, <1>8 DEF Offered
  <2>2. \A i \in DOMAIN network' :
          /\ network'[i].payload.type \in {"Proposal", "ProposedValue"}
          /\ states[network'[i].destination].step = "propose"
          /\ states[network'[i].destination].height = network'[i].payload.height
          => network'[i].payload.value = v
    BY <1>2, <1>5 DEF Offered
  <2>3. \A x \in effects' : x.effect = "Publish" /\ x.msg.type # "Vote" => x.msg.value = v
    BY <1>5 DEF Offered
  <2>. QED
    BY <2>1, <2>2, <2>3 DEF Offered
<1>. QED
  BY <1>4, <1>5, <1>9

\* Nothing in the network is due later than the peer that is ahead of all.
LEMMA NoneIsLater ==
    ASSUME TypeInv, Lockstep, NEW c \in Peers,
           \A q \in Peers : Clock(states[q]) <= Clock(states[c])
    PROVE  \A i \in DOMAIN network : Due(network[i], states) <= Clock(states[c])
<1> SUFFICES ASSUME NEW i \in DOMAIN network
             PROVE  Due(network[i], states) <= Clock(states[c])
  OBVIOUS
<1>1. network[i] \in Envelopes
  BY SMT DEF TypeInv, ChainTypeOK, SimTypeOK, AppTypeOK
<1>2. PICK r \in Peers : r = network[i].source
  BY <1>1 DEF Envelopes
<1>3. Clock(states[r]) >= Due(network[i], states)
  BY <1>2 DEF Lockstep, Timely
<1>4. /\ Due(network[i], states) \in Nat /\ Clock(states[r]) \in Nat
      /\ Clock(states[c]) \in Nat /\ Clock(states[r]) <= Clock(states[c])
  BY DueType, PeerClock
<1>. QED
  BY <1>3, <1>4, SMT

\* A peer sends itself the token that makes it change its height.
LEMMA TokenSent ==
    ASSUME TypeInv, Flow, Lockstep, NEW e \in effects, effects' = effects \ {e},
           UNCHANGED <<states, current>>, SendsToken(e), NEW m \in Inputs, IsToken(m),
           m.type = "StartHeight" => Clock(states[current]) = 5 * m.height,
           network' = Append(network, Envelope(current, current, m))
    PROVE  Lockstep'
<1>1. network \in Seq(Envelopes)
  BY DEF TypeInv, ChainTypeOK, SimTypeOK, AppTypeOK
<1>2. PICK c \in Peers : c = current
  BY DEF TypeInv, ChainTypeOK, SimTypeOK, AppTypeOK
<1>3. PICK x \in Envelopes : /\ x = Envelope(c, c, m) /\ x.source = c
                             /\ x.destination = c /\ x.payload = m
  BY EnvelopeType DEF Envelope
<1>4. PICK d \in Nat : d = Clock(states[c])
  BY PeerClock
<1>5. Grown({x})
  BY <1>1, <1>2, <1>3, GrownAppend
<1>6. Timely(x, states) /\ Due(x, states) = d
  <2>1. Due(x, states) = d
    BY <1>3, <1>4 DEF Due, DueAt
  <2>2. m.type \in {"StartHeight", "TimeoutElapsed"}
    BY DEF IsToken
  <2>. QED
    BY <1>2, <1>3, <1>4, <2>1, <2>2, SMT DEF Timely
<1>7. EffectTimely(e)
  BY DEF Lockstep
<1>8. \A i \in DOMAIN network : Due(network[i], states) <= d
  BY <1>2, <1>4, <1>7, NoneIsLater DEF EffectTimely
<1>9. e.effect # "Publish" /\ ~IsGetValue(e)
  BY DEF SendsToken, IsDecide, IsGetValue
<1>10. \A y \in effects' : ~(y.effect = "Publish" /\ y.msg.type # "Vote")
  <2> SUFFICES ASSUME NEW y \in effects', y.effect = "Publish", y.msg.type # "Vote"
               PROVE  FALSE
    OBVIOUS
  <2>1. PICK h \in Nat : h = states[c].height
    BY PeerClock
  <2>2. Clock(states[c]) <= 5 * h + 2
    BY <1>2, <2>1 DEF Lockstep, EffectTimely
  <2>3. states[c].step \in {"commit", "decided"}
    BY <1>2 DEF Flow, EffectOK
  <2>4. Clock(states[c]) \in {5 * h + 4, 5 * h + 5}
    BY <2>1, <2>3 DEF Clock, Stage
  <2>. QED
    BY <2>1, <2>2, <2>4, SMT
<1>11. Asking' /\ (\E v \in Values : Offered(v))'
  <2>1. {x} \in SUBSET Envelopes /\ \A y \in {x} : IsToken(y.payload) \/ y.payload.type = "Vote"
    BY <1>3
  <2>. QED
    BY <1>5, <1>9, <2>1, QuietSent
<1>12. \E y \in {x} : y.destination = current /\ IsToken(y.payload)
  BY <1>2, <1>3
<1>. QED
  BY <1>5, <1>6, <1>8, <1>9, <1>10, <1>11, <1>12, SentInLockstep, SMT

\* handle_schedule_timeout: the commit timeout elapses at once.
LEMMA TimeoutLockstep ==
    ASSUME TypeInv, Flow, Lockstep, NEW e \in effects, HandleScheduleTimeout(e),
           UNCHANGED states
    PROVE  Lockstep'
<1>1. /\ e.effect = "ScheduleTimeout" /\ effects' = effects \ {e}
      /\ UNCHANGED <<states, current>>
      /\ \/ e.kind = "Commit" /\ SendToSelf(TimeoutElapsed("Commit"))
         \/ e.kind # "Commit" /\ network' = network
  BY DEF HandleScheduleTimeout, Handling, ElapsesAtOnce
<1>2. CASE e.kind = "Commit"
  <2>1. SendsToken(e)
    BY <1>1, <1>2 DEF SendsToken
  <2>2. PICK m \in Inputs : /\ m = TimeoutElapsed("Commit")
                            /\ IsToken(m) /\ m.type # "StartHeight"
    BY InputTypes DEF TimeoutElapsed, TimeoutKinds, IsToken
  <2>3. network' = Append(network, Envelope(current, current, m))
    BY <1>1, <1>2, <2>2 DEF SendToSelf
  <2>. QED
    BY <1>1, <2>1, <2>2, <2>3, TokenSent
<1>3. CASE e.kind # "Commit"
  <2>1. Grown({})
    <3>1. network' = network /\ DOMAIN network \subseteq Nat
      BY <1>1, <1>3, SMT DEF TypeInv, ChainTypeOK, SimTypeOK, AppTypeOK
    <3>. QED
      BY <3>1 DEF Grown
  <2>2. ~SendsToken(e) /\ ~IsGetValue(e) /\ e.effect # "Publish"
    BY <1>1, <1>3 DEF SendsToken, IsGetValue, IsDecide
  <2>3. Asking' /\ (\E v \in Values : Offered(v))'
    BY <1>1, <2>1, <2>2, QuietSent
  <2>4. 0 \in Nat
    OBVIOUS
  <2>. QED
    BY <1>1, <2>1, <2>2, <2>3, <2>4, SentInLockstep, SMT
<1>. QED
  BY <1>2, <1>3

\* A decision: the peer starts the next height.
LEMMA DecideLockstep ==
    ASSUME TypeInv, Flow, Lockstep, NEW e \in effects, HandleDecide(e), Running("consumer"),
           UNCHANGED states
    PROVE  Lockstep'
<1>1. /\ e.effect = "Decide" /\ effects' = effects \ {e} /\ UNCHANGED <<states, current>>
      /\ network' = Append(network, Envelope(current, current, StartHeight(e.height + 1)))
  BY DEF HandleDecide, Handling, SendToSelf, NextHeight
<1>2. SendsToken(e) /\ IsDecide(e)
  BY <1>1 DEF SendsToken, IsDecide
<1>3. PICK c \in Peers : c = current
  BY DEF TypeInv, ChainTypeOK, SimTypeOK, AppTypeOK
<1>4. PICK h \in Nat : h = states[c].height
  BY PeerClock
<1>5. states[c].step = "decided" /\ e.height = h
  <2>1. EffectTimely(e) /\ EffectOK(e, current, states[current], log[current])
    BY DEF Lockstep, Flow
  <2>. QED
    BY <1>2, <1>3, <1>4, <2>1 DEF EffectTimely, EffectOK
<1>6. Clock(states[c]) = 5 * (h + 1)
  BY <1>4, <1>5, SMT DEF Clock, Stage
<1>7. PICK m \in Inputs : /\ m = StartHeight(h + 1)
                          /\ m.type = "StartHeight" /\ m.height = h + 1
  <2>1. h + 1 \in Nat
    BY <1>4, SMT
  <2>. QED
    BY <2>1, InputTypes DEF StartHeight
<1>8. IsToken(m)
  BY <1>7 DEF IsToken
<1>. QED
  BY <1>1, <1>2, <1>3, <1>5, <1>6, <1>7, <1>8, TokenSent

\* Every peer but p is one of the others.
LEMMA OthersAreAll ==
    ASSUME NEW p \in Peers
    PROVE  /\ \A i \in 1..N-1 : Others(p)[i] \in Peers \ {p}
           /\ \A q \in Peers \ {p} : \E i \in 1..N-1 : Others(p)[i] = q
<1>1. N \in Nat /\ p \in Int /\ 0 <= p /\ p < N
  BY NAssumption, SMT DEF Peers
<1>2. ASSUME NEW i \in 1..N-1 PROVE Others(p)[i] \in Peers \ {p}
  BY <1>1, SMT DEF Others, Peers
<1>3. ASSUME NEW q \in Peers \ {p} PROVE \E i \in 1..N-1 : Others(p)[i] = q
  <2>1. q \in Int /\ 0 <= q /\ q < N /\ q # p
    BY <1>1, SMT DEF Peers
  <2>2. CASE q < p
    <3>1. q + 1 \in 1..N-1 /\ (q + 1) - 1 = q
      BY <1>1, <2>1, <2>2, SMT
    <3>2. Others(p)[q + 1] = q
      BY <2>2, <3>1 DEF Others
    <3>. QED
      BY <3>1, <3>2
  <2>3. CASE ~(q < p)
    <3>1. q \in 1..N-1 /\ ~(q - 1 < p)
      BY <1>1, <2>1, <2>3, SMT
    <3>2. Others(p)[q] = q
      BY <3>1 DEF Others
    <3>. QED
      BY <3>1, <3>2
  <2>. QED
    BY <2>2, <2>3
<1>. QED
  BY <1>2, <1>3

\* A vote is sent to the other peers.
LEMMA VoteLockstep ==
    ASSUME TypeInv, Lockstep, NEW e \in effects, HandlePublishVote(e), UNCHANGED states
    PROVE  Lockstep'
<1>1. /\ e.effect = "Publish" /\ e.msg.type = "Vote" /\ effects' = effects \ {e}
      /\ UNCHANGED <<states, current>>
      /\ network' = network \o
           [i \in 1..N-1 |-> Envelope(current, Others(current)[i], e.msg)]
  BY DEF HandlePublishVote, Handling
<1>2. network \in Seq(Envelopes) /\ e \in Effects
  BY DEF TypeInv, ChainTypeOK, SimTypeOK, AppTypeOK
<1>3. PICK c \in Peers : c = current
  BY DEF TypeInv, ChainTypeOK, SimTypeOK, AppTypeOK
<1>4. PICK m \in Inputs : m = e.msg
  BY <1>1, <1>2, EffectFields, InputTypes
<1>5. PICK h \in Nat, d \in Nat : h = states[c].height /\ d = Clock(states[c])
  BY PeerClock
<1>6. EffectTimely(e)
  BY DEF Lockstep
<1>7. PICK k \in VoteKinds : m = Vote(k, h, h, c) /\ d = 5 * h + VoteStage(k)
  BY <1>1, <1>3, <1>4, <1>5, <1>6 DEF EffectTimely
<1>8. /\ m.type = "Vote" /\ m.kind = k /\ m.height = h /\ m.id = h /\ m.voter = c
  BY <1>7 DEF Vote
<1>9. PICK more \in Seq(Envelopes) :
         /\ more = [i \in 1..N-1 |-> Envelope(c, Others(c)[i], m)]
         /\ \A i \in DOMAIN more : more[i].payload = m
  BY VotesSent
<1>10. PICK S : S = {more[i] : i \in DOMAIN more}
  OBVIOUS
<1>11. S \in SUBSET Envelopes /\ Grown(S)
  <2>1. network' = network \o more
    BY <1>1, <1>3, <1>4, <1>9
  <2>2. Grown(S)
    BY <1>2, <1>10, <2>1, GrownConcat
  <2>3. S \in SUBSET Envelopes
    BY <1>10, SMT
  <2>. QED
    BY <2>2, <2>3
<1>12. DOMAIN more = 1..N-1 /\ \A i \in 1..N-1 : /\ more[i].source = c /\ more[i].payload = m
                                                 /\ more[i].destination = Others(c)[i]
  BY <1>9 DEF Envelope
<1>13. \A x \in S : x.source = c /\ x.destination \in Peers \ {c} /\ x.payload = m
  BY <1>10, <1>12, OthersAreAll, SMT
<1>14. ASSUME NEW q \in Peers \ {c}
       PROVE  \E x \in S : x.destination = q /\ x.payload = m
  <2>1. PICK i \in 1..N-1 : Others(c)[i] = q
    BY OthersAreAll
  <2>2. more[i] \in S /\ more[i].destination = q /\ more[i].payload = m
    BY <1>10, <1>12, <2>1
  <2>. QED
    BY <2>2
<1>15. ASSUME NEW x \in S PROVE Timely(x, states) /\ Due(x, states) = d
  <2>1. x.source = c /\ x.destination \in Peers \ {c} /\ x.payload = m
    BY <1>13
  <2>2. Due(x, states) = d
    BY <1>7, <1>8, <2>1 DEF Due, DueAt, IsToken
  <2>3. \A q \in Peers : Clock(states[q]) + 1 >= d
    <3> SUFFICES ASSUME NEW q \in Peers PROVE Clock(states[q]) + 1 >= d
      OBVIOUS
    <3>1. Clock(states[c]) <= Clock(states[q]) + 1 /\ Clock(states[q]) \in Nat
      BY PeerClock DEF Lockstep, Level
    <3>. QED
      BY <1>5, <3>1
  <2>. QED
    BY <1>5, <1>8, <2>1, <2>2, <2>3, SMT DEF Timely, IsToken
<1>16. \A i \in DOMAIN network : Due(network[i], states) <= d
  BY <1>1, <1>3, <1>5, <1>6, NoneIsLater DEF EffectTimely
<1>17. ASSUME NEW y \in effects', y.effect = "Publish", y.msg.type # "Vote"
       PROVE  \A x \in S : Overtakes(x.payload)
  <2>1. c = 0 /\ d <= 5 * h + 2
    BY <1>1, <1>3, <1>5, <1>17 DEF Lockstep, EffectTimely
  <2>2. k = "Prevote"
    BY <1>7, <2>1, SMT DEF VoteStage, VoteKinds
  <2>. QED
    BY <1>8, <1>13, <2>1, <2>2 DEF Overtakes
<1>18. ~SendsToken(e) /\ ~IsGetValue(e)
  BY <1>1 DEF SendsToken, IsDecide, IsGetValue
<1>19. Asking' /\ (\E v \in Values : Offered(v))'
  BY <1>1, <1>8, <1>11, <1>13, <1>18, QuietSent
<1>. QED
  BY <1>1, <1>3, <1>4, <1>11, <1>14, <1>15, <1>16, <1>17, <1>18, <1>19, SentInLockstep, SMT

\* What is sent for a proposal: to every peer, the proposal and its value.
LEMMA ProposalsReachAll ==
    ASSUME current \in Peers, NEW h \in Nat, NEW v \in Values,
           NEW more, more = ProposalEnvelopes(h, v)
    PROVE  /\ \A i \in DOMAIN more :
                 /\ more[i].source = current /\ more[i].destination \in Peers
                 /\ more[i].payload \in {Proposal(h, v), ProposedValue(h, v)}
           /\ \A q \in Peers : \A m \in {Proposal(h, v), ProposedValue(h, v)} :
                 \E i \in DOMAIN more : more[i].destination = q /\ more[i].payload = m
<1>1. DOMAIN more = 1..2*N /\ N \in Nat
  BY NAssumption, SMT DEF ProposalEnvelopes
<1>2. ASSUME NEW i \in 1..2*N
      PROVE  /\ more[i].source = current
             /\ more[i].destination = (i - 1) \div 2
             /\ more[i].payload = IF i % 2 = 1 THEN Proposal(h, v) ELSE ProposedValue(h, v)
  BY DEF ProposalEnvelopes, Envelope
<1>3. \A i \in 1..2*N : (i - 1) \div 2 \in Peers
  BY NAssumption, SMT DEF Peers
<1>4. ASSUME NEW q \in Peers
      PROVE  /\ 2 * q + 1 \in 1..2*N /\ (2 * q + 1) % 2 = 1 /\ ((2 * q + 1) - 1) \div 2 = q
             /\ 2 * q + 2 \in 1..2*N /\ (2 * q + 2) % 2 # 1 /\ ((2 * q + 2) - 1) \div 2 = q
  BY NAssumption, SMT DEF Peers
<1>5. ASSUME NEW q \in Peers
      PROVE  /\ \E i \in DOMAIN more :
                   more[i].destination = q /\ more[i].payload = Proposal(h, v)
             /\ \E i \in DOMAIN more :
                   more[i].destination = q /\ more[i].payload = ProposedValue(h, v)
  <2>1. /\ more[2 * q + 1].destination = q /\ more[2 * q + 1].payload = Proposal(h, v)
        /\ more[2 * q + 2].destination = q /\ more[2 * q + 2].payload = ProposedValue(h, v)
    BY <1>2, <1>4
  <2>. QED
    BY <1>1, <1>4, <2>1
<1>6. \A i \in DOMAIN more :
         /\ more[i].source = current /\ more[i].destination \in Peers
         /\ more[i].payload \in {Proposal(h, v), ProposedValue(h, v)}
  BY <1>1, <1>2, <1>3
<1>. QED
  BY <1>5, <1>6, SMT

\* A proposal and its value are sent to every peer.
LEMMA ProposalLockstep ==
    ASSUME TypeInv, Lockstep, NEW e \in effects, HandlePublishProposal(e),
           Running("consumer"), UNCHANGED states
    PROVE  Lockstep'
<1>1. /\ e.effect = "Publish" /\ e.msg.type = "Proposal" /\ effects' = effects \ {e}
      /\ UNCHANGED <<states, current>>
      /\ network' = network \o ProposalEnvelopes(e.msg.height, e.msg.value)
  BY DEF HandlePublishProposal, Handling
<1>2. /\ network \in Seq(Envelopes) /\ e \in Effects /\ current \in Peers
  BY DEF TypeInv, ChainTypeOK, SimTypeOK, AppTypeOK
<1>3. e.msg \in ValueInputs \cup Votes
  BY <1>1, <1>2, EffectFields
<1>4. PICK h \in Nat, v \in Values : h = e.msg.height /\ v = e.msg.value
  BY <1>1, <1>3, MessageFields
<1>5. /\ h = states[0].height /\ current = 0
      /\ \A q \in Peers : Clock(states[q]) >= 5 * h + 1
      /\ \A i \in DOMAIN network :
            ~Overtakes(network[i].payload) => Due(network[i], states) <= 5 * h + 1
  <2>1. EffectTimely(e)
    BY DEF Lockstep
  <2>. QED
    BY <1>1, <1>4, <2>1 DEF EffectTimely
<1>6. PICK d \in Nat : d = 5 * h + 1
  BY <1>4, SMT
<1>7. PICK more \in Seq(Envelopes) : more = ProposalEnvelopes(h, v)
  BY <1>2, ProposalsSent
<1>8. PICK S : S = {more[i] : i \in DOMAIN more}
  OBVIOUS
<1>9. S \in SUBSET Envelopes /\ Grown(S)
  <2>1. network' = network \o more
    BY <1>1, <1>4, <1>7
  <2>2. Grown(S)
    BY <1>2, <1>8, <2>1, GrownConcat
  <2>3. S \in SUBSET Envelopes
    BY <1>8, SMT
  <2>. QED
    BY <2>2, <2>3
<1>10. /\ \A i \in DOMAIN more :
             /\ more[i].source = 0 /\ more[i].destination \in Peers
             /\ more[i].payload \in {Proposal(h, v), ProposedValue(h, v)}
       /\ \A q \in Peers : \A m \in {Proposal(h, v), ProposedValue(h, v)} :
             \E i \in DOMAIN more : more[i].destination = q /\ more[i].payload = m
  <2>1. \A i \in DOMAIN more :
           /\ more[i].source = current /\ more[i].destination \in Peers
           /\ more[i].payload \in {Proposal(h, v), ProposedValue(h, v)}
    BY <1>2, <1>7, ProposalsReachAll, SMT
  <2>2. \A q \in Peers : \A m \in {Proposal(h, v), ProposedValue(h, v)} :
           \E i \in DOMAIN more : more[i].destination = q /\ more[i].payload = m
    BY <1>2, <1>7, ProposalsReachAll, SMT
  <2>. QED
    BY <1>5, <2>1, <2>2
<1>11. \A m \in {Proposal(h, v), ProposedValue(h, v)} :
          /\ m.type \in {"Proposal", "ProposedValue"} /\ m.height = h /\ m.value = v
          /\ ~IsToken(m) /\ ~Overtakes(m) /\ m.type # "Propose" /\ m.type # "Vote"
  BY SMT DEF Proposal, ProposedValue, IsToken, Overtakes
<1>12. \A x \in S : /\ x.source = 0 /\ x.payload.type \in {"Proposal", "ProposedValue"}
                    /\ x.payload.height = h /\ x.payload.value = v
                    /\ ~IsToken(x.payload)
  BY <1>8, <1>10, <1>11, SMT
<1>13. ASSUME NEW q \in Peers
       PROVE  Coming(q, Proposal(h, v))' /\ Coming(q, ProposedValue(h, v))'
  <2>1. PICK i \in DOMAIN more : more[i].destination = q /\ more[i].payload = Proposal(h, v)
    BY <1>10
  <2>2. PICK j \in DOMAIN more :
           more[j].destination = q /\ more[j].payload = ProposedValue(h, v)
    BY <1>10
  <2>3. more[i] \in S /\ more[j] \in S
    BY <1>8
  <2>. QED
    BY <1>9, <2>1, <2>2, <2>3, SentComes
<1>14. ASSUME NEW x \in S PROVE Timely(x, states) /\ Due(x, states) = d
  <2>1. Due(x, states) = d
    BY <1>6, <1>12 DEF Due, DueAt
  <2>2. 0 \in Peers
    BY <1>2, <1>5
  <2>. QED
    BY <1>5, <1>6, <1>12, <2>1, <2>2 DEF Timely
<1>15. ~Asked
  BY <1>1 DEF Lockstep, Asking
<1>16. ~Asked' /\ (\A i \in DOMAIN network' : ~ProposeAt(i)')
  <2>1. \A x \in S : x.payload.type # "Propose"
    BY <1>12
  <2>2. \A i \in DOMAIN network' : ~ProposeAt(i)'
    BY <1>9, <1>15, <2>1 DEF Asked, ProposeAt, Grown
  <2>. QED
    BY <1>1, <1>15, <2>2 DEF Asked
<1>17. Asking'
  <2>1. /\ \A q \in Peers :
             states[q].step = "propose" /\ states[q].proposal # {} =>
                 Clock(states[0]) >= Clock(states[q])
        /\ states[0].step = "propose" => \A q \in Peers : Clock(states[q]) >= Clock(states[0])
    BY <1>15 DEF Lockstep, Asking
  <2>. QED
    BY <1>1, <1>16, <2>1 DEF Asking
<1>18. PICK w \in Values : Offered(w)
  BY DEF Lockstep
<1>19. w = v
  BY <1>1, <1>4, <1>18 DEF Offered
<1>20. ASSUME NEW q \in Peers, ValueOwed(q, v) PROVE ValueOwed(q, v)'
  <2>1. PICK g : g = states[q].height
    OBVIOUS
  <2>2. Sending(Proposal(g, v)) =>
          \/ Sending(Proposal(g, v))'
          \/ Coming(q, Proposal(g, v))' /\ Coming(q, ProposedValue(g, v))'
    <3>1. CASE Publish(Proposal(g, v)) = e
      <4>1. g = h
        BY <1>4, <3>1, SMT DEF Publish, Proposal
      <4>. QED
        BY <1>13, <4>1
    <3>2. CASE Publish(Proposal(g, v)) # e
      BY <1>1, <3>2 DEF Sending
    <3>. QED
      BY <3>1, <3>2
  <2>3. \A m : Coming(q, m) => Coming(q, m)'
    BY <1>9, SentComes
  <2>. QED
    BY <1>1, <1>20, <2>1, <2>2, <2>3 DEF ValueOwed
<1>21. Offered(v)'
  <2>1. \A q \in Peers : states[q].step = "propose" =>
           Clock(states[0]) < Clock(states[q]) \/ ValueOwed(q, v)'
    BY <1>15, <1>18, <1>19, <1>20 DEF Offered
  <2>2. ASSUME NEW i \in DOMAIN network',
               network'[i].payload.type \in {"Proposal", "ProposedValue"},
               states[network'[i].destination].step = "propose",
               states[network'[i].destination].height = network'[i].payload.height
        PROVE  network'[i].payload.value = v
    <3>1. CASE i \in DOMAIN network
      BY <1>9, <1>18, <1>19, <2>2, <3>1 DEF Grown, Offered
    <3>2. CASE i \notin DOMAIN network
      BY <1>9, <1>12, <3>2 DEF Grown
    <3>. QED
      BY <3>1, <3>2
  <2>3. \A x \in effects' : x.effect = "Publish" /\ x.msg.type # "Vote" => x.msg.value = v
    BY <1>1, <1>18, <1>19 DEF Offered
  <2>. QED
    BY <1>1, <2>1, <2>2, <2>3 DEF Offered
<1>22. ~SendsToken(e) /\ e.msg.type # "Vote"
  BY <1>1 DEF SendsToken, IsDecide
<1>23. d <= 5 * states[current].height + 1
  BY <1>5, <1>6, SMT
<1>24. (\E u \in Values : Offered(u))'
  BY <1>4, <1>21
<1>25. \A i \in DOMAIN network :
          ~Overtakes(network[i].payload) => Due(network[i], states) <= d
  BY <1>5, <1>6
<1>26. /\ effects' = effects \ {e} /\ UNCHANGED <<states, current>>
  BY <1>1
<1>. QED
  BY <1>9, <1>14, <1>17, <1>22, <1>23, <1>24, <1>25, <1>26, SentInLockstep

\* The proposer is given the value it has asked for.
LEMMA ValueLockstep ==
    ASSUME TypeInv, Flow, Lockstep, NEW e \in effects, HandleGetValue(e), proposals # <<>>,
           UNCHANGED states
    PROVE  Lockstep'
<1>1. /\ e.effect = "GetValue" /\ effects' = effects \ {e} /\ UNCHANGED <<states, current>>
      /\ network' = Append(network, Envelope(current, current,
                                             Propose(e.height, Head(proposals))))
  BY DEF HandleGetValue, Handling, SendToSelf
<1>2. /\ network \in Seq(Envelopes) /\ effects \in SUBSET Effects /\ current \in Peers
      /\ proposals \in Seq(Values) /\ e \in Effects
  BY DEF TypeInv, ChainTypeOK, SimTypeOK, AppTypeOK, ChannelsTypeOK
<1>3. IsGetValue(e)
  BY <1>1 DEF IsGetValue
<1>4. current = 0 /\ states[0].step = "propose" /\ e.height = Len(log[0])
  BY <1>3 DEF Flow, EffectOK
<1>5. states[0].height = Len(log[0])
  BY <1>2, <1>4 DEF Flow, PeerOK
<1>6. PICK h \in Nat : h = states[0].height /\ e.height = h
  BY <1>2, <1>4, <1>5, PeerClock
<1>7. PICK d \in Nat : d = 5 * h + 1 /\ Clock(states[0]) = d
  BY <1>2, <1>4, <1>6, PeerClock
<1>8. Head(proposals) \in Values
  BY <1>2, SMT
<1>9. PICK m \in Inputs : /\ m = Propose(h, Head(proposals)) /\ m.type = "Propose"
                          /\ m.height = h
  BY <1>8, InputTypes DEF Propose
<1>10. PICK x \in Envelopes : /\ x = Envelope(0, 0, m) /\ x.source = 0
                              /\ x.destination = 0 /\ x.payload = m
  BY <1>2, <1>4, EnvelopeType DEF Envelope
<1>11. Grown({x})
  BY <1>1, <1>2, <1>4, <1>6, <1>9, <1>10, GrownAppend
<1>12. Timely(x, states) /\ Due(x, states) = d
  <2>1. Due(x, states) = d
    BY <1>7, <1>9, <1>10 DEF Due, DueAt, IsToken
  <2>. QED
    BY <1>7, <1>9, <1>10, <2>1, SMT DEF Timely, IsToken
<1>13. EffectTimely(e)
  BY DEF Lockstep
<1>14. \A i \in DOMAIN network : Due(network[i], states) <= d
  BY <1>2, <1>3, <1>4, <1>7, <1>13, NoneIsLater DEF EffectTimely
<1>15. \A y \in effects' : ~IsGetValue(y)
  <2>1. \A y \in effects : IsGetValue(y) => y.height = e.height
    BY <1>3, SMT DEF Flow, EffectOK
  <2>2. \A y \in effects : IsGetValue(y) => y = e
    <3>1. \A y \in Effects : IsGetValue(y) => y \in [effect : {"GetValue"}, height : Nat]
      BY DEF Effects, IsGetValue
    <3>2. \A y, z \in [effect : {"GetValue"}, height : Nat] : y.height = z.height => y = z
      BY SMT
    <3>. QED
      BY <1>2, <1>3, <2>1, <3>1, <3>2
  <2>. QED
    BY <1>1, <2>2
<1>16. Asked /\ \A i \in DOMAIN network : ~ProposeAt(i)
  BY <1>3 DEF Asked, Lockstep, Asking
<1>17. Asked'
  BY <1>9, <1>10, <1>11 DEF Asked, ProposeAt, Grown
<1>18. Asking'
  <2>1. ASSUME NEW i \in DOMAIN network', ProposeAt(i)' PROVE i \notin DOMAIN network
    BY <1>11, <1>16, <2>1 DEF ProposeAt, Grown
  <2>2. ASSUME NEW i \in DOMAIN network', NEW j \in DOMAIN network',
               ProposeAt(i)', ProposeAt(j)'
        PROVE  i = j
    <3>1. PICK k \in Nat : k = Len(network)
      BY <1>2, LenProperties
    <3>2. DOMAIN network' = 1..(k + 1) /\ DOMAIN network = 1..k
      BY <1>1, <1>2, <3>1, SMT
    <3>. QED
      BY <2>1, <2>2, <3>1, <3>2, SMT
  <2>3. /\ \A q \in Peers :
             /\ Clock(states[q]) <= Clock(states[0])
             /\ Clock(states[q]) = Clock(states[0]) => states[q].proposal = {}
        /\ \A i \in DOMAIN network :
             network[i].payload.type \in {"Proposal", "ProposedValue"} =>
                 network[i].payload.height # states[0].height
        /\ \A y \in effects : y.effect = "Publish" => y.msg.type = "Vote"
        /\ \A q \in Peers :
             states[q].step = "propose" /\ states[q].proposal # {} =>
                 Clock(states[0]) >= Clock(states[q])
    BY <1>16 DEF Lockstep, Asking
  <2>4. \A i \in DOMAIN network' :
           network'[i].payload.type \in {"Proposal", "ProposedValue"} =>
               network'[i].payload.height # states[0].height
    BY <1>9, <1>10, <1>11, <2>3 DEF Grown
  <2>. QED
    BY <1>1, <1>15, <1>17, <2>2, <2>3, <2>4 DEF Asking
<1>19. PICK v \in Values : Offered(v)
  BY DEF Lockstep
<1>20. Offered(v)'
  <2>1. \A i \in DOMAIN network' :
          /\ network'[i].payload.type \in {"Proposal", "ProposedValue"}
          /\ states[network'[i].destination].step = "propose"
          /\ states[network'[i].destination].height = network'[i].payload.height
          => network'[i].payload.value = v
    BY <1>9, <1>10, <1>11, <1>19, SMT DEF Grown, Offered
  <2>2. \A y \in effects' : y.effect = "Publish" /\ y.msg.type # "Vote" => y.msg.value = v
    BY <1>1, <1>19 DEF Offered
  <2>. QED
    BY <1>1, <1>17, <2>1, <2>2 DEF Offered
<1>21. (\E u \in Values : Offered(u))'
  BY <1>19, <1>20
<1>22. ~SendsToken(e) /\ e.effect # "Publish"
  BY <1>1 DEF SendsToken, IsDecide
<1>23. \A y \in effects' : ~(y.effect = "Publish" /\ y.msg.type # "Vote")
  BY <1>1, <1>16 DEF Lockstep, Asking
<1>24. {x} \in SUBSET Envelopes
  BY <1>10
<1>. QED
  BY <1>1, <1>11, <1>12, <1>14, <1>18, <1>21, <1>22, <1>23, <1>24, SentInLockstep

-----------------------------------------------------------------------------
(* The invariant. *)

LockstepInv == OrderInv /\ (Running("simulator") => Lockstep)

\* All peers wait for the token that starts height 0.
LEMMA LockstepInit == ChainInit => Lockstep
<1> SUFFICES ASSUME ChainInit PROVE Lockstep
  OBVIOUS
<1>1. /\ network = [i \in 1..N |-> Envelope(i - 1, i - 1, StartHeight(0))]
      /\ effects = {} /\ states = [p \in Peers |-> StateAt(0, "unstarted")]
  BY DEF ChainInit, SimInit, AppInit, InitialEnvelopes
<1>2. /\ N \in Nat /\ 0 \in Peers /\ \A i \in 1..N : i - 1 \in Peers
      /\ \A q \in Peers : q + 1 \in 1..N /\ (q + 1) - 1 = q
  BY NAssumption, SMT DEF Peers
<1>3. \A p \in Peers : /\ states[p].step = "unstarted" /\ states[p].height = 0
                       /\ states[p].proposal = {}
                       /\ \A q \in Peers : /\ states[p].prevotes[q] = NoVote
                                           /\ states[p].precommits[q] = NoVote
  BY <1>1 DEF StateAt
<1>4. \A p \in Peers : Clock(states[p]) = 0
  BY <1>3, SMT DEF Clock, Stage
<1>5. /\ DOMAIN network = 1..N
      /\ \A i \in 1..N : /\ network[i].source = i - 1 /\ network[i].destination = i - 1
                         /\ network[i].payload.type = "StartHeight"
                         /\ network[i].payload.height = 0
  BY <1>1 DEF Envelope, StartHeight
<1>6. \A i \in 1..N : Due(network[i], states) = 0
  BY <1>2, <1>4, <1>5 DEF Due, DueAt, IsToken
<1>7. \A p \in Peers : Settled(p, states[p])
  BY <1>3 DEF Settled, Consistent
<1>8. Level /\ InOrder(network, states)
  BY <1>4, <1>5, <1>6, SMT DEF Level, InOrder
<1>9. ASSUME NEW i \in 1..N PROVE Timely(network[i], states)
  BY <1>2, <1>4, <1>5, <1>6, SMT DEF Timely
<1>10. Heard
  BY <1>3 DEF Heard, VotesOf
<1>11. VotesOwed
  <2>1. \A k \in VoteKinds : 0 \notin {5 * 0 + VoteStage(k) - 1, 5 * 0 + VoteStage(k)}
    BY SMT DEF VoteStage
  <2>. QED
    BY <1>3, <1>4, <2>1 DEF VotesOwed
<1>12. TokensOwed
  <2>1. \A q \in Peers : /\ q + 1 \in DOMAIN network /\ network[q + 1].destination = q
                         /\ IsToken(network[q + 1].payload)
    BY <1>2, <1>5 DEF IsToken
  <2>. QED
    BY <2>1 DEF TokensOwed
<1>13. Asking
  BY <1>1, <1>2, <1>3, <1>5 DEF Asking, Asked, ProposeAt
<1>14. \E v \in Values : Offered(v)
  <2>1. [id |-> 0, txs |-> {}] \in Values
    BY DEF Values
  <2>2. \A v : Offered(v)
    BY <1>1, <1>3, <1>5 DEF Offered
  <2>. QED
    BY <2>1, <2>2
<1>. QED
  BY <1>1, <1>5, <1>7, <1>8, <1>9, <1>10, <1>11, <1>12, <1>13, <1>14 DEF Lockstep

\* The other threads do not touch the simulator's state.
LEMMA LockstepKept ==
    ASSUME Lockstep, UNCHANGED simVars
    PROVE  Lockstep'
<1>1. UNCHANGED <<network, current, effects, states>>
  BY DEF simVars, appVars
<1>2. (Level' <=> Level) /\ (Heard' <=> Heard) /\ (Asked' <=> Asked)
  BY <1>1 DEF Level, Heard, Asked, ProposeAt
<1>3. VotesOwed' <=> VotesOwed
  BY <1>1, SMT DEF VotesOwed, Coming, Sending
<1>4. TokensOwed' <=> TokensOwed
  BY <1>1 DEF TokensOwed
<1>5. Asking' <=> Asking
  BY <1>1, <1>2 DEF Asking, ProposeAt
<1>6. \A v : Offered(v)' <=> Offered(v)
  BY <1>1, <1>2, SMT DEF Offered, ValueOwed, Coming, Sending
<1>7. \A e : EffectTimely(e)' <=> EffectTimely(e)
  BY <1>1 DEF EffectTimely
<1>. QED
  BY <1>1, <1>2, <1>3, <1>4, <1>5, <1>6, <1>7 DEF Lockstep

\* Every handler of an effect that does not panic keeps the peers in lockstep.
LEMMA LockstepHandler ==
    ASSUME TypeInv, Flow, Lockstep, HandleEffect, UNCHANGED states
    PROVE  Running("simulator")' => Lockstep'
<1>1. PICK e \in effects : \/ HandleScheduleTimeout(e) \/ HandlePublishVote(e)
                           \/ HandlePublishProposal(e) \/ HandleDecide(e)
                           \/ HandleGetValue(e)
  BY DEF HandleEffect
<1>2. ASSUME NEW s \in {"no value", "no consumer"}, Ends("simulator", s)
      PROVE  ~Running("simulator")'
  <2>1. status'["simulator"] = s
    BY <1>2 DEF Ends, TypeInv, ChainTypeOK, ChannelsTypeOK, Threads
  <2>. QED
    BY <2>1 DEF Running
<1>3. CASE HandleScheduleTimeout(e)
  BY <1>3, TimeoutLockstep
<1>4. CASE HandlePublishVote(e)
  BY <1>4, VoteLockstep
<1>5. CASE HandlePublishProposal(e)
  <2>1. CASE Running("consumer")
    BY <1>5, <2>1, ProposalLockstep
  <2>2. CASE ~Running("consumer")
    BY <1>2, <1>5, <2>2 DEF HandlePublishProposal
  <2>. QED
    BY <2>1, <2>2
<1>6. CASE HandleDecide(e)
  <2>1. CASE Running("consumer")
    BY <1>6, <2>1, DecideLockstep
  <2>2. CASE ~Running("consumer")
    BY <1>2, <1>6, <2>2 DEF HandleDecide
  <2>. QED
    BY <2>1, <2>2
<1>7. CASE HandleGetValue(e)
  <2>1. CASE proposals # <<>>
    BY <1>7, <2>1, ValueLockstep
  <2>2. CASE proposals = <<>>
    BY <1>2, <1>7, <2>2 DEF HandleGetValue
  <2>. QED
    BY <2>1, <2>2
<1>. QED
  BY <1>1, <1>3, <1>4, <1>5, <1>6, <1>7

\* What the argument needs to know of quorums.
MostAreQuorum ==
    \A votes, id : \A p \in Peers :
        (\A q \in Peers \ {p} : votes[q] = id) => QuorumFor(votes, id)

\* A peer that no other is behind: what it waits for is in the network and is due.
LEMMA LastIsServed ==
    ASSUME MostAreQuorum, TypeInv, Lockstep, effects = {},
           NEW q \in Peers, \A r \in Peers : Clock(states[q]) <= Clock(states[r])
    PROVE  \E i \in DOMAIN network : /\ ~Overtakes(network[i].payload)
                                     /\ Due(network[i], states) <= Clock(states[q])
<1>1. PICK h \in Nat, st \in PeerStates : st = states[q] /\ h = st.height
  BY PeerClock
<1>2. Settled(q, st) /\ Clock(st) \in Nat
  BY <1>1, PeerClock DEF Lockstep
<1>3. 0 \in Peers
  BY NAssumption, SMT DEF Peers
<1>4. /\ st.step = "propose" => Clock(st) = 5 * h + 1
      /\ st.step = "prevote" => Clock(st) = 5 * h + 2
      /\ st.step = "precommit" => Clock(st) = 5 * h + 3
  BY <1>1, PeerClock
<1>5. CASE st.step \in {"unstarted", "commit", "decided"}
  <2>1. PICK i \in DOMAIN network :
           network[i].destination = q /\ IsToken(network[i].payload)
    BY <1>1, <1>5 DEF Lockstep, TokensOwed
  <2>2. ~Overtakes(network[i].payload)
    BY <2>1 DEF Overtakes, IsToken
  <2>3. Due(network[i], states) = Clock(st)
    BY <1>1, <2>1 DEF Due, DueAt
  <2>. QED
    BY <1>1, <1>2, <2>2, <2>3
<1>6. CASE st.step = "propose"
  <2>1. PICK v \in Values : Offered(v)
    BY DEF Lockstep
  <2>2. Asked \/ ValueOwed(q, v)
    <3>1. Clock(states[q]) <= Clock(states[0])
      BY <1>3
    <3>2. Clock(states[q]) \in Nat /\ Clock(states[0]) \in Nat
      BY <1>3, PeerClock
    <3>. QED
      BY <1>1, <1>6, <2>1, <3>1, <3>2, SMT DEF Offered
  <2>3. CASE Asked
    <3>1. PICK i \in DOMAIN network : ProposeAt(i)
      BY <2>3 DEF Asked
    <3>2. network[i] \in Envelopes
      BY SMT DEF TypeInv, ChainTypeOK, SimTypeOK, AppTypeOK
    <3>3. PICK m \in Inputs : m = network[i].payload
      BY <3>2 DEF Envelopes
    <3>4. m.type = "Propose" /\ m.height \in Nat
      BY <3>1, <3>3, InputFields DEF ProposeAt
    <3>5. Due(network[i], states) = 5 * m.height + 1
      BY <3>3, <3>4 DEF Due, DueAt, IsToken
    <3>6. Clock(states[0]) = Due(network[i], states)
      BY <3>3, <3>4 DEF Lockstep, Timely
    <3>7. Clock(states[0]) <= Clock(st) + 1
      BY <1>1, <1>3 DEF Lockstep, Level
    <3>8. Due(network[i], states) <= Clock(st)
      BY <1>4, <1>6, <3>4, <3>5, <3>6, <3>7, SMT
    <3>9. ~Overtakes(network[i].payload)
      BY <3>3, <3>4 DEF Overtakes
    <3>. QED
      BY <1>1, <3>8, <3>9
  <2>4. CASE ValueOwed(q, v)
    <3>1. ~Full(st)
      BY <1>2, <1>6 DEF Settled
    <3>2. Coming(q, Proposal(h, v)) \/ Coming(q, ProposedValue(h, v))
      BY <1>1, <2>4, <3>1 DEF ValueOwed, Full, Sending
    <3>3. PICK i \in DOMAIN network : network[i].payload \in {Proposal(h, v), ProposedValue(h, v)}
      BY <3>2 DEF Coming
    <3>4. /\ network[i].payload.type \in {"Proposal", "ProposedValue"}
          /\ network[i].payload.height = h
      BY <3>3, SMT DEF Proposal, ProposedValue
    <3>5. Due(network[i], states) = 5 * h + 1 /\ ~Overtakes(network[i].payload)
      BY <3>4 DEF Due, DueAt, IsToken, Overtakes
    <3>. QED
      BY <1>1, <1>4, <1>6, <3>5
  <2>. QED
    BY <2>2, <2>3, <2>4
<1>7. ASSUME NEW k \in VoteKinds, Clock(st) = 5 * h + VoteStage(k),
             NEW r \in Peers, r # q, VotesOf(st, k)[r] # h, ~(k = "Prevote" /\ r = 0)
      PROVE  \E i \in DOMAIN network : /\ ~Overtakes(network[i].payload)
                                       /\ Due(network[i], states) <= Clock(states[q])
  <2>1. Clock(states[r]) >= 5 * h + VoteStage(k)
    <3>1. Clock(states[q]) <= Clock(states[r]) /\ Clock(states[q]) = 5 * h + VoteStage(k)
      BY <1>1, <1>7
    <3>2. Clock(states[r]) \in Nat /\ Clock(states[q]) \in Nat
      BY PeerClock
    <3>. QED
      BY <3>1, <3>2
  <2>2. Coming(q, Vote(k, h, h, r)) \/ Sending(Vote(k, h, h, r))
    BY <1>1, <1>7, <2>1 DEF Lockstep, VotesOwed
  <2>3. PICK i \in DOMAIN network : network[i].payload = Vote(k, h, h, r)
    BY <2>2 DEF Coming, Sending
  <2>4. Due(network[i], states) = 5 * h + VoteStage(k) /\ ~Overtakes(network[i].payload)
    BY <1>7, <2>3, SMT DEF Due, DueAt, IsToken, Overtakes, Vote
  <2>. QED
    BY <1>1, <1>2, <1>7, <2>4
<1>8. CASE st.step = "prevote"
  <2>1. ~QuorumFor(st.prevotes, h) /\ st.prevotes[q] = h
    BY <1>1, <1>2, <1>8 DEF Settled, Consistent
  <2>2. PICK r \in Peers \ {0} : st.prevotes[r] # h
    BY <1>3, <2>1 DEF MostAreQuorum
  <2>3. r # q /\ VotesOf(st, "Prevote")[r] # h /\ VoteStage("Prevote") = 2
    BY <2>1, <2>2 DEF VotesOf, VoteStage
  <2>. QED
    BY <1>4, <1>7, <1>8, <2>3 DEF VoteKinds
<1>9. CASE st.step = "precommit"
  <2>1. ~QuorumFor(st.precommits, h)
    BY <1>1, <1>2, <1>9 DEF Settled
  <2>2. PICK r \in Peers \ {q} : st.precommits[r] # h
    BY <2>1 DEF MostAreQuorum
  <2>3. VotesOf(st, "Precommit")[r] # h /\ VoteStage("Precommit") = 3
    BY <2>2 DEF VotesOf, VoteStage
  <2>. QED
    BY <1>4, <1>7, <1>9, <2>3 DEF VoteKinds
<1>. QED
  BY <1>2, <1>5, <1>6, <1>8, <1>9 DEF PeerStates, Steps, Settled, Consistent

\* The network is not dry, and nobody is behind what comes first in it.
LEMMA FirstIsDue ==
    ASSUME MostAreQuorum, TypeInv, Lockstep, effects = {}
    PROVE  /\ network # <<>>
           /\ ~Overtakes(network[1].payload) =>
                \A q \in Peers : Clock(states[q]) >= Due(network[1], states)
<1>1. \E q \in Peers : \A r \in Peers : Clock(states[q]) <= Clock(states[r])
  <2>1. 0 \in Peers
    BY NAssumption, SMT DEF Peers
  <2>2. \A r \in Peers : Clock(states[r]) \in Nat
    BY PeerClock
  <2>3. \A p, r \in Peers : Clock(states[p]) <= Clock(states[r]) + 1
    BY DEF Lockstep, Level
  <2>4. CASE \A r \in Peers : Clock(states[0]) <= Clock(states[r])
    BY <2>1, <2>4
  <2>5. CASE \E q \in Peers : ~(Clock(states[0]) <= Clock(states[q]))
    <3>1. PICK q \in Peers : ~(Clock(states[0]) <= Clock(states[q]))
      BY <2>5
    <3>2. \A r \in Peers : Clock(states[q]) <= Clock(states[r])
      BY <2>1, <2>2, <2>3, <3>1, SMT
    <3>. QED
      BY <3>2
  <2>. QED
    BY <2>4, <2>5
<1>2. PICK q \in Peers : \A r \in Peers : Clock(states[q]) <= Clock(states[r])
  BY <1>1
<1>3. PICK i \in DOMAIN network : /\ ~Overtakes(network[i].payload)
                                  /\ Due(network[i], states) <= Clock(states[q])
  BY <1>2, LastIsServed
<1>4. network \in Seq(Envelopes)
  BY DEF TypeInv, ChainTypeOK, SimTypeOK, AppTypeOK
<1>5. /\ network # <<>> /\ 1 \in DOMAIN network /\ i \in Nat /\ i >= 1
  BY <1>3, <1>4, SMT
<1>6. ASSUME ~Overtakes(network[1].payload), NEW r \in Peers
      PROVE  Clock(states[r]) >= Due(network[1], states)
  <2>1. Due(network[1], states) <= Due(network[i], states)
    <3>1. CASE i = 1
      <4>1. Due(network[1], states) \in Int
        BY <1>5, DueType, SMT
      <4>. QED
        BY <3>1, <4>1, SMT
    <3>2. CASE i # 1
      BY <1>3, <1>5, <1>6, <3>2, SMT DEF Lockstep, InOrder
    <3>. QED
      BY <3>1, <3>2
  <2>2. /\ Clock(states[q]) <= Clock(states[r])
        /\ Clock(states[q]) \in Nat /\ Clock(states[r]) \in Nat
    BY <1>2, PeerClock
  <2>3. Due(network[1], states) \in Int /\ Due(network[i], states) \in Int
    BY <1>5, DueType, SMT
  <2>. QED
    BY <1>3, <2>1, <2>2, <2>3, SMT
<1>. QED
  BY <1>5, <1>6

\* A step of the simulator processes the first envelope, which is due at its peer.
LEMMA StepFacts ==
    ASSUME MostAreQuorum, TypeInv, OrderInv, Lockstep, Step
    PROVE  \E p \in Peers, m \in Inputs, new \in PeerStates : Stepped(p, m, new)
<1>1. /\ Running("simulator") /\ effects = {} /\ network # <<>>
      /\ network' = Tail(network) /\ current' = Head(network).destination
  BY DEF Step, channels
<1>2. Flow /\ network \in Seq(Envelopes) /\ states \in [Peers -> PeerStates]
  BY <1>1 DEF OrderInv, TypeInv, ChainTypeOK, SimTypeOK, AppTypeOK
<1>3. Head(network) = network[1] /\ 1 \in DOMAIN network /\ network[1] \in Envelopes
  BY <1>1, <1>2, SMT
<1>4. PICK p \in Peers, m \in Inputs : p = network[1].destination /\ m = network[1].payload
  BY <1>3 DEF Envelopes
<1>5. Fits(m, states[p], log[p]) /\ Timely(network[1], states)
  BY <1>2, <1>3, <1>4 DEF Flow, NetOK, Lockstep
<1>6. PICK st \in PeerStates : st = states[p]
  BY <1>2
<1>7. Settled(p, st) /\ st.height \in Nat /\ Clock(st) \in Nat
  BY <1>6, PeerClock DEF Lockstep
<1>8. PICK h \in Nat : h = st.height
  BY <1>7
<1>9. ~Overtakes(m) => \A q \in Peers : Clock(states[q]) >= DueAt(m, st)
  BY <1>1, <1>4, <1>6, FirstIsDue DEF Due
<1>10. Finds(p, st, m)
  <2>1. /\ m.type = "StartHeight" => Clock(st) = 5 * m.height
        /\ m.type = "TimeoutElapsed" => m.kind = "Commit" /\ st.step = "commit"
        /\ Carries(m) => m.value.id = m.height
    BY <1>4, <1>5, <1>6 DEF Fits, Timely
  <2>2. ASSUME m.type = "Propose"
        PROVE  m.height = st.height /\ st.step = "propose"
    <3>1. p = 0 /\ Clock(st) = Due(network[1], states)
      BY <1>4, <1>5, <1>6, <2>2 DEF Timely
    <3>2. Clock(st) = 5 * m.height + 1
      BY <1>4, <1>6, <2>2, <3>1 DEF Due, DueAt, IsToken
    <3>. QED
      BY <1>4, <1>6, <2>2, <3>2, InputFields, PeerClock
  <2>3. m.type = "Vote" => m.id = m.height /\ m.voter # p
    BY <1>4, <1>5 DEF Timely
  <2>4. Overtakes(m) \/ DueAt(m, st) <= Clock(st)
    <3>1. ~Overtakes(m) => Clock(st) >= DueAt(m, st)
      BY <1>6, <1>9
    <3>2. DueAt(m, st) \in Nat
      BY <1>3, <1>4, <1>6, DueType DEF Due
    <3>. QED
      BY <1>7, <3>1, <3>2
  <2>. QED
    BY <2>1, <2>2, <2>3, <2>4 DEF Finds
<1>11. /\ st.step = "propose" => Clock(st) = 5 * h + 1
       /\ st.step = "prevote" => Clock(st) = 5 * h + 2
  BY <1>6, <1>8, PeerClock
<1>12. ASSUME NEW q \in Peers, NEW k \in VoteKinds, q # p, ~(k = "Prevote" /\ q = 0),
              VotesOf(st, k)[q] # NoVote
       PROVE  \A s \in Peers : Clock(states[s]) >= 5 * h + VoteStage(k)
  BY <1>6, <1>8, <1>12 DEF Lockstep, Heard
<1>13. VoteStage("Prevote") = 2 /\ VoteStage("Precommit") = 3
  BY DEF VoteStage
<1>14. Unheard(p, st)
  <2>1. ASSUME st.step = "propose", NEW q \in Peers \ {p, 0}, st.prevotes[q] # NoVote
        PROVE  FALSE
    <3>1. Clock(states[p]) >= 5 * h + VoteStage("Prevote")
      BY <1>12, <2>1 DEF VotesOf, VoteKinds
    <3>. QED
      BY <1>6, <1>11, <1>13, <2>1, <3>1, SMT
  <2>2. ASSUME st.step \in {"propose", "prevote"}, NEW q \in Peers \ {p},
               st.precommits[q] # NoVote
        PROVE  FALSE
    <3>1. Clock(states[p]) >= 5 * h + VoteStage("Precommit")
      BY <1>12, <2>2 DEF VotesOf, VoteKinds
    <3>. QED
      BY <1>6, <1>11, <1>13, <2>2, <3>1, SMT
  <2>. QED
    BY <2>1, <2>2 DEF Unheard
<1>15. ~LibraryError(st, m)
  BY <1>10 DEF LibraryError, Finds
<1>16. PICK new \in Outcomes(p, st, m) :
          /\ states' = [states EXCEPT ![p] = new]
          /\ effects' = EffectsOf(p, st, m, new)
  BY <1>3, <1>4, <1>6, <1>15 DEF Step
<1>17. /\ new \in PeerStates /\ Settled(p, new) /\ Progress(p, st, m, new)
       /\ m.type = "StartHeight" => new = StateAt(m.height, "propose")
       /\ m.type # "StartHeight" => Records(p, st, m, new) /\ Casts(p, st, new)
  BY <1>7, <1>10, <1>14, <1>16, InputAdvances
<1>18. ASSUME Clock(new) # Clock(st)
       PROVE  \A q \in Peers : Clock(states[q]) >= Clock(st)
  <2>1. Advances(p, st, m, new)
    BY <1>17, <1>18 DEF Progress
  <2>2. CASE ~Overtakes(m)
    BY <1>9, <2>1, <2>2 DEF Advances
  <2>3. CASE Overtakes(m)
    <3>1. st.step = "prevote" /\ \E q \in Peers \ {p, 0} : st.prevotes[q] # NoVote
      BY <2>1, <2>3 DEF Advances
    <3>2. \A s \in Peers : Clock(states[s]) >= 5 * h + VoteStage("Prevote")
      BY <1>12, <3>1 DEF VotesOf, VoteKinds
    <3>. QED
      BY <1>11, <1>13, <3>1, <3>2
  <2>. QED
    BY <2>2, <2>3
<1>19. Stepped(p, m, new)
  BY <1>1, <1>3, <1>4, <1>6, <1>9, <1>10, <1>16, <1>17, <1>18, SMT DEF Stepped
<1>. QED
  BY <1>17, <1>19

\* A step of the simulator keeps the peers in lockstep.
LEMMA StepLockstep ==
    ASSUME MostAreQuorum, TypeInv, OrderInv, Lockstep, Step
    PROVE  Lockstep'
<1>1. PICK p \in Peers, m \in Inputs, new \in PeerStates : Stepped(p, m, new)
  BY StepFacts
<1>2. Flow
  <2>1. Running("simulator")
    BY DEF Step
  <2>. QED
    BY <2>1 DEF OrderInv
<1>3. (\A q \in Peers : Settled(q, states[q]))' /\ Level'
  BY <1>1, StepClocks
<1>4. InOrder(network', states') /\ \A i \in DOMAIN network' : Timely(network'[i], states')
  BY <1>1, <1>2, StepNetwork
<1>5. Heard' /\ VotesOwed' /\ TokensOwed' /\ Asking'
  BY <1>1, StepHeard, StepVotesOwed, StepTokensOwed, StepAsking
<1>6. (\E v \in Values : Offered(v))'
  BY <1>1, StepOffered
<1>7. \A e \in effects' : EffectTimely(e)'
  BY <1>1, <1>2, StepEffects
<1>. QED
  BY <1>3, <1>4, <1>5, <1>6, <1>7 DEF Lockstep

\* Every step of every thread keeps the invariant.
LEMMA LockstepNext ==
    ASSUME MostAreQuorum, TypeInv, TypeInv', LockstepInv, [ChainNext]_chainVars
    PROVE  LockstepInv'
<1>1. OrderInv /\ OrderInv'
  BY OrderNext DEF LockstepInv
<1>2. CASE Simulate
  <2>1. Step \/ (HandleEffect /\ UNCHANGED states)
    BY <1>2 DEF Simulate, SimNext
  <2>2. Running("simulator")
    BY <2>1 DEF Step, HandleEffect, HandleScheduleTimeout, HandlePublishVote,
          HandlePublishProposal, HandleDecide, HandleGetValue, Handling
  <2>3. Lockstep /\ Flow
    BY <1>1, <2>2 DEF LockstepInv, OrderInv
  <2>4. Running("simulator")' => Lockstep'
    BY <1>1, <2>1, <2>3, StepLockstep, LockstepHandler
  <2>. QED
    BY <1>1, <2>4 DEF LockstepInv
<1>3. CASE ~Simulate
  <2>1. UNCHANGED simVars
    BY <1>3 DEF ChainNext, Builder, Consuming, PoolChanges, TaskEnds,
                       ConsumerCancelled, chainVars
  <2>2. Running("simulator")' => Running("simulator")
    <3>1. status \in [Threads -> Statuses]
      BY DEF TypeInv, ChainTypeOK, ChannelsTypeOK
    <3>2. \/ UNCHANGED status
          \/ \E t \in Threads, s \in Statuses : t # "simulator" /\ Ends(t, s)
      <4>1. Builder => \/ UNCHANGED status
                       \/ Ends("builder", "no simulator")
        BY DEF Builder, BuilderNext, CollectTransactions, SendValue, SendFails
      <4>2. Consuming => \/ UNCHANGED status
                         \/ \E s \in Statuses : Ends("consumer", s)
        BY DEF Consuming, ConsumerNext, Consume, OnProposed, OnFinalized,
              OnFinalizedElsewhere, StopConsuming, Statuses, Panics
      <4>3. PoolChanges => UNCHANGED status
        BY DEF PoolChanges
      <4>4. TaskEnds => Ends("task", "stopped")
        BY DEF TaskEnds
      <4>5. ConsumerCancelled => Ends("consumer", "cancelled")
        BY DEF ConsumerCancelled
      <4>6. UNCHANGED chainVars => UNCHANGED status
        BY DEF chainVars
      <4>7. /\ {"no simulator", "stopped", "cancelled"} \subseteq Statuses
            /\ {"builder", "consumer", "task"} \subseteq Threads
        BY DEF Statuses, Panics, Threads
      <4>. QED
        BY <1>3, <4>1, <4>2, <4>3, <4>4, <4>5, <4>6, <4>7 DEF ChainNext
    <3>3. status'["simulator"] = status["simulator"]
      BY <3>1, <3>2 DEF Ends, Threads
    <3>. QED
      BY <3>3 DEF Running
  <2>. QED
    BY <1>1, <2>1, <2>2, LockstepKept DEF LockstepInv
<1>. QED
  BY <1>2, <1>3

\* In lockstep nothing arrives early.
LEMMA LockstepTimely ==
    ASSUME MostAreQuorum, TypeInv, LockstepInv
    PROVE  NothingArrivesEarly
<1> SUFFICES ASSUME Running("simulator"), effects = {}, network # <<>>,
                    Head(network).payload.type
                        \in {"Propose", "Proposal", "ProposedValue", "Vote"}
             PROVE  /\ states[Head(network).destination].step # "unstarted"
                    /\ Head(network).payload.height
                          <= states[Head(network).destination].height
  BY DEF NothingArrivesEarly
<1>1. Lockstep
  BY DEF LockstepInv
<1>2. network \in Seq(Envelopes)
  BY DEF TypeInv, ChainTypeOK, SimTypeOK, AppTypeOK
<1>3. Head(network) = network[1] /\ 1 \in DOMAIN network /\ network[1] \in Envelopes
  BY <1>2, SMT
<1>4. PICK p \in Peers, m \in Inputs : p = network[1].destination /\ m = network[1].payload
  BY <1>3 DEF Envelopes
<1>5. PICK h \in Nat : h = m.height
  BY <1>3, <1>4, InputFields
<1>6. Timely(network[1], states)
  BY <1>1, <1>3 DEF Lockstep
<1>7. Clock(states[p]) \in Nat
  BY <1>1, PeerClock
<1>8. Clock(states[p]) >= 5 * h + 1
  <2>1. CASE m.type # "Vote"
    <3>1. Due(network[1], states) = 5 * h + 1 /\ ~Overtakes(network[1].payload)
      BY <1>3, <1>4, <1>5, <2>1 DEF Due, DueAt, IsToken, Overtakes
    <3>. QED
      BY <1>1, <3>1, FirstIsDue
  <2>2. CASE m.type = "Vote"
    <3>1. Due(network[1], states) = 5 * h + VoteStage(m.kind)
      BY <1>4, <1>5, <2>2 DEF Due, DueAt, IsToken
    <3>2. VoteStage(m.kind) \in {2, 3}
      BY DEF VoteStage
    <3>3. Clock(states[p]) + 1 >= Due(network[1], states)
      BY <1>4, <1>6, <2>2 DEF Timely
    <3>. QED
      BY <1>5, <1>7, <3>1, <3>2, <3>3, SMT
  <2>. QED
    BY <2>1, <2>2
<1>9. states[p].step # "unstarted" /\ h <= states[p].height
  BY <1>1, <1>5, <1>8, PeerClock
<1>. QED
  BY <1>3, <1>4, <1>5, <1>9

-----------------------------------------------------------------------------
(* The theorems.  Only here are theorems about finite sets needed.  They    *)
(* come from an instance of the library, with a Cardinality of its own;     *)
(* Count, which both are, links it to the one that Quorum uses.             *)

Count(S) ==
    LET count[T \in SUBSET S] ==
            IF T = {} THEN 0 ELSE 1 + count[T \ {CHOOSE x : x \in T}]
    IN  count[S]

\* A quorum, by the count of its members.
LEMMA QuorumCount ==
    ASSUME NEW votes, NEW id, 3 * Count({q \in Peers : votes[q] = id}) > 2 * N
    PROVE  QuorumFor(votes, id)
BY DEF QuorumFor, Quorum, Cardinality, Count

LOCAL INSTANCE FiniteSetTheorems

\* The count is the library's cardinality.
LEMMA CountIs ==
    ASSUME NEW S
    PROVE  Count(S) = Cardinality(S)
BY DEF Cardinality, Count

\* All peers but one are a quorum.
LEMMA AllButOneAreQuorum == MostAreQuorum
<1>. SUFFICES ASSUME NEW votes, NEW id, NEW p \in Peers,
                     \A q \in Peers \ {p} : votes[q] = id
              PROVE  QuorumFor(votes, id)
  BY DEF MostAreQuorum
<1> DEFINE S == {r \in Peers : votes[r] = id}
<1>1. Peers \ {p} \subseteq S /\ S \subseteq Peers
  OBVIOUS
<1>2. IsFiniteSet(Peers) /\ Cardinality(Peers) = N
  <2>1. /\ 0 \in Int /\ N - 1 \in Int /\ N \in Nat /\ N >= 4
    BY NAssumption, SMT
  <2>2. ~(0 > N - 1) /\ N - 1 - 0 + 1 = N
    BY <2>1, SMT
  <2>. QED
    BY <2>1, <2>2, FS_Interval DEF Peers
<1>3. IsFiniteSet(S) /\ Cardinality(S) \in Nat
  BY <1>1, <1>2, FS_Subset, FS_CardinalityType
<1>4. Cardinality(Peers \ {p}) = N - 1
  BY <1>2, FS_RemoveElement
<1>5. Cardinality(Peers \ {p}) <= Cardinality(S)
  BY <1>1, <1>3, FS_Subset
<1>6. 3 * Cardinality(S) > 2 * N
  BY <1>3, <1>4, <1>5, NAssumption, SMT
<1>7. 3 * Count(S) > 2 * N
  <2>. HIDE DEF S
  <2>. QED
    BY <1>6, CountIs
<1>. QED
  BY <1>7, QuorumCount

\* The peers stay in lockstep in every state of the consensus layer.
THEOREM StaysInLockstep == ChainSpec => [](TypeInv /\ LockstepInv)
<1>1. ChainInit => LockstepInv
  BY OrderInit, LockstepInit DEF LockstepInv
<1>2. TypeInv /\ TypeInv' /\ LockstepInv /\ [ChainNext]_chainVars => LockstepInv'
  BY AllButOneAreQuorum, LockstepNext
<1>. QED
  BY <1>1, <1>2, TypeInit, TypeNext, PTL DEF ChainSpec

\* Simulator::step always finds an envelope: the simulator, which is the only
\* sender on the channel it receives from, never waits for itself.
THEOREM NeverWaitsForItself == ChainSpec => []NetworkNeverDry
<1>1. TypeInv /\ LockstepInv => NetworkNeverDry
  BY AllButOneAreQuorum, FirstIsDue DEF LockstepInv, NetworkNeverDry
<1>. QED
  BY <1>1, StaysInLockstep, PTL

\* No peer is handed a proposal, a value or a vote of a height that it has not
\* started: nothing depends on the library holding back early inputs.
THEOREM NobodyIsOvertaken == ChainSpec => []NothingArrivesEarly
<1>1. TypeInv /\ LockstepInv => NothingArrivesEarly
  BY AllButOneAreQuorum, LockstepTimely
<1>. QED
  BY <1>1, StaysInLockstep, PTL

\* No peer enters a height before every other peer has decided the one before, so
\* that nobody ever has to be brought up to date.
THEOREM NobodyIsLeftBehind == ChainSpec => []NobodyFallsBehind
<1>1. TypeInv /\ LockstepInv => NobodyFallsBehind
  BY LevelHeights DEF LockstepInv, NobodyFallsBehind
<1>. QED
  BY <1>1, StaysInLockstep, PTL

=============================================================================
