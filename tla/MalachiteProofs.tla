-------------------------- MODULE MalachiteProofs ---------------------------
(***************************************************************************)
(* What one input does to the state of a peer, for every size of the peer  *)
(* set: the rules of module Malachite, the inputs and the effects they     *)
(* leave, and the clock of a peer, its height and step in one number,      *)
(* which an input moves by at most one.                                    *)
(***************************************************************************)
EXTENDS ChainInvariants, TLAPS

\* The prover of the steps that name no other; most of them need no arithmetic.
USE Zenon

-----------------------------------------------------------------------------
(* The rules. *)

\* A set of at most two elements has a cardinality of at most two.
LEMMA SmallSets ==
    ASSUME NEW a, NEW b, NEW S \in SUBSET {a, b}
    PROVE  Cardinality(S) \in 0..2
<1>. DEFINE G(f) == [T \in SUBSET S |->
                        IF T = {} THEN 0 ELSE 1 + f[T \ {CHOOSE x : x \in T}]]
            F == [T \in SUBSET S |->
                        IF T = {} THEN 0 ELSE IF \E x : T = {x} THEN 1 ELSE 2]
<1>1. ASSUME NEW T \in SUBSET S, T # {}
      PROVE  \E x \in T : x = (CHOOSE y : y \in T) /\ T \ {x} \in SUBSET S
  BY <1>1
<1>2. F = G(F)
  <2>1. ASSUME NEW T \in SUBSET S, T # {}
        PROVE  F[T] = 1 + F[T \ {CHOOSE x : x \in T}]
    <3>1. PICK x \in T : x = (CHOOSE y : y \in T) /\ T \ {x} \in SUBSET S
      BY <1>1, <2>1
    <3>2. CASE \E y : T = {y}
      <4>1. T \ {x} = {}
        BY <3>2
      <4>2. F[T] = 1 /\ F[T \ {x}] = 0
        BY <2>1, <3>1, <3>2, <4>1
      <4>. QED
        BY <3>1, <4>2, SMT
    <3>3. CASE ~ \E y : T = {y}
      <4>1. PICK y \in T : y # x
        BY <3>3, SMT
      <4>2. T \ {x} = {y}
        BY <4>1
      <4>3. F[T] = 2 /\ F[T \ {x}] = 1
        BY <2>1, <3>1, <3>3, <4>2
      <4>. QED
        BY <3>1, <4>3, SMT
    <3>. QED
      BY <3>2, <3>3
  <2>. QED
    BY <2>1
<1>3. PICK g : g = CHOOSE f : f = G(f)
  OBVIOUS
<1>4. g = G(g)
  <2>. HIDE DEF G, F
  <2>. QED
    BY <1>2, <1>3
<1>5. Cardinality(S) = g[S]
  BY <1>3 DEF Cardinality
<1>6. ASSUME NEW T \in SUBSET S, T # {}
      PROVE  \E x \in T : T \ {x} \in SUBSET S /\ g[T] = 1 + g[T \ {x}]
  BY <1>1, <1>4, <1>6
<1>7. g[{}] = 0
  BY <1>4
<1>8. ASSUME NEW T \in SUBSET S, NEW y, T = {y} PROVE g[T] = 1
  <2>1. PICK x \in T : T \ {x} \in SUBSET S /\ g[T] = 1 + g[T \ {x}]
    BY <1>6, <1>8
  <2>2. T \ {x} = {}
    BY <1>8
  <2>. QED
    BY <1>7, <2>1, <2>2, SMT
<1>9. CASE S = {}
  BY <1>5, <1>7, <1>9, SMT
<1>10. CASE \E y : S = {y}
  BY <1>5, <1>8, <1>10, SMT
<1>11. CASE S # {} /\ ~ \E y : S = {y}
  <2>1. PICK x \in S : S \ {x} \in SUBSET S /\ g[S] = 1 + g[S \ {x}]
    BY <1>6, <1>11
  <2>2. PICK y \in S : y # x
    BY <1>11
  <2>3. S \ {x} = {y}
    BY <2>2
  <2>4. g[S \ {x}] = 1
    BY <1>8, <2>1, <2>3
  <2>. QED
    BY <1>5, <2>1, <2>4, SMT
<1>. QED
  BY <1>9, <1>10, <1>11

\* A quorum does not consist of a single peer.
LEMMA QuorumHasOther ==
    ASSUME NEW votes, NEW id, NEW p \in Peers, QuorumFor(votes, id)
    PROVE  \E q \in Peers : q # p /\ votes[q] = id
<1> DEFINE S == {q \in Peers : votes[q] = id}
<1>1. SUFFICES ASSUME S \subseteq {p} PROVE FALSE
  OBVIOUS
<1>2. S \in SUBSET {p, p}
  BY <1>1
<1>3. Cardinality(S) \in 0..2
  <2>. HIDE DEF S
  <2>. QED
    BY <1>2, SmallSets
<1>4. 3 * Cardinality(S) > 2 * N
  BY DEF QuorumFor, Quorum
<1>. QED
  BY <1>3, <1>4, NAssumption, SMT

\* The value proposed to a peer that has a proposal is one of the values.
LEMMA ProposedIdType ==
    ASSUME NEW st \in PeerStates, st.proposal # {}
    PROVE  ProposedId(st) \in Nat
BY DEF ProposedId, PeerStates, Values

\* The state in which a height starts is well typed.
LEMMA StateAtType ==
    ASSUME NEW h \in Nat, NEW step \in Steps
    PROVE  StateAt(h, step) \in PeerStates
BY SMT DEF StateAt, PeerStates, NoVote

\* The three updates of which the rules consist.
LEMMA PrevoteCast ==
    ASSUME NEW p \in Peers, NEW st \in PeerStates, NEW id \in Int,
           NEW new, new = CastPrevote(p, st, id)
    PROVE  /\ new \in PeerStates
           /\ new.height = st.height /\ new.step = "prevote"
           /\ new.proposal = st.proposal /\ new.values = st.values
           /\ new.prevotes = [st.prevotes EXCEPT ![p] = id]
           /\ new.precommits = st.precommits
<1>1. new \in PeerStates
  BY DEF CastPrevote, PeerStates, Steps
<1>. QED
  BY <1>1 DEF CastPrevote, PeerStates

\* What casting a precommit changes.
LEMMA PrecommitCast ==
    ASSUME NEW p \in Peers, NEW st \in PeerStates, NEW id \in Int,
           NEW new, new = CastPrecommit(p, st, id)
    PROVE  /\ new \in PeerStates
           /\ new.height = st.height /\ new.step = "precommit"
           /\ new.proposal = st.proposal /\ new.values = st.values
           /\ new.prevotes = st.prevotes
           /\ new.precommits = [st.precommits EXCEPT ![p] = id]
<1>1. new \in PeerStates
  BY DEF CastPrecommit, PeerStates, Steps
<1>. QED
  BY <1>1 DEF CastPrecommit, PeerStates

\* Moving to another step leaves everything else alone.
LEMMA StepTaken ==
    ASSUME NEW st \in PeerStates, NEW step \in Steps,
           NEW new, new = ToStep(st, step)
    PROVE  /\ new \in PeerStates
           /\ new.height = st.height /\ new.step = step
           /\ new.proposal = st.proposal /\ new.values = st.values
           /\ new.prevotes = st.prevotes /\ new.precommits = st.precommits
BY DEF ToStep, PeerStates

\* The prevote is for the proposal.
LEMMA PrevoteRuleFacts ==
    ASSUME NEW p \in Peers, NEW st \in PeerStates, NEW new, new = PrevoteRule(p, st)
    PROVE  /\ new \in PeerStates
           /\ new.height = st.height
           /\ new.proposal = st.proposal /\ new.values = st.values
           /\ new.precommits = st.precommits
           /\ \/ new = st
              \/ /\ st.step = "propose" /\ new.step = "prevote" /\ Full(st)
                 /\ new.prevotes = [st.prevotes EXCEPT ![p] = ProposedId(st)]
<1>1. CASE st.step = "propose" /\ Full(st)
  <2>1. ProposedId(st) \in Int
    BY <1>1, ProposedIdType, SMT DEF Full
  <2>2. new = CastPrevote(p, st, ProposedId(st))
    BY <1>1 DEF PrevoteRule
  <2>. QED
    BY <1>1, <2>1, <2>2, PrevoteCast, SMT
<1>2. CASE ~(st.step = "propose" /\ Full(st))
  BY <1>2 DEF PrevoteRule
<1>. QED
  BY <1>1, <1>2

\* The precommit is for the proposal, or nil.
LEMMA PrecommitRuleFacts ==
    ASSUME NEW p \in Peers, NEW st \in PeerStates, NEW new, new = PrecommitRule(p, st)
    PROVE  /\ new \in PeerStates
           /\ new.height = st.height
           /\ new.proposal = st.proposal /\ new.values = st.values
           /\ new.prevotes = st.prevotes
           /\ \/ new = st
              \/ /\ st.step = "prevote" /\ new.step = "precommit"
                 /\ \/ Full(st) /\ QuorumFor(st.prevotes, ProposedId(st))
                       /\ new.precommits = [st.precommits EXCEPT ![p] = ProposedId(st)]
                    \/ QuorumFor(st.prevotes, Nil)
                       /\ new.precommits = [st.precommits EXCEPT ![p] = Nil]
<1>0. Nil \in Int
  BY SMT DEF Nil
<1>1. CASE st.step = "prevote" /\ Full(st) /\ QuorumFor(st.prevotes, ProposedId(st))
  <2>1. ProposedId(st) \in Int
    BY <1>1, ProposedIdType, SMT DEF Full
  <2>2. new = CastPrecommit(p, st, ProposedId(st))
    BY <1>1 DEF PrecommitRule
  <2>. QED
    BY <1>0, <1>1, <2>1, <2>2, PrecommitCast, SMT
<1>2. CASE /\ ~(st.step = "prevote" /\ Full(st) /\ QuorumFor(st.prevotes, ProposedId(st)))
           /\ st.step = "prevote" /\ QuorumFor(st.prevotes, Nil)
  <2>1. new = CastPrecommit(p, st, Nil)
    BY <1>2 DEF PrecommitRule
  <2>. QED
    BY <1>0, <1>2, <2>1, PrecommitCast, SMT
<1>3. CASE /\ ~(st.step = "prevote" /\ Full(st) /\ QuorumFor(st.prevotes, ProposedId(st)))
           /\ ~(st.step = "prevote" /\ QuorumFor(st.prevotes, Nil))
  BY <1>3 DEF PrecommitRule
<1>. QED
  BY <1>1, <1>2, <1>3

\* The commit needs a quorum of precommits for the proposal.
LEMMA CommitRuleFacts ==
    ASSUME NEW st \in PeerStates, NEW new, new = CommitRule(st)
    PROVE  /\ new \in PeerStates
           /\ new.height = st.height
           /\ new.proposal = st.proposal /\ new.values = st.values
           /\ new.prevotes = st.prevotes /\ new.precommits = st.precommits
           /\ \/ new = st
              \/ /\ st.step \in {"propose", "prevote", "precommit"}
                 /\ new.step = "commit"
                 /\ Full(st) /\ QuorumFor(st.precommits, ProposedId(st))
<1>0. "commit" \in Steps
  BY DEF Steps
<1>1. CASE /\ st.step \in {"propose", "prevote", "precommit"}
           /\ Full(st) /\ QuorumFor(st.precommits, ProposedId(st))
  <2>1. new = ToStep(st, "commit")
    BY <1>1 DEF CommitRule
  <2>. QED
    BY <1>0, <1>1, <2>1, StepTaken, SMT
<1>2. CASE ~(/\ st.step \in {"propose", "prevote", "precommit"}
             /\ Full(st) /\ QuorumFor(st.precommits, ProposedId(st)))
  BY <1>2 DEF CommitRule
<1>. QED
  BY <1>1, <1>2

\* All rules together: a peer casts only its own votes, for the proposal or nil,
\* and commits only when some other peer has precommitted the proposal.
LEMMA ReactFacts ==
    ASSUME NEW p \in Peers, NEW st \in PeerStates, NEW new, new = React(p, st)
    PROVE  /\ new \in PeerStates
           /\ new.height = st.height
           /\ new.proposal = st.proposal /\ new.values = st.values
           /\ \A q \in Peers : new.prevotes[q] # st.prevotes[q] =>
                 q = p /\ st.proposal # {} /\ new.prevotes[q] = ProposedId(st)
           /\ \A q \in Peers : new.precommits[q] # st.precommits[q] =>
                 /\ q = p
                 /\ \/ new.precommits[q] = Nil
                    \/ st.proposal # {} /\ new.precommits[q] = ProposedId(st)
           /\ new.step # st.step /\ new.step = "commit" =>
                 /\ st.proposal # {}
                 /\ \E q \in Peers : q # p /\ st.precommits[q] = ProposedId(st)
           /\ st.step \notin {"propose", "prevote", "precommit"} => new = st
           /\ new.step \in {st.step, "prevote", "precommit", "commit"}
<1> DEFINE s1 == PrevoteRule(p, st)
           s2 == PrecommitRule(p, s1)
<1> HIDE DEF s1, s2
<1>0. new = CommitRule(s2)
  BY DEF React, s1, s2
<1>1. /\ s1 \in PeerStates
      /\ s1.height = st.height
      /\ s1.proposal = st.proposal /\ s1.values = st.values
      /\ s1.precommits = st.precommits
      /\ \/ s1 = st
         \/ /\ st.step = "propose" /\ s1.step = "prevote" /\ Full(st)
            /\ s1.prevotes = [st.prevotes EXCEPT ![p] = ProposedId(st)]
  BY PrevoteRuleFacts, SMT DEF s1
<1>2. /\ s2 \in PeerStates
      /\ s2.height = s1.height
      /\ s2.proposal = s1.proposal /\ s2.values = s1.values
      /\ s2.prevotes = s1.prevotes
      /\ \/ s2 = s1
         \/ /\ s1.step = "prevote" /\ s2.step = "precommit"
            /\ \/ Full(s1) /\ QuorumFor(s1.prevotes, ProposedId(s1))
                  /\ s2.precommits = [s1.precommits EXCEPT ![p] = ProposedId(s1)]
               \/ QuorumFor(s1.prevotes, Nil)
                  /\ s2.precommits = [s1.precommits EXCEPT ![p] = Nil]
  BY <1>1, PrecommitRuleFacts, SMT DEF s2
<1>3. /\ new \in PeerStates
      /\ new.height = s2.height
      /\ new.proposal = s2.proposal /\ new.values = s2.values
      /\ new.prevotes = s2.prevotes /\ new.precommits = s2.precommits
      /\ \/ new = s2
         \/ /\ s2.step \in {"propose", "prevote", "precommit"}
            /\ new.step = "commit"
            /\ Full(s2) /\ QuorumFor(s2.precommits, ProposedId(s2))
  BY <1>0, <1>2, CommitRuleFacts
<1>4. ProposedId(s1) = ProposedId(st) /\ ProposedId(s2) = ProposedId(st)
  BY <1>1, <1>2 DEF ProposedId
<1>5. \A q \in Peers : new.prevotes[q] # st.prevotes[q] =>
          q = p /\ st.proposal # {} /\ new.prevotes[q] = ProposedId(st)
  BY <1>1, <1>2, <1>3, SMT DEF PeerStates, Full
<1>6. \A q \in Peers : s2.precommits[q] # st.precommits[q] =>
          /\ q = p
          /\ \/ s2.precommits[q] = Nil
             \/ st.proposal # {} /\ s2.precommits[q] = ProposedId(st)
  BY <1>1, <1>2, <1>4, SMT DEF PeerStates, Full
<1>7. ASSUME new.step # st.step, new.step = "commit"
      PROVE  /\ st.proposal # {}
             /\ \E q \in Peers : q # p /\ st.precommits[q] = ProposedId(st)
  <2>1. Full(s2) /\ QuorumFor(s2.precommits, ProposedId(s2))
    BY <1>1, <1>2, <1>3, <1>7
  <2>2. PICK q \in Peers : q # p /\ s2.precommits[q] = ProposedId(s2)
    BY <2>1, QuorumHasOther
  <2>. QED
    BY <1>1, <1>2, <1>4, <1>6, <2>1, <2>2 DEF Full
<1>8. st.step \notin {"propose", "prevote", "precommit"} => new = st
  BY <1>1, <1>2, <1>3
<1>. QED
  BY <1>1, <1>2, <1>3, <1>5, <1>6, <1>7, <1>8, SMT

-----------------------------------------------------------------------------
(* The inputs. *)

\* The fields of the inputs.
LEMMA InputFields ==
    ASSUME NEW m \in Inputs
    PROVE  /\ m.type = "StartHeight" => m.height \in Nat
           /\ m.type \in {"Propose", "Proposal", "ProposedValue"} =>
                 m \in ValueInputs /\ m.height \in Nat /\ m.value \in Values
           /\ m.type = "Vote" =>
                 /\ m \in Votes /\ m.kind \in VoteKinds /\ m.height \in Nat
                 /\ m.id \in Int /\ m.voter \in Peers
           /\ m.type = "TimeoutElapsed" => m.kind \in TimeoutKinds
           /\ m.type \in {"StartHeight", "Propose", "Proposal", "ProposedValue",
                          "Vote", "TimeoutElapsed"}
BY DEF Inputs, ValueInputs, Votes

\* What storing a proposal changes.
LEMMA StoreProposalFacts ==
    ASSUME NEW st \in PeerStates, NEW v \in Values, NEW new, new = StoreProposal(st, v)
    PROVE  /\ new \in PeerStates
           /\ new.height = st.height /\ new.step = st.step
           /\ new.prevotes = st.prevotes /\ new.precommits = st.precommits
           /\ new.proposal = IF st.proposal = {} THEN {v} ELSE st.proposal
<1>1. new \in PeerStates
  BY DEF StoreProposal, PeerStates
<1>. QED
  BY <1>1 DEF StoreProposal, PeerStates

\* What storing a proposed value changes.
LEMMA StoreValueFacts ==
    ASSUME NEW st \in PeerStates, NEW v \in Values, NEW new, new = StoreValue(st, v)
    PROVE  /\ new \in PeerStates
           /\ new.height = st.height /\ new.step = st.step
           /\ new.prevotes = st.prevotes /\ new.precommits = st.precommits
           /\ new.proposal = st.proposal
<1>1. new \in PeerStates
  BY DEF StoreValue, PeerStates
<1>. QED
  BY <1>1 DEF StoreValue, PeerStates

\* What storing a vote changes.
LEMMA StoreVoteFacts ==
    ASSUME NEW st \in PeerStates, NEW m \in Votes, NEW new, new = StoreVote(st, m)
    PROVE  /\ new \in PeerStates
           /\ new.height = st.height /\ new.step = st.step
           /\ new.proposal = st.proposal
           /\ \A q \in Peers : new.prevotes[q] # st.prevotes[q] =>
                 q = m.voter /\ new.prevotes[q] = m.id
           /\ \A q \in Peers : new.precommits[q] # st.precommits[q] =>
                 q = m.voter /\ new.precommits[q] = m.id
<1>1. new \in PeerStates
  BY DEF StoreVote, PeerStates, Votes
<1>. QED
  BY <1>1 DEF StoreVote, PeerStates, Votes

\* What a timeout changes.
LEMMA OnTimeoutFacts ==
    ASSUME NEW p \in Peers, NEW st \in PeerStates, NEW k \in TimeoutKinds,
           NEW new, new = OnTimeout(p, st, k)
    PROVE  /\ new \in PeerStates
           /\ new.height = st.height /\ new.proposal = st.proposal
           /\ \A q \in Peers : new.prevotes[q] # st.prevotes[q] =>
                 q = p /\ new.prevotes[q] = Nil
           /\ \A q \in Peers : new.precommits[q] # st.precommits[q] =>
                 q = p /\ new.precommits[q] = Nil
           /\ new.step = "commit" => st.step = "commit"
           /\ new.step = "decided" => st.step \in {"commit", "decided"}
<1>0. Nil \in Int /\ "newround" \in Steps /\ "decided" \in Steps
  BY SMT DEF Nil, Steps
<1>1. CASE k = "Propose" /\ st.step = "propose"
  <2>1. new = CastPrevote(p, st, Nil)
    BY <1>1 DEF OnTimeout
  <2>2. /\ new \in PeerStates
        /\ new.height = st.height /\ new.step = "prevote"
        /\ new.proposal = st.proposal
        /\ new.prevotes = [st.prevotes EXCEPT ![p] = Nil]
        /\ new.precommits = st.precommits
    BY <1>0, <2>1, PrevoteCast, SMT
  <2>. QED
    BY <2>2 DEF PeerStates
<1>2. CASE k = "Prevote" /\ st.step = "prevote"
  <2>1. new = CastPrecommit(p, st, Nil)
    BY <1>2 DEF OnTimeout
  <2>2. /\ new \in PeerStates
        /\ new.height = st.height /\ new.step = "precommit"
        /\ new.proposal = st.proposal
        /\ new.prevotes = st.prevotes
        /\ new.precommits = [st.precommits EXCEPT ![p] = Nil]
    BY <1>0, <2>1, PrecommitCast, SMT
  <2>. QED
    BY <2>2 DEF PeerStates
<1>3. CASE k = "Precommit" /\ st.step \in {"propose", "prevote", "precommit"}
  <2>1. new = ToStep(st, "newround")
    BY <1>3 DEF OnTimeout
  <2>. QED
    BY <1>0, <2>1, StepTaken, SMT
<1>4. CASE k = "Commit" /\ st.step = "commit"
  <2>1. new = ToStep(st, "decided")
    BY <1>4 DEF OnTimeout
  <2>. QED
    BY <1>0, <1>4, <2>1, StepTaken, SMT
<1>5. CASE /\ ~(k = "Propose" /\ st.step = "propose")
           /\ ~(k = "Prevote" /\ st.step = "prevote")
           /\ ~(k = "Precommit" /\ st.step \in {"propose", "prevote", "precommit"})
           /\ ~(k = "Commit" /\ st.step = "commit")
  <2>1. new = st
    BY <1>5 DEF OnTimeout
  <2>. QED
    BY <2>1
<1>. QED
  BY <1>1, <1>2, <1>3, <1>4, <1>5

\* A vote that peer p holds for q after an input it did not hold before is its
\* own, nil or for its proposal, or the one the input carries.
VoteOrigin(p, m, new, q, id) ==
    \/ q = p /\ id = Nil
    \/ q = p /\ new.proposal # {} /\ id = ProposedId(new)
    \/ m.type = "Vote" /\ q = m.voter /\ id = m.id

\* The inputs that may change the state of a peer.
Accepted(st, m) ==
    \/ m.type = "TimeoutElapsed"
    \/ Current(st, m) /\ (m.type = "Propose" => st.step = "propose")

\* What any input other than the start of a height does to a peer.
InputResult(p, st, m, new) ==
    /\ new \in PeerStates
    /\ new.height = st.height
    /\ \/ new.proposal = st.proposal
       \/ /\ m.type \in {"Propose", "Proposal"}
          /\ st.proposal = {} /\ new.proposal = {m.value}
    /\ new # st => Accepted(st, m)
    /\ \A q \in Peers : new.prevotes[q] # st.prevotes[q] =>
          VoteOrigin(p, m, new, q, new.prevotes[q])
    /\ \A q \in Peers : new.precommits[q] # st.precommits[q] =>
          VoteOrigin(p, m, new, q, new.precommits[q])
    /\ new.step = "commit" /\ st.step # "commit" =>
          /\ new.proposal # {}
          /\ \E q \in Peers : q # p /\ new.precommits[q] = ProposedId(new)
    /\ new.step = "decided" => st.step \in {"commit", "decided"}

\* An update that keeps within the bounds of an input, followed by React, does too.
LEMMA ReactResult ==
    ASSUME NEW p \in Peers, NEW st \in PeerStates, NEW m, NEW mid \in PeerStates,
           NEW new, new = React(p, mid),
           mid.height = st.height,
           \/ mid.proposal = st.proposal
           \/ /\ m.type \in {"Propose", "Proposal"}
              /\ st.proposal = {} /\ mid.proposal = {m.value},
           Accepted(st, m),
           \A q \in Peers : mid.prevotes[q] # st.prevotes[q] =>
               VoteOrigin(p, m, mid, q, mid.prevotes[q]),
           \A q \in Peers : mid.precommits[q] # st.precommits[q] =>
               VoteOrigin(p, m, mid, q, mid.precommits[q]),
           mid.step = "commit" => st.step = "commit",
           mid.step = "decided" => st.step \in {"commit", "decided"}
    PROVE  InputResult(p, st, m, new)
<1>1. /\ new \in PeerStates
      /\ new.height = mid.height
      /\ new.proposal = mid.proposal
      /\ \A q \in Peers : new.prevotes[q] # mid.prevotes[q] =>
            q = p /\ mid.proposal # {} /\ new.prevotes[q] = ProposedId(mid)
      /\ \A q \in Peers : new.precommits[q] # mid.precommits[q] =>
            /\ q = p
            /\ \/ new.precommits[q] = Nil
               \/ mid.proposal # {} /\ new.precommits[q] = ProposedId(mid)
      /\ new.step # mid.step /\ new.step = "commit" =>
            /\ mid.proposal # {}
            /\ \E q \in Peers : q # p /\ mid.precommits[q] = ProposedId(mid)
      /\ new.step \in {mid.step, "prevote", "precommit", "commit"}
  BY ReactFacts, SMT
<1>2. ProposedId(new) = ProposedId(mid)
  BY <1>1 DEF ProposedId
<1>3. \A q \in Peers : new.prevotes[q] # st.prevotes[q] =>
          VoteOrigin(p, m, new, q, new.prevotes[q])
  BY <1>1, <1>2, SMT DEF VoteOrigin
<1>4. \A q \in Peers : new.precommits[q] # st.precommits[q] =>
          VoteOrigin(p, m, new, q, new.precommits[q])
  BY <1>1, <1>2, SMT DEF VoteOrigin
<1>5. ASSUME new.step = "commit", st.step # "commit"
      PROVE  /\ new.proposal # {}
             /\ \E q \in Peers : q # p /\ new.precommits[q] = ProposedId(new)
  <2>1. PICK q \in Peers : q # p /\ mid.precommits[q] = ProposedId(mid)
    BY <1>1, <1>5
  <2>2. new.precommits[q] = ProposedId(new)
    BY <1>1, <1>2, <2>1
  <2>. QED
    BY <1>1, <1>5, <2>1, <2>2
<1>. QED
  BY <1>1, <1>3, <1>4, <1>5 DEF InputResult

\* What processing any input changes.
LEMMA OutcomeFacts ==
    ASSUME NEW p \in Peers, NEW st \in PeerStates, NEW m \in Inputs,
           NEW new \in Outcomes(p, st, m)
    PROVE  /\ new \in PeerStates
           /\ m.type = "StartHeight" => new = StateAt(m.height, "propose")
           /\ m.type # "StartHeight" => InputResult(p, st, m, new)
<1>0. ASSUME new = st, m.type # "StartHeight" PROVE InputResult(p, st, m, new)
  BY <1>0 DEF InputResult
<1>1. CASE m.type = "StartHeight"
  <2>1. new = StateAt(m.height, "propose") /\ m.height \in Nat /\ "propose" \in Steps
    BY <1>1, InputFields DEF Outcomes, Steps
  <2>. QED
    BY <1>1, <2>1, StateAtType
<1>2. CASE m.type = "TimeoutElapsed"
  <2> DEFINE mid == OnTimeout(p, st, m.kind)
  <2>1. new = React(p, mid) /\ m.kind \in TimeoutKinds
    BY <1>2, InputFields DEF Outcomes
  <2> HIDE DEF mid
  <2>2. /\ mid \in PeerStates
        /\ mid.height = st.height /\ mid.proposal = st.proposal
        /\ \A q \in Peers : mid.prevotes[q] # st.prevotes[q] =>
              q = p /\ mid.prevotes[q] = Nil
        /\ \A q \in Peers : mid.precommits[q] # st.precommits[q] =>
              q = p /\ mid.precommits[q] = Nil
        /\ mid.step = "commit" => st.step = "commit"
        /\ mid.step = "decided" => st.step \in {"commit", "decided"}
    BY <2>1, OnTimeoutFacts, SMT DEF mid
  <2>3. InputResult(p, st, m, new)
    BY <1>2, <2>1, <2>2, ReactResult DEF VoteOrigin, Accepted
  <2>. QED
    BY <1>2, <2>3 DEF InputResult
<1>3. CASE m.type \in {"Propose", "Proposal", "ProposedValue", "Vote"}
           /\ ~(Current(st, m) /\ (m.type = "Propose" => st.step = "propose"))
  <2>1. new = st
    BY <1>3 DEF Outcomes
  <2>. QED
    BY <1>0, <1>3, <2>1
<1>4. CASE m.type = "Propose" /\ Current(st, m) /\ st.step = "propose"
  <2> DEFINE s1 == StoreProposal(st, m.value)
             mid == StoreValue(s1, m.value)
  <2>1. (new = st \/ new = React(p, mid)) /\ m.value \in Values
    BY <1>4, InputFields DEF Outcomes
  <2> HIDE DEF s1, mid
  <2>2. /\ s1 \in PeerStates
        /\ s1.height = st.height /\ s1.step = st.step
        /\ s1.prevotes = st.prevotes /\ s1.precommits = st.precommits
        /\ s1.proposal = IF st.proposal = {} THEN {m.value} ELSE st.proposal
    BY <2>1, StoreProposalFacts DEF s1
  <2>3. /\ mid \in PeerStates
        /\ mid.height = s1.height /\ mid.step = s1.step
        /\ mid.prevotes = s1.prevotes /\ mid.precommits = s1.precommits
        /\ mid.proposal = s1.proposal
    BY <2>1, <2>2, StoreValueFacts DEF mid
  <2>4. new = React(p, mid) => InputResult(p, st, m, new)
    BY <1>4, <2>2, <2>3, ReactResult DEF Accepted
  <2>. QED
    BY <1>0, <1>4, <2>1, <2>4 DEF InputResult
<1>5. CASE m.type = "Proposal" /\ Current(st, m)
  <2> DEFINE mid == StoreProposal(st, m.value)
  <2>1. new = React(p, mid) /\ m.value \in Values
    BY <1>5, InputFields DEF Outcomes
  <2> HIDE DEF mid
  <2>2. /\ mid \in PeerStates
        /\ mid.height = st.height /\ mid.step = st.step
        /\ mid.prevotes = st.prevotes /\ mid.precommits = st.precommits
        /\ mid.proposal = IF st.proposal = {} THEN {m.value} ELSE st.proposal
    BY <2>1, StoreProposalFacts DEF mid
  <2>3. InputResult(p, st, m, new)
    BY <1>5, <2>1, <2>2, ReactResult DEF Accepted
  <2>. QED
    BY <1>5, <2>3 DEF InputResult
<1>6. CASE m.type = "ProposedValue" /\ Current(st, m)
  <2> DEFINE mid == StoreValue(st, m.value)
  <2>1. new = React(p, mid) /\ m.value \in Values
    BY <1>6, InputFields DEF Outcomes
  <2> HIDE DEF mid
  <2>2. /\ mid \in PeerStates
        /\ mid.height = st.height /\ mid.step = st.step
        /\ mid.prevotes = st.prevotes /\ mid.precommits = st.precommits
        /\ mid.proposal = st.proposal
    BY <2>1, StoreValueFacts DEF mid
  <2>3. InputResult(p, st, m, new)
    BY <1>6, <2>1, <2>2, ReactResult DEF Accepted
  <2>. QED
    BY <1>6, <2>3 DEF InputResult
<1>7. CASE m.type = "Vote" /\ Current(st, m)
  <2> DEFINE mid == StoreVote(st, m)
  <2>1. new = React(p, mid) /\ m \in Votes
    BY <1>7, InputFields DEF Outcomes
  <2> HIDE DEF mid
  <2>2. /\ mid \in PeerStates
        /\ mid.height = st.height /\ mid.step = st.step
        /\ mid.proposal = st.proposal
        /\ \A q \in Peers : mid.prevotes[q] # st.prevotes[q] =>
              q = m.voter /\ mid.prevotes[q] = m.id
        /\ \A q \in Peers : mid.precommits[q] # st.precommits[q] =>
              q = m.voter /\ mid.precommits[q] = m.id
    BY <2>1, StoreVoteFacts, SMT DEF mid
  <2>3. InputResult(p, st, m, new)
    BY <1>7, <2>1, <2>2, ReactResult DEF VoteOrigin, Accepted
  <2>. QED
    BY <1>7, <2>3 DEF InputResult
<1>. QED
  BY <1>1, <1>2, <1>3, <1>4, <1>5, <1>6, <1>7, InputFields

\* The effects of a call, by kind.
LEMMA EffectKinds ==
    ASSUME NEW p, NEW st, NEW m, NEW new, NEW e \in EffectsOf(p, st, m, new)
    PROVE  \/ \E k \in TimeoutKinds : e = ScheduleTimeout(k)
           \/ m.type = "StartHeight" /\ e = GetValue(m.height)
           \/ /\ m.type = "Propose" /\ Current(st, m) /\ st.step = "propose"
              /\ e = Publish(Proposal(m.height, m.value))
           \/ /\ new.prevotes[p] # NoVote
              /\ e = Publish(Vote("Prevote", new.height, new.prevotes[p], p))
           \/ /\ new.precommits[p] # NoVote
              /\ e = Publish(Vote("Precommit", new.height, new.precommits[p], p))
           \/ st.step = "commit" /\ e = Decide(st.height, ProposedId(st))
<1>1. CASE e \in InputEffects(p, st, m)
  BY <1>1 DEF InputEffects, When, TimeoutKinds
<1>2. CASE e \in VoteEffects(p, st, new)
  BY <1>2 DEF VoteEffects, When, TimeoutKinds
<1>3. CASE e \in DecisionEffects(st, new)
  BY <1>3 DEF DecisionEffects, When, TimeoutKinds
<1>. QED
  BY <1>1, <1>2, <1>3 DEF EffectsOf

\* A proposer that is given a value publishes its proposal.
LEMMA ProposePublishes ==
    ASSUME NEW p, NEW st, NEW m, NEW new,
           m.type = "Propose", Current(st, m), st.step = "propose"
    PROVE  Publish(Proposal(m.height, m.value)) \in EffectsOf(p, st, m, new)
BY DEF EffectsOf, InputEffects, When

\* The effects of an input are well typed.
LEMMA EffectsType ==
    ASSUME NEW p \in Peers, NEW st \in PeerStates, NEW m \in Inputs,
           NEW new \in PeerStates, st.step = "commit" => st.proposal # {}
    PROVE  EffectsOf(p, st, m, new) \subseteq Effects
<1> SUFFICES ASSUME NEW e \in EffectsOf(p, st, m, new) PROVE e \in Effects
  OBVIOUS
<1>1. CASE \E k \in TimeoutKinds : e = ScheduleTimeout(k)
  BY <1>1, SMT DEF ScheduleTimeout, Effects
<1>2. CASE m.type = "StartHeight" /\ e = GetValue(m.height)
  BY <1>2, InputFields DEF GetValue, Effects
<1>3. CASE m.type = "Propose" /\ e = Publish(Proposal(m.height, m.value))
  <2>1. m.height \in Nat /\ m.value \in Values
    BY <1>3, InputFields
  <2>. QED
    BY <1>3, <2>1 DEF Publish, Proposal, ValueInputs, Effects
<1>4. CASE \E k \in VoteKinds, id \in Int : e = Publish(Vote(k, new.height, id, p))
  <2>1. new.height \in Nat
    BY DEF PeerStates
  <2>. QED
    BY <1>4, <2>1, SMT DEF Publish, Vote, Votes, Effects
<1>5. CASE st.step = "commit" /\ e = Decide(st.height, ProposedId(st))
  <2>1. st.height \in Nat /\ ProposedId(st) \in Nat
    BY <1>5, ProposedIdType DEF PeerStates
  <2>. QED
    BY <1>5, <2>1, SMT DEF Decide, Effects
<1>6. new.prevotes[p] \in Int /\ new.precommits[p] \in Int
  BY DEF PeerStates
<1>. QED
  BY <1>1, <1>2, <1>3, <1>4, <1>5, <1>6, EffectKinds DEF VoteKinds

-----------------------------------------------------------------------------
(* What one input does to the step of a peer. *)

\* The rules leave a peer alone that is not deciding, and keep one that is in its height.
LEMMA ReactSteps ==
    ASSUME NEW p \in Peers, NEW st \in PeerStates, NEW new, new = React(p, st)
    PROVE  /\ st.step \notin {"propose", "prevote", "precommit"} => new = st
           /\ st.step \in {"propose", "prevote", "precommit"} =>
                new.step \in {"propose", "prevote", "precommit", "commit"}
<1>1. ASSUME st.step \notin {"propose", "prevote", "precommit"} PROVE new = st
  <2>1. PrevoteRule(p, st) = st
    BY <1>1 DEF PrevoteRule
  <2>2. PrecommitRule(p, st) = st
    BY <1>1 DEF PrecommitRule
  <2>3. CommitRule(st) = st
    BY <1>1 DEF CommitRule
  <2>. QED
    BY <2>1, <2>2, <2>3 DEF React
<1>2. new.step \in {st.step, "prevote", "precommit", "commit"}
  BY ReactFacts
<1>. QED
  BY <1>1, <1>2

\* Only the commit timeout takes a peer out of its height, and none out of round 0.
StepKept(st, new) ==
    /\ st.step \in {"unstarted", "decided", "commit"} => new.step = st.step
    /\ st.step \in {"propose", "prevote", "precommit"} =>
         new.step \in {"propose", "prevote", "precommit", "commit"}

\* The same for a state in which an input has been stored.
LEMMA ReactKeeps ==
    ASSUME NEW p \in Peers, NEW st \in PeerStates, NEW mid \in PeerStates,
           mid.step = st.step, NEW new, new = React(p, mid)
    PROVE  StepKept(st, new)
<1>1. /\ mid.step \notin {"propose", "prevote", "precommit"} => new = mid
      /\ mid.step \in {"propose", "prevote", "precommit"} =>
           new.step \in {"propose", "prevote", "precommit", "commit"}
  BY ReactSteps
<1>. QED
  BY <1>1 DEF StepKept

\* Every input but a token.
LEMMA InputSteps ==
    ASSUME NEW p \in Peers, NEW st \in PeerStates, NEW m \in Inputs,
           NEW new \in Outcomes(p, st, m), ~IsToken(m)
    PROVE  StepKept(st, new)
<1>0. /\ m.type \in {"Propose", "Proposal", "ProposedValue", "Vote"}
      /\ Carries(m) => m.value \in Values
      /\ m.type = "Vote" => m \in Votes
  BY InputFields DEF IsToken, Carries
<1>1. CASE new = st
  BY <1>1 DEF StepKept
<1>2. CASE m.type = "Propose" /\ new = React(p, StoreValue(StoreProposal(st, m.value), m.value))
  <2>1. PICK s1 \in PeerStates : s1 = StoreProposal(st, m.value) /\ s1.step = st.step
    BY <1>0, <1>2, StoreProposalFacts DEF Carries
  <2>2. PICK s2 \in PeerStates : s2 = StoreValue(s1, m.value) /\ s2.step = st.step
    BY <1>0, <1>2, <2>1, StoreValueFacts, SMT DEF Carries
  <2>. QED
    BY <1>2, <2>1, <2>2, ReactKeeps
<1>3. CASE m.type = "Proposal" /\ new = React(p, StoreProposal(st, m.value))
  <2>1. PICK s1 \in PeerStates : s1 = StoreProposal(st, m.value) /\ s1.step = st.step
    BY <1>0, <1>3, StoreProposalFacts DEF Carries
  <2>. QED
    BY <1>3, <2>1, ReactKeeps
<1>4. CASE m.type = "ProposedValue" /\ new = React(p, StoreValue(st, m.value))
  <2>1. PICK s1 \in PeerStates : s1 = StoreValue(st, m.value) /\ s1.step = st.step
    BY <1>0, <1>4, StoreValueFacts DEF Carries
  <2>. QED
    BY <1>4, <2>1, ReactKeeps
<1>5. CASE m.type = "Vote" /\ new = React(p, StoreVote(st, m))
  <2>1. PICK s1 \in PeerStates : s1 = StoreVote(st, m) /\ s1.step = st.step
    BY <1>0, <1>5, StoreVoteFacts
  <2>. QED
    BY <1>5, <2>1, ReactKeeps
<1>. QED
  BY <1>0, <1>1, <1>2, <1>3, <1>4, <1>5 DEF Outcomes

\* The elapsed commit timeout ends the height.
LEMMA CommitTimeout ==
    ASSUME NEW p \in Peers, NEW st \in PeerStates, NEW m \in Inputs,
           NEW new \in Outcomes(p, st, m),
           m.type = "TimeoutElapsed", m.kind = "Commit", st.step = "commit"
    PROVE  new.step = "decided"
<1>1. new = React(p, OnTimeout(p, st, m.kind))
  BY DEF Outcomes
<1>2. OnTimeout(p, st, m.kind) = ToStep(st, "decided")
  BY DEF OnTimeout
<1>3. PICK mid \in PeerStates : mid = ToStep(st, "decided") /\ mid.step = "decided"
  BY StepTaken, SMT DEF Steps
<1>. QED
  BY <1>1, <1>2, <1>3, ReactSteps, SMT

\* Where the effects of an input that matter here come from.
LEMMA EffectOrigins ==
    ASSUME NEW p, NEW st, NEW m, NEW new, NEW e \in EffectsOf(p, st, m, new)
    PROVE  /\ IsDecide(e) => /\ st.step = "commit" /\ new.step = "decided"
                             /\ e.height = st.height /\ e.id = ProposedId(st)
           /\ SendsToken(e) /\ ~IsDecide(e) => st.step # "commit" /\ new.step = "commit"
           /\ IsGetValue(e) => /\ m.type = "StartHeight" /\ p = 0
                               /\ e.height = m.height
           /\ e.effect = "Publish" /\ e.msg.type # "Vote" =>
                 m.type = "Propose" /\ e.msg.value = m.value /\ e.msg.height = m.height
<1>. USE DEF IsDecide, SendsToken, IsGetValue, When, ScheduleTimeout, GetValue, Publish,
             Decide, Proposal, Vote
<1>1. CASE e \in InputEffects(p, st, m)
  BY <1>1, SMT DEF InputEffects, SelectProposer
<1>2. CASE e \in VoteEffects(p, st, new)
  BY <1>2, SMT DEF VoteEffects
<1>3. CASE e \in DecisionEffects(st, new)
  BY <1>3, SMT DEF DecisionEffects
<1>. QED
  BY <1>1, <1>2, <1>3 DEF EffectsOf

\* The proposer that starts a height asks for a value; a peer that ends one decides.
LEMMA EffectsMade ==
    ASSUME NEW p, NEW st, NEW m, NEW new
    PROVE  /\ m.type = "StartHeight" /\ p = 0 =>
                \E e \in EffectsOf(p, st, m, new) : IsGetValue(e)
           /\ st.step = "commit" /\ new.step = "decided" =>
                \E e \in EffectsOf(p, st, m, new) : IsDecide(e)
<1>1. ASSUME m.type = "StartHeight", p = 0
      PROVE  GetValue(m.height) \in EffectsOf(p, st, m, new)
  BY <1>1 DEF EffectsOf, InputEffects, When, SelectProposer
<1>2. ASSUME st.step = "commit", new.step = "decided"
      PROVE  Decide(st.height, ProposedId(st)) \in EffectsOf(p, st, m, new)
  BY <1>2 DEF EffectsOf, DecisionEffects, When
<1>. QED
  BY <1>1, <1>2 DEF IsGetValue, IsDecide, GetValue, Decide

-----------------------------------------------------------------------------
(* The clock of a peer. *)

Stage(step) ==
    CASE step = "unstarted" -> 0
      [] step = "propose" -> 1
      [] step = "prevote" -> 2
      [] step = "precommit" -> 3
      [] step = "commit" -> 4
      [] OTHER -> 5

\* The end of one height and the beginning of the next are the same time.
Clock(st) == 5 * st.height + Stage(st.step)

VoteStage(k) == IF k = "Prevote" THEN 2 ELSE 3

VotesOf(st, k) == IF k = "Prevote" THEN st.prevotes ELSE st.precommits

\* When message m is due at a peer in state st.
DueAt(m, st) ==
    IF IsToken(m) THEN Clock(st)
    ELSE 5 * m.height + (IF m.type = "Vote" THEN VoteStage(m.kind) ELSE 1)

\* The votes that may overtake the proposal.
Overtakes(m) == m.type = "Vote" /\ m.kind = "Prevote" /\ m.voter = 0

-----------------------------------------------------------------------------
(* The state of one peer: the rules have been applied to all that it has. *)

\* What holds of peer p also between storing an input and applying the rules.
Consistent(p, st) ==
    /\ st.step # "newround"
    /\ st.step = "unstarted" => st.height = 0
    /\ \A v \in st.proposal : v.id = st.height
    /\ \A q \in Peers : /\ st.prevotes[q] \in {NoVote, st.height}
                        /\ st.precommits[q] \in {NoVote, st.height}
    /\ st.step = "propose" => st.prevotes[p] = NoVote
    /\ st.step \in {"prevote", "precommit"} => Full(st) /\ st.prevotes[p] = st.height
    /\ st.step \in {"propose", "prevote"} => st.precommits[p] = NoVote
    /\ st.step = "precommit" => st.precommits[p] = st.height

Settled(p, st) ==
    /\ Consistent(p, st)
    /\ st.step = "propose" => ~Full(st)
    /\ st.step = "prevote" => ~QuorumFor(st.prevotes, st.height)
    /\ st.step = "precommit" => ~QuorumFor(st.precommits, st.height)

\* A peer that has not voted in a step has hardly heard a vote of that step.
Unheard(p, st) ==
    /\ st.step = "propose" => \A q \in Peers \ {p, 0} : st.prevotes[q] = NoVote
    /\ st.step \in {"propose", "prevote"} =>
         \A q \in Peers \ {p} : st.precommits[q] = NoVote

\* The clock is a number from which the height and the step can be read.
LEMMA ClockReads ==
    ASSUME NEW st \in PeerStates, st.step # "newround",
           st.step = "unstarted" => st.height = 0, NEW h \in Nat
    PROVE  /\ Clock(st) \in Nat
           /\ Clock(st) = 5 * h + 1 <=> st.step = "propose" /\ st.height = h
           /\ Clock(st) = 5 * h + 2 <=> st.step = "prevote" /\ st.height = h
           /\ Clock(st) = 5 * h + 3 <=> st.step = "precommit" /\ st.height = h
           /\ Clock(st) = 5 * h + 4 <=> st.step = "commit" /\ st.height = h
           /\ Clock(st) = 5 * h <=> \/ st.step = "unstarted" /\ h = 0
                                    \/ st.step = "decided" /\ h = st.height + 1
           /\ Clock(st) >= 5 * h + 1 => st.step # "unstarted" /\ h <= st.height
<1>1. st.height \in Nat /\ st.step \in Steps
  BY DEF PeerStates
<1>2. /\ Stage("unstarted") = 0 /\ Stage("propose") = 1 /\ Stage("prevote") = 2
      /\ Stage("precommit") = 3 /\ Stage("commit") = 4 /\ Stage("decided") = 5
  BY DEF Stage
<1>3. \/ st.step = "unstarted" /\ Clock(st) = 0
      \/ st.step = "propose" /\ Clock(st) = 5 * st.height + 1
      \/ st.step = "prevote" /\ Clock(st) = 5 * st.height + 2
      \/ st.step = "precommit" /\ Clock(st) = 5 * st.height + 3
      \/ st.step = "commit" /\ Clock(st) = 5 * st.height + 4
      \/ st.step = "decided" /\ Clock(st) = 5 * st.height + 5
  BY <1>1, <1>2, SMT DEF Steps, Clock
<1>4. PICK g \in Nat : g = st.height
  BY <1>1
<1>5. PICK c \in Nat : c = Clock(st)
  BY <1>1, <1>3, SMT
<1>6. CASE st.step = "unstarted"
  BY <1>3, <1>4, <1>5, <1>6, SMT
<1>7. CASE st.step = "propose"
  BY <1>3, <1>4, <1>5, <1>7, SMT
<1>8. CASE st.step = "prevote"
  BY <1>3, <1>4, <1>5, <1>8, SMT
<1>9. CASE st.step = "precommit"
  BY <1>3, <1>4, <1>5, <1>9, SMT
<1>10. CASE st.step = "commit"
  BY <1>3, <1>4, <1>5, <1>10, SMT
<1>11. CASE st.step = "decided"
  BY <1>3, <1>4, <1>5, <1>11, SMT
<1>. QED
  BY <1>3, <1>6, <1>7, <1>8, <1>9, <1>10, <1>11

\* Two peers are no quorum.
LEMMA TwoAreNoQuorum ==
    ASSUME NEW votes, NEW id, NEW p \in Peers, NEW q \in Peers,
           \A r \in Peers \ {p, q} : votes[r] # id
    PROVE  ~QuorumFor(votes, id)
<1> DEFINE S == {r \in Peers : votes[r] = id}
<1>1. S \in SUBSET {p, q}
  OBVIOUS
<1>2. Cardinality(S) \in 0..2
  <2>. HIDE DEF S
  <2>. QED
    BY <1>1, SmallSets
<1>3. N >= 4 /\ N \in Nat
  BY NAssumption, SMT
<1>4. ~(3 * Cardinality(S) > 2 * N)
  BY <1>2, <1>3, SMT
<1>. QED
  BY <1>4 DEF QuorumFor, Quorum

\* A consistent peer names its height by the proposal, and nobody has voted nil.
LEMMA ConsistentIds ==
    ASSUME NEW p \in Peers, NEW st \in PeerStates, Consistent(p, st)
    PROVE  /\ st.proposal # {} => ProposedId(st) = st.height
           /\ ~QuorumFor(st.prevotes, Nil)
           /\ st.height \in Nat /\ st.height # NoVote
<1>1. st.height \in Nat
  BY DEF PeerStates
<1>2. st.proposal # {} => ProposedId(st) = st.height
  <2> SUFFICES ASSUME st.proposal # {} PROVE ProposedId(st) = st.height
    OBVIOUS
  <2>1. (CHOOSE v \in st.proposal : TRUE) \in st.proposal
    OBVIOUS
  <2>. QED
    BY <2>1 DEF Consistent, ProposedId
<1>3. st.height # NoVote /\ st.height # Nil /\ NoVote # Nil
  BY <1>1, SMT DEF NoVote, Nil
<1>4. \A r \in Peers \ {p, p} : st.prevotes[r] # Nil
  BY <1>3 DEF Consistent
<1>. QED
  BY <1>1, <1>2, <1>3, <1>4, TwoAreNoQuorum

\* What the rules do to peer p: at most one step, with the vote that goes with it.
OneStep(p, mid, new) ==
    \/ new = mid
    \/ /\ mid.step = "propose" /\ Full(mid)
       /\ new.step = "prevote"
       /\ new.prevotes = [mid.prevotes EXCEPT ![p] = mid.height]
       /\ new.precommits = mid.precommits
    \/ /\ mid.step = "prevote" /\ QuorumFor(mid.prevotes, mid.height)
       /\ new.step = "precommit"
       /\ new.precommits = [mid.precommits EXCEPT ![p] = mid.height]
       /\ new.prevotes = mid.prevotes
    \/ /\ mid.step = "precommit" /\ QuorumFor(mid.precommits, mid.height)
       /\ new.step = "commit"
       /\ new.precommits = mid.precommits /\ new.prevotes = mid.prevotes

\* Applied to a peer that has hardly heard of the next step, the rules take one step
\* at most and leave nothing to do.
LEMMA ReactSettles ==
    ASSUME NEW p \in Peers, NEW mid \in PeerStates, Consistent(p, mid), Unheard(p, mid),
           NEW new, new = React(p, mid)
    PROVE  /\ new \in PeerStates /\ Settled(p, new)
           /\ new.height = mid.height /\ new.proposal = mid.proposal
           /\ new.values = mid.values
           /\ OneStep(p, mid, new)
<1>1. /\ new \in PeerStates /\ new.height = mid.height
      /\ new.proposal = mid.proposal /\ new.values = mid.values
      /\ mid.step \notin {"propose", "prevote", "precommit"} => new = mid
  BY ReactFacts, SMT
<1>2. /\ mid.proposal # {} => ProposedId(mid) = mid.height
      /\ ~QuorumFor(mid.prevotes, Nil)
      /\ mid.height \in Nat /\ mid.height # NoVote /\ mid.height \in Int
  BY ConsistentIds, SMT
<1>3. PICK a : a = PrevoteRule(p, mid)
  OBVIOUS
<1>4. PICK b : b = PrecommitRule(p, a)
  OBVIOUS
<1>5. new = CommitRule(b)
  BY <1>3, <1>4 DEF React
<1>6. 0 \in Peers
  BY NAssumption, SMT DEF Peers
<1>7. mid.prevotes \in [Peers -> Int] /\ mid.precommits \in [Peers -> Int]
  BY DEF PeerStates
<1>8. CASE mid.step \notin {"propose", "prevote", "precommit"}
  BY <1>1, <1>8 DEF Settled, OneStep
<1>9. CASE mid.step = "propose" /\ ~Full(mid)
  <2>1. new = mid
    BY <1>3, <1>4, <1>5, <1>9 DEF PrevoteRule, PrecommitRule, CommitRule
  <2>. QED
    BY <1>1, <1>9, <2>1 DEF Settled, OneStep
<1>10. CASE mid.step = "propose" /\ Full(mid)
  <2>1. mid.proposal # {} /\ a = CastPrevote(p, mid, mid.height)
    BY <1>2, <1>3, <1>10 DEF PrevoteRule, Full
  <2>2. /\ a \in PeerStates /\ a.height = mid.height /\ a.step = "prevote"
        /\ a.proposal = mid.proposal /\ a.values = mid.values
        /\ a.prevotes = [mid.prevotes EXCEPT ![p] = mid.height]
        /\ a.precommits = mid.precommits
    BY <1>2, <2>1, PrevoteCast, SMT
  <2>3. /\ a.prevotes[p] = mid.height
        /\ \A q \in Peers \ {p} : a.prevotes[q] = mid.prevotes[q]
    BY <1>7, <2>2
  <2>4. Consistent(p, a)
    <3>1. Full(a)
      BY <1>10, <2>2 DEF Full
    <3>2. \A q \in Peers : a.prevotes[q] \in {NoVote, a.height}
      BY <2>2, <2>3 DEF Consistent
    <3>. QED
      BY <1>10, <2>2, <2>3, <3>1, <3>2 DEF Consistent
  <2>5. ~QuorumFor(a.prevotes, a.height)
    <3>1. \A r \in Peers \ {p, 0} : a.prevotes[r] # a.height
      BY <1>2, <1>10, <2>2, <2>3 DEF Unheard
    <3>. QED
      BY <1>6, <3>1, TwoAreNoQuorum
  <2>6. ~QuorumFor(a.precommits, a.height)
    <3>1. \A r \in Peers \ {p, p} : a.precommits[r] # a.height
      BY <1>2, <1>10, <2>2 DEF Unheard
    <3>. QED
      BY <3>1, TwoAreNoQuorum
  <2>7. ProposedId(a) = a.height /\ ~QuorumFor(a.prevotes, Nil)
    BY <2>1, <2>2, <2>4, ConsistentIds
  <2>8. b = a
    BY <1>4, <2>5, <2>7 DEF PrecommitRule
  <2>9. new = a
    BY <1>5, <2>6, <2>7, <2>8 DEF CommitRule
  <2>10. Settled(p, a)
    BY <2>2, <2>4, <2>5 DEF Settled
  <2>. QED
    BY <1>1, <1>10, <2>2, <2>9, <2>10 DEF OneStep
<1>11. CASE mid.step = "prevote" /\ QuorumFor(mid.prevotes, mid.height)
  <2>1. a = mid /\ Full(mid) /\ mid.proposal # {}
    BY <1>3, <1>11 DEF PrevoteRule, Consistent, Full
  <2>2. b = CastPrecommit(p, mid, mid.height)
    BY <1>2, <1>4, <1>11, <2>1 DEF PrecommitRule
  <2>3. /\ b \in PeerStates /\ b.height = mid.height /\ b.step = "precommit"
        /\ b.proposal = mid.proposal /\ b.values = mid.values
        /\ b.prevotes = mid.prevotes
        /\ b.precommits = [mid.precommits EXCEPT ![p] = mid.height]
    BY <1>2, <2>2, PrecommitCast, SMT
  <2>4. /\ b.precommits[p] = mid.height
        /\ \A q \in Peers \ {p} : b.precommits[q] = mid.precommits[q]
    BY <1>7, <2>3
  <2>5. Consistent(p, b)
    <3>1. Full(b)
      BY <2>1, <2>3 DEF Full
    <3>2. \A q \in Peers : b.precommits[q] \in {NoVote, b.height}
      BY <2>3, <2>4 DEF Consistent
    <3>. QED
      BY <1>11, <2>3, <2>4, <3>1, <3>2 DEF Consistent
  <2>6. ~QuorumFor(b.precommits, b.height)
    <3>1. \A r \in Peers \ {p, p} : b.precommits[r] # b.height
      BY <1>2, <1>11, <2>3, <2>4, SMT DEF Unheard
    <3>. QED
      BY <3>1, TwoAreNoQuorum
  <2>7. ProposedId(b) = b.height
    BY <2>1, <2>3, <2>5, ConsistentIds
  <2>8. new = b
    BY <1>5, <2>6, <2>7 DEF CommitRule
  <2>. QED
    BY <1>1, <1>11, <2>3, <2>5, <2>6, <2>8 DEF OneStep, Settled
<1>12. CASE mid.step = "prevote" /\ ~QuorumFor(mid.prevotes, mid.height)
  <2>1. a = mid /\ Full(mid) /\ mid.proposal # {}
    BY <1>3, <1>12 DEF PrevoteRule, Consistent, Full
  <2>2. b = mid
    BY <1>2, <1>4, <1>12, <2>1 DEF PrecommitRule
  <2>3. ~QuorumFor(mid.precommits, mid.height)
    <3>1. \A r \in Peers \ {p, p} : mid.precommits[r] # mid.height
      BY <1>2, <1>12 DEF Unheard
    <3>. QED
      BY <3>1, TwoAreNoQuorum
  <2>4. new = mid
    BY <1>2, <1>5, <2>1, <2>2, <2>3 DEF CommitRule
  <2>. QED
    BY <1>1, <1>12, <2>4 DEF OneStep, Settled
<1>13. CASE mid.step = "precommit"
  <2>1. a = mid /\ b = mid /\ Full(mid) /\ mid.proposal # {}
    BY <1>3, <1>4, <1>13 DEF PrevoteRule, PrecommitRule, Consistent, Full
  <2>2. CASE ~QuorumFor(mid.precommits, mid.height)
    <3>1. new = mid
      BY <1>2, <1>5, <2>1, <2>2 DEF CommitRule
    <3>. QED
      BY <1>1, <1>13, <2>2, <3>1 DEF OneStep, Settled
  <2>3. CASE QuorumFor(mid.precommits, mid.height)
    <3>1. new = ToStep(mid, "commit")
      BY <1>2, <1>5, <1>13, <2>1, <2>3 DEF CommitRule
    <3>2. new.step = "commit" /\ new.prevotes = mid.prevotes /\ new.precommits = mid.precommits
      BY <3>1, StepTaken, SMT DEF Steps
    <3>3. Consistent(p, new)
      BY <1>1, <3>2 DEF Consistent
    <3>. QED
      BY <1>1, <1>13, <2>3, <3>2, <3>3 DEF OneStep, Settled
  <2>. QED
    BY <2>2, <2>3
<1>. QED
  BY <1>8, <1>9, <1>10, <1>11, <1>12, <1>13

-----------------------------------------------------------------------------
(* One input: what message m finds at peer p in state st, and what it does. *)

Finds(p, st, m) ==
    /\ m.type = "StartHeight" => Clock(st) = 5 * m.height
    /\ m.type = "TimeoutElapsed" => m.kind = "Commit" /\ st.step = "commit"
    /\ m.type = "Propose" => m.height = st.height /\ st.step = "propose"
    /\ Carries(m) => m.value.id = m.height
    /\ m.type = "Vote" => /\ m.id = m.height /\ m.voter # p
                          /\ Overtakes(m) \/ DueAt(m, st) <= Clock(st)

\* The clock moves on by one, if at all, and only when the message is due or the
\* vote that was early completes a quorum with that of a third peer.
Advances(p, st, m, new) ==
    /\ Clock(new) = Clock(st) + 1
    /\ IF Overtakes(m)
       THEN /\ st.step = "prevote"
            /\ \E q \in Peers \ {p, 0} : st.prevotes[q] # NoVote
       ELSE DueAt(m, st) = Clock(st)
    /\ ~IsToken(m) => st.step \in {"propose", "prevote", "precommit"}
    /\ st.step = "propose" => Carries(m) /\ m.height = st.height

Progress(p, st, m, new) ==
    \/ Clock(new) = Clock(st) /\ new.step = st.step /\ ~IsToken(m)
    \/ Advances(p, st, m, new)

\* What the peer has of others only grows, by what the message brings.
Records(p, st, m, new) ==
    /\ new.height = st.height
    /\ \A k \in VoteKinds, q \in Peers \ {p} :
          \/ VotesOf(new, k)[q] = VotesOf(st, k)[q]
          \/ /\ m.type = "Vote" /\ m.kind = k /\ m.voter = q /\ m.height = st.height
             /\ VotesOf(new, k)[q] = st.height
    /\ m.type = "Vote" /\ Current(st, m) => VotesOf(new, m.kind)[m.voter] = st.height
    /\ \/ new.proposal = st.proposal
       \/ /\ st.proposal = {} /\ new.proposal = {m.value}
          /\ m.type \in {"Propose", "Proposal"} /\ m.height = st.height
    /\ m.type = "Proposal" /\ Current(st, m) => new.proposal # {}
    /\ st.values \subseteq new.values
    /\ m.type = "ProposedValue" /\ Current(st, m) => m.value \in new.values

\* The peer's own votes are cast as it takes the step.
Casts(p, st, new) ==
    /\ new.prevotes[p] # st.prevotes[p] => st.step = "propose" /\ new.step = "prevote"
    /\ new.precommits[p] # st.precommits[p] =>
         st.step = "prevote" /\ new.step = "precommit"
    /\ new.step # st.step =>
         \/ st.step = "propose" /\ new.step = "prevote"
         \/ st.step = "prevote" /\ new.step = "precommit"
         \/ st.step = "precommit" /\ new.step = "commit"
         \/ st.step = "commit" /\ new.step = "decided"

\* Taking a step moves the clock on by one.
LEMMA ClockMoves ==
    ASSUME NEW st \in PeerStates, NEW new \in PeerStates, new.height = st.height
    PROVE  /\ new.step = st.step => Clock(new) = Clock(st)
           /\ \/ st.step = "propose" /\ new.step = "prevote"
              \/ st.step = "prevote" /\ new.step = "precommit"
              \/ st.step = "precommit" /\ new.step = "commit"
              \/ st.step = "commit" /\ new.step = "decided"
              => Clock(new) = Clock(st) + 1
<1>1. st.height \in Nat
  BY DEF PeerStates
<1>2. /\ Stage("propose") = 1 /\ Stage("prevote") = 2 /\ Stage("precommit") = 3
      /\ Stage("commit") = 4 /\ Stage("decided") = 5
  BY DEF Stage
<1>3. /\ new.step = st.step => Clock(new) = Clock(st)
  BY DEF Clock
<1>4. PICK h \in Nat : h = st.height /\ h = new.height
  BY <1>1
<1>5. /\ st.step = "propose" => Clock(st) = 5 * h + 1
      /\ st.step = "prevote" => Clock(st) = 5 * h + 2
      /\ st.step = "precommit" => Clock(st) = 5 * h + 3
      /\ st.step = "commit" => Clock(st) = 5 * h + 4
      /\ new.step = "prevote" => Clock(new) = 5 * h + 2
      /\ new.step = "precommit" => Clock(new) = 5 * h + 3
      /\ new.step = "commit" => Clock(new) = 5 * h + 4
      /\ new.step = "decided" => Clock(new) = 5 * h + 5
  BY <1>2, <1>4 DEF Clock
<1>. QED
  BY <1>3, <1>5, SMT

\* An input that is stored and to which the rules are then applied.
LEMMA StoredInput ==
    ASSUME NEW p \in Peers, NEW st \in PeerStates, Settled(p, st), NEW m \in Inputs,
           ~IsToken(m), Current(st, m), Finds(p, st, m),
           NEW mid \in PeerStates, mid.step = st.step, mid.height = st.height,
           Consistent(p, mid), Unheard(p, mid),
           mid.prevotes[p] = st.prevotes[p], mid.precommits[p] = st.precommits[p],
           m.type = "Vote" \/ (mid.prevotes = st.prevotes /\ mid.precommits = st.precommits),
           m.type = "Vote" => /\ m.kind = "Prevote" => mid.precommits = st.precommits
                              /\ m.kind = "Precommit" => mid.prevotes = st.prevotes
                              /\ \A q \in Peers \ {m.voter} : mid.prevotes[q] = st.prevotes[q],
           Carries(m) \/ (mid.proposal = st.proposal /\ mid.values = st.values),
           NEW new, new = React(p, mid)
    PROVE  /\ Settled(p, new) /\ Progress(p, st, m, new) /\ Casts(p, st, new)
           /\ new \in PeerStates /\ new.height = st.height
           /\ new.proposal = mid.proposal /\ new.values = mid.values
           /\ \A q \in Peers \ {p} : /\ new.prevotes[q] = mid.prevotes[q]
                                     /\ new.precommits[q] = mid.precommits[q]
<1>1. /\ new \in PeerStates /\ Settled(p, new) /\ new.height = st.height
      /\ new.proposal = mid.proposal /\ new.values = mid.values
      /\ OneStep(p, mid, new)
  BY ReactSettles
<1>2. /\ mid.prevotes \in [Peers -> Int] /\ mid.precommits \in [Peers -> Int]
      /\ st.height \in Nat /\ m.height = st.height
  BY DEF PeerStates, Current
<1>3. PICK h \in Nat : h = st.height /\ h = m.height /\ h = mid.height
  BY <1>2
<1>4. /\ st.step = "propose" => Clock(st) = 5 * h + 1
      /\ st.step = "prevote" => Clock(st) = 5 * h + 2
      /\ st.step = "precommit" => Clock(st) = 5 * h + 3
  BY <1>3, ClockReads DEF Settled, Consistent
<1>5. CASE new = mid
  <2>1. Clock(new) = Clock(st)
    BY <1>1, <1>5, ClockMoves
  <2>. QED
    BY <1>1, <1>5, <2>1 DEF Progress, Casts
<1>6. CASE /\ mid.step = "propose" /\ Full(mid)
           /\ new.step = "prevote"
           /\ new.prevotes = [mid.prevotes EXCEPT ![p] = mid.height]
           /\ new.precommits = mid.precommits
  <2>1. Clock(new) = Clock(st) + 1
    <3>1. st.step = "propose" /\ new.step = "prevote" /\ new.height = st.height
      BY <1>1, <1>6
    <3>. QED
      BY <1>1, <3>1, ClockMoves
  <2>2. Carries(m) /\ ~Overtakes(m)
    <3>1. ~Full(st)
      BY <1>6 DEF Settled
    <3>2. Carries(m)
      BY <1>6, <3>1 DEF Full
    <3>. QED
      BY <3>2 DEF Carries, Overtakes
  <2>3. DueAt(m, st) = 5 * h + 1
    BY <1>3, <2>2 DEF DueAt, Carries, IsToken
  <2>4. Advances(p, st, m, new)
    BY <1>3, <1>4, <1>6, <2>1, <2>2, <2>3 DEF Advances
  <2>5. \A q \in Peers \ {p} : new.prevotes[q] = mid.prevotes[q]
    BY <1>2, <1>6
  <2>. QED
    BY <1>1, <1>6, <2>4, <2>5 DEF Progress, Casts
<1>7. CASE /\ mid.step = "prevote" /\ QuorumFor(mid.prevotes, mid.height)
           /\ new.step = "precommit"
           /\ new.precommits = [mid.precommits EXCEPT ![p] = mid.height]
           /\ new.prevotes = mid.prevotes
  <2>1. Clock(new) = Clock(st) + 1
    BY <1>1, <1>7, ClockMoves
  <2>2. ~QuorumFor(st.prevotes, st.height)
    BY <1>7 DEF Settled
  <2>3. m.type = "Vote" /\ m.kind = "Prevote"
    <3>1. mid.prevotes # st.prevotes
      BY <1>7, <2>2
    <3>2. m.type = "Vote"
      BY <3>1
    <3>. QED
      BY <3>1, <3>2, InputFields DEF VoteKinds
  <2>4. DueAt(m, st) = 5 * h + 2
    BY <1>3, <2>3 DEF DueAt, IsToken, VoteStage
  <2>5. Overtakes(m) => \E q \in Peers \ {p, 0} : st.prevotes[q] # NoVote
    <3> SUFFICES ASSUME m.voter = 0, \A q \in Peers \ {p, 0} : st.prevotes[q] = NoVote
                 PROVE  FALSE
      BY DEF Overtakes
    <3>1. 0 \in Peers /\ h # NoVote
      BY NAssumption, SMT DEF Peers, NoVote
    <3>2. \A q \in Peers \ {p, 0} : mid.prevotes[q] # h
      BY <2>3, <3>1
    <3>3. ~QuorumFor(mid.prevotes, h)
      BY <3>1, <3>2, TwoAreNoQuorum
    <3>. QED
      BY <1>3, <1>7, <3>3
  <2>6. Advances(p, st, m, new)
    BY <1>4, <1>7, <2>1, <2>3, <2>4, <2>5 DEF Advances
  <2>7. \A q \in Peers \ {p} : new.precommits[q] = mid.precommits[q]
    BY <1>2, <1>7
  <2>. QED
    BY <1>1, <1>7, <2>6, <2>7 DEF Progress, Casts
<1>8. CASE /\ mid.step = "precommit" /\ QuorumFor(mid.precommits, mid.height)
           /\ new.step = "commit"
           /\ new.precommits = mid.precommits /\ new.prevotes = mid.prevotes
  <2>1. Clock(new) = Clock(st) + 1
    BY <1>1, <1>8, ClockMoves
  <2>2. ~QuorumFor(st.precommits, st.height)
    BY <1>8 DEF Settled
  <2>3. m.type = "Vote" /\ m.kind = "Precommit"
    <3>1. mid.precommits # st.precommits
      BY <1>8, <2>2
    <3>2. m.type = "Vote"
      BY <3>1
    <3>. QED
      BY <3>1, <3>2, InputFields DEF VoteKinds
  <2>4. DueAt(m, st) = 5 * h + 3 /\ ~Overtakes(m)
    BY <1>3, <2>3 DEF DueAt, IsToken, VoteStage, Overtakes
  <2>5. Advances(p, st, m, new)
    BY <1>4, <1>8, <2>1, <2>4 DEF Advances
  <2>. QED
    BY <1>1, <1>8, <2>5 DEF Progress, Casts
<1>. QED
  BY <1>1, <1>5, <1>6, <1>7, <1>8 DEF OneStep

\* A message of another height, or one that is left alone, changes nothing.
LEMMA InputIgnored ==
    ASSUME NEW p \in Peers, NEW st \in PeerStates, NEW m \in Inputs, ~IsToken(m),
           Current(st, m) => m.type = "Propose"
    PROVE  Progress(p, st, m, st) /\ Records(p, st, m, st) /\ Casts(p, st, st)
<1>1. Progress(p, st, m, st) /\ Casts(p, st, st)
  BY DEF Progress, Casts
<1>2. Records(p, st, m, st)
  BY DEF Records
<1>. QED
  BY <1>1, <1>2

\* The proposal, the value, or both are stored.
LEMMA ValueStored ==
    ASSUME NEW p \in Peers, NEW st \in PeerStates, Settled(p, st), Unheard(p, st),
           NEW m \in Inputs, Carries(m), Current(st, m), Finds(p, st, m),
           NEW mid, \/ /\ m.type = "Propose"
                       /\ mid = StoreValue(StoreProposal(st, m.value), m.value)
                    \/ m.type = "Proposal" /\ mid = StoreProposal(st, m.value)
                    \/ m.type = "ProposedValue" /\ mid = StoreValue(st, m.value),
           NEW new, new = React(p, mid)
    PROVE  /\ new \in PeerStates /\ Settled(p, new) /\ Progress(p, st, m, new)
           /\ Records(p, st, m, new) /\ Casts(p, st, new)
<1>1. m.value \in Values /\ m.value.id = st.height /\ ~IsToken(m) /\ m.type # "Vote"
      /\ m.height = st.height
  BY InputFields DEF Carries, Finds, Current, IsToken
<1>2. PICK v \in Values : v = m.value
  BY <1>1
<1>3. st \in [height : Nat, step : Steps, proposal : SUBSET Values, values : SUBSET Values,
              prevotes : [Peers -> Int], precommits : [Peers -> Int]]
  BY DEF PeerStates
<1>4. PICK half : half = StoreProposal(st, v)
  OBVIOUS
<1>5. /\ half \in PeerStates /\ half.height = st.height /\ half.step = st.step
      /\ half.prevotes = st.prevotes /\ half.precommits = st.precommits
      /\ half.proposal = IF st.proposal = {} THEN {v} ELSE st.proposal
      /\ half.values = st.values
  <2>1. half.values = st.values
    BY <1>3, <1>4 DEF StoreProposal
  <2>. QED
    BY <1>4, <2>1, StoreProposalFacts
<1>6. ASSUME NEW from \in PeerStates, NEW to, to = StoreValue(from, v)
      PROVE  /\ to \in PeerStates /\ to.height = from.height /\ to.step = from.step
             /\ to.prevotes = from.prevotes /\ to.precommits = from.precommits
             /\ to.proposal = from.proposal /\ to.values = from.values \cup {v}
  <2>1. to.values = from.values \cup {v}
    BY <1>6 DEF StoreValue, PeerStates
  <2>. QED
    BY <1>6, <2>1, StoreValueFacts, SMT
<1>7. /\ mid \in PeerStates /\ mid.height = st.height /\ mid.step = st.step
      /\ mid.prevotes = st.prevotes /\ mid.precommits = st.precommits
      /\ \/ mid.proposal = st.proposal
         \/ /\ st.proposal = {} /\ mid.proposal = {v}
            /\ m.type \in {"Propose", "Proposal"}
      /\ m.type = "Proposal" => mid.proposal # {}
      /\ st.values \subseteq mid.values
      /\ m.type = "ProposedValue" => v \in mid.values
  <2>1. CASE m.type = "Propose"
    <3>1. mid = StoreValue(half, v)
      BY <1>2, <1>4, <2>1
    <3>. QED
      BY <1>5, <1>6, <2>1, <3>1
  <2>2. CASE m.type = "Proposal"
    <3>1. mid = half
      BY <1>2, <1>4, <2>2
    <3>. QED
      BY <1>5, <2>2, <3>1
  <2>3. CASE m.type = "ProposedValue"
    <3>1. mid = StoreValue(st, v)
      BY <1>2, <2>3
    <3>. QED
      BY <1>6, <2>3, <3>1
  <2>. QED
    BY <2>1, <2>2, <2>3
<1>8. Full(st) => Full(mid)
  BY <1>7 DEF Full
<1>9. Consistent(p, mid)
  <2>1. \A w \in mid.proposal : w.id = mid.height
    BY <1>1, <1>2, <1>7 DEF Settled, Consistent
  <2>. QED
    BY <1>7, <1>8, <2>1 DEF Settled, Consistent
<1>10. Unheard(p, mid)
  BY <1>7 DEF Unheard
<1>11. /\ Settled(p, new) /\ Progress(p, st, m, new) /\ Casts(p, st, new)
       /\ new \in PeerStates /\ new.height = st.height
       /\ new.proposal = mid.proposal /\ new.values = mid.values
       /\ \A q \in Peers \ {p} : /\ new.prevotes[q] = mid.prevotes[q]
                                 /\ new.precommits[q] = mid.precommits[q]
  BY <1>1, <1>7, <1>9, <1>10, StoredInput, SMT
<1>12. Records(p, st, m, new)
  BY <1>1, <1>2, <1>7, <1>11 DEF Records, VotesOf
<1>. QED
  BY <1>11, <1>12

\* A vote is stored.
LEMMA VoteStored ==
    ASSUME NEW p \in Peers, NEW st \in PeerStates, Settled(p, st), Unheard(p, st),
           NEW m \in Inputs, m.type = "Vote", Current(st, m), Finds(p, st, m),
           NEW new, new = React(p, StoreVote(st, m))
    PROVE  /\ new \in PeerStates /\ Settled(p, new) /\ Progress(p, st, m, new)
           /\ Records(p, st, m, new) /\ Casts(p, st, new)
<1>1. /\ m \in Votes /\ m.kind \in VoteKinds /\ m.id = st.height /\ m.voter \in Peers
      /\ m.voter # p /\ ~IsToken(m) /\ m.height = st.height /\ ~Carries(m)
      /\ st.height \in Nat
  BY InputFields DEF Finds, Current, IsToken, Carries, PeerStates
<1>2. PICK mid : mid = StoreVote(st, m)
  OBVIOUS
<1>3. PICK q \in Peers : q = m.voter
  BY <1>1
<1>4. PICK h \in Nat : h = st.height
  BY <1>1
<1>5. st \in [height : Nat, step : Steps, proposal : SUBSET Values, values : SUBSET Values,
              prevotes : [Peers -> Int], precommits : [Peers -> Int]]
  BY DEF PeerStates
<1>6. /\ mid \in PeerStates /\ mid.height = st.height /\ mid.step = st.step
      /\ mid.proposal = st.proposal
  BY <1>1, <1>2, StoreVoteFacts, SMT
<1>7. mid.values = st.values
  BY <1>2, <1>5 DEF StoreVote
<1>8. /\ m.kind = "Prevote" =>
           /\ mid.precommits = st.precommits /\ mid.prevotes[q] = h
           /\ \A r \in Peers \ {q} : mid.prevotes[r] = st.prevotes[r]
      /\ m.kind # "Prevote" =>
           /\ mid.prevotes = st.prevotes /\ mid.precommits[q] = h
           /\ \A r \in Peers \ {q} : mid.precommits[r] = st.precommits[r]
  <2>1. st.prevotes[q] \in {NoVote, h} /\ st.precommits[q] \in {NoVote, h}
    BY <1>4 DEF Settled, Consistent
  <2>2. CASE m.kind = "Prevote"
    <3>1. /\ mid.precommits = st.precommits
          /\ \/ st.prevotes[q] = h /\ mid.prevotes = st.prevotes
             \/ mid.prevotes = [st.prevotes EXCEPT ![q] = h]
      BY <1>1, <1>2, <1>3, <1>4, <1>5, <2>1, <2>2 DEF StoreVote
    <3>. QED
      BY <1>5, <2>2, <3>1
  <2>3. CASE m.kind # "Prevote"
    <3>1. /\ mid.prevotes = st.prevotes
          /\ \/ st.precommits[q] = h /\ mid.precommits = st.precommits
             \/ mid.precommits = [st.precommits EXCEPT ![q] = h]
      BY <1>1, <1>2, <1>3, <1>4, <1>5, <2>1, <2>3 DEF StoreVote
    <3>. QED
      BY <1>5, <2>3, <3>1
  <2>. QED
    BY <2>2, <2>3
<1>9. Consistent(p, mid)
  <2>1. \A r \in Peers : /\ mid.prevotes[r] \in {NoVote, mid.height}
                         /\ mid.precommits[r] \in {NoVote, mid.height}
    BY <1>4, <1>6, <1>8 DEF Settled, Consistent
  <2>2. mid.prevotes[p] = st.prevotes[p] /\ mid.precommits[p] = st.precommits[p]
    BY <1>1, <1>3, <1>8
  <2>3. Full(st) => Full(mid)
    BY <1>6, <1>7 DEF Full
  <2>. QED
    BY <1>6, <2>1, <2>2, <2>3 DEF Settled, Consistent
<1>10. Unheard(p, mid)
  <2>1. /\ st.step = "propose" => Clock(st) = 5 * h + 1
        /\ st.step = "prevote" => Clock(st) = 5 * h + 2
    BY <1>4, ClockReads DEF Settled, Consistent
  <2>2. CASE m.kind = "Prevote"
    <3>1. st.step = "propose" => q = 0
      <4>1. DueAt(m, st) = 5 * h + 2
        BY <1>1, <1>4, <2>2 DEF DueAt, VoteStage
      <4>. QED
        BY <1>3, <2>1, <4>1, SMT DEF Finds, Overtakes
    <3>. QED
      BY <1>6, <1>8, <2>2, <3>1 DEF Unheard
  <2>3. CASE m.kind # "Prevote"
    <3>1. st.step \notin {"propose", "prevote"}
      <4>1. DueAt(m, st) = 5 * h + 3
        BY <1>1, <1>4, <2>3 DEF DueAt, VoteStage
      <4>. QED
        BY <2>1, <2>3, <4>1, SMT DEF Finds, Overtakes
    <3>. QED
      BY <1>6, <3>1 DEF Unheard
  <2>. QED
    BY <2>2, <2>3
<1>11. /\ Settled(p, new) /\ Progress(p, st, m, new) /\ Casts(p, st, new)
       /\ new \in PeerStates /\ new.height = st.height
       /\ new.proposal = mid.proposal /\ new.values = mid.values
       /\ \A r \in Peers \ {p} : /\ new.prevotes[r] = mid.prevotes[r]
                                 /\ new.precommits[r] = mid.precommits[r]
  <2>1. mid.prevotes[p] = st.prevotes[p] /\ mid.precommits[p] = st.precommits[p]
    BY <1>1, <1>3, <1>8
  <2>2. /\ m.kind = "Prevote" => mid.precommits = st.precommits
        /\ m.kind = "Precommit" => mid.prevotes = st.prevotes
        /\ \A r \in Peers \ {m.voter} : mid.prevotes[r] = st.prevotes[r]
    BY <1>3, <1>8
  <2>. QED
    BY <1>1, <1>2, <1>6, <1>7, <1>9, <1>10, <2>1, <2>2, StoredInput, SMT
<1>12. Records(p, st, m, new)
  <2>1. \A k \in VoteKinds, r \in Peers \ {p} :
           \/ VotesOf(new, k)[r] = VotesOf(st, k)[r]
           \/ m.kind = k /\ m.voter = r /\ VotesOf(new, k)[r] = h
    BY <1>1, <1>3, <1>8, <1>11, SMT DEF VotesOf, VoteKinds
  <2>2. VotesOf(new, m.kind)[m.voter] = h
    BY <1>1, <1>3, <1>8, <1>11 DEF VotesOf
  <2>. QED
    BY <1>1, <1>4, <1>6, <1>7, <1>11, <2>1, <2>2 DEF Records
<1>. QED
  BY <1>11, <1>12

\* What processing an input does to a peer.
LEMMA InputAdvances ==
    ASSUME NEW p \in Peers, NEW st \in PeerStates, Settled(p, st), Unheard(p, st),
           NEW m \in Inputs, Finds(p, st, m), NEW new \in Outcomes(p, st, m)
    PROVE  /\ new \in PeerStates /\ Settled(p, new) /\ Progress(p, st, m, new)
           /\ m.type = "StartHeight" => new = StateAt(m.height, "propose")
           /\ m.type # "StartHeight" => Records(p, st, m, new) /\ Casts(p, st, new)
<1>1. new \in PeerStates
  BY OutcomeFacts
<1>2. CASE m.type = "StartHeight"
  <2>1. new = StateAt(m.height, "propose") /\ m.height \in Nat
    BY <1>2, OutcomeFacts, InputFields
  <2>2. PICK h \in Nat : h = m.height
    BY <2>1
  <2>3. /\ new.height = h /\ new.step = "propose" /\ new.proposal = {}
        /\ new.prevotes = [q \in Peers |-> NoVote] /\ new.precommits = [q \in Peers |-> NoVote]
    BY <2>1, <2>2 DEF StateAt
  <2>4. Settled(p, new)
    BY <2>3 DEF Settled, Consistent, Full
  <2>5. Clock(new) = 5 * h + 1 /\ Clock(st) = 5 * h
    <3>1. Clock(new) = 5 * h + 1
      BY <1>1, <2>3, ClockReads
    <3>. QED
      BY <1>2, <2>2, <3>1 DEF Finds
  <2>6. st.step # "propose"
    <3>1. st.step = "propose" => Clock(st) = 5 * st.height + 1 /\ st.height \in Nat
      BY ClockReads DEF PeerStates
    <3>. QED
      BY <2>5, <3>1, SMT
  <2>7. IsToken(m) /\ ~Overtakes(m) /\ DueAt(m, st) = Clock(st)
    BY <1>2 DEF IsToken, Overtakes, DueAt
  <2>8. Advances(p, st, m, new)
    BY <2>5, <2>6, <2>7 DEF Advances
  <2>. QED
    BY <1>1, <1>2, <2>1, <2>4, <2>8 DEF Progress
<1>3. CASE m.type = "TimeoutElapsed"
  <2>1. m.kind = "Commit" /\ st.step = "commit"
    BY <1>3 DEF Finds
  <2>2. PICK mid : mid = ToStep(st, "decided")
    OBVIOUS
  <2>3. new = React(p, mid)
    BY <1>3, <2>1, <2>2 DEF Outcomes, OnTimeout
  <2>4. /\ mid \in PeerStates /\ mid.height = st.height /\ mid.step = "decided"
        /\ mid.proposal = st.proposal /\ mid.values = st.values
        /\ mid.prevotes = st.prevotes /\ mid.precommits = st.precommits
    BY <2>2, StepTaken, SMT DEF Steps
  <2>5. new = mid
    BY <2>3, <2>4, ReactFacts, SMT
  <2>6. Settled(p, new)
    BY <2>1, <2>4, <2>5 DEF Settled, Consistent
  <2>7. Clock(new) = Clock(st) + 1
    BY <2>1, <2>4, <2>5, ClockMoves
  <2>8. IsToken(m) /\ ~Overtakes(m) /\ DueAt(m, st) = Clock(st)
    BY <1>3 DEF IsToken, Overtakes, DueAt
  <2>9. Advances(p, st, m, new)
    BY <2>1, <2>7, <2>8 DEF Advances
  <2>10. Records(p, st, m, new)
    BY <1>3, <2>4, <2>5 DEF Records, VotesOf
  <2>11. Casts(p, st, new)
    BY <2>1, <2>4, <2>5 DEF Casts
  <2>. QED
    BY <1>1, <1>3, <2>6, <2>9, <2>10, <2>11 DEF Progress
<1>4. CASE Carries(m) /\ Current(st, m)
  <2>1. m.type = "Propose" => st.step = "propose"
    BY DEF Finds
  <2>2. CASE m.type = "Propose" /\ new = st
    BY <1>1, <1>4, <2>2, InputIgnored DEF IsToken, Carries
  <2>3. CASE ~(m.type = "Propose" /\ new = st)
    <3>1. \/ /\ m.type = "Propose"
             /\ new = React(p, StoreValue(StoreProposal(st, m.value), m.value))
          \/ m.type = "Proposal" /\ new = React(p, StoreProposal(st, m.value))
          \/ m.type = "ProposedValue" /\ new = React(p, StoreValue(st, m.value))
      BY <1>4, <2>1, <2>3 DEF Outcomes, Carries
    <3>2. PICK mid :
            /\ \/ /\ m.type = "Propose"
                  /\ mid = StoreValue(StoreProposal(st, m.value), m.value)
               \/ m.type = "Proposal" /\ mid = StoreProposal(st, m.value)
               \/ m.type = "ProposedValue" /\ mid = StoreValue(st, m.value)
            /\ new = React(p, mid)
      BY <3>1
    <3>. QED
      BY <1>4, <3>2, ValueStored DEF Carries
  <2>. QED
    BY <2>2, <2>3
<1>5. CASE m.type = "Vote" /\ Current(st, m)
  <2>1. new = React(p, StoreVote(st, m))
    BY <1>5 DEF Outcomes
  <2>. QED
    BY <1>5, <2>1, VoteStored
<1>6. CASE ~IsToken(m) /\ ~Current(st, m)
  <2>1. new = st
    BY <1>6 DEF Outcomes, IsToken
  <2>. QED
    BY <1>1, <1>6, <2>1, InputIgnored DEF IsToken
<1>. QED
  BY <1>2, <1>3, <1>4, <1>5, <1>6, InputFields DEF Carries, IsToken

\* What effect e of the step of peer p from st to new goes with. Whatever sends an
\* envelope at the end of a step goes with a move of the clock; a vote names the
\* height and is due when the peer has cast it.
GoesWith(e, p, st, m, new) ==
    /\ SendsToken(e) \/ IsGetValue(e) => Clock(new) = Clock(st) + 1
    /\ IsDecide(e) => e.height = new.height
    /\ e.effect = "Publish" /\ e.msg.type = "Vote" =>
         /\ e.msg = Vote(e.msg.kind, new.height, new.height, p)
         /\ e.msg.kind \in VoteKinds
         /\ Clock(new) = 5 * new.height + VoteStage(e.msg.kind)
         /\ Clock(new) = Clock(st) + 1
    /\ e.effect = "Publish" /\ e.msg.type # "Vote" =>
         m.type = "Propose" /\ e.msg = Proposal(m.height, m.value)

\* Every effect of a step does.
LEMMA EffectsOfAdvance ==
    ASSUME NEW p \in Peers, NEW st \in PeerStates, Settled(p, st),
           NEW m \in Inputs, NEW new \in PeerStates, Settled(p, new),
           Progress(p, st, m, new),
           m.type = "StartHeight" => new = StateAt(m.height, "propose"),
           m.type # "StartHeight" => Records(p, st, m, new) /\ Casts(p, st, new),
           NEW e \in EffectsOf(p, st, m, new)
    PROVE  GoesWith(e, p, st, m, new)
<1>1. /\ new.step # st.step => Clock(new) = Clock(st) + 1
      /\ m.type = "StartHeight" => Clock(new) = Clock(st) + 1
  BY DEF Progress, Advances, IsToken
<1>2. SendsToken(e) \/ IsGetValue(e) => Clock(new) = Clock(st) + 1
  BY <1>1, EffectOrigins, SMT DEF SendsToken
<1>3. IsDecide(e) => e.height = new.height
  <2>1. IsDecide(e) => e.height = st.height /\ new.step = "decided"
    BY EffectOrigins, SMT
  <2>2. m.type = "StartHeight" => new.step = "propose"
    BY SMT DEF StateAt
  <2>. QED
    BY <2>1, <2>2 DEF Records
<1>4. e.effect = "Publish" /\ e.msg.type # "Vote" =>
        m.type = "Propose" /\ e.msg = Proposal(m.height, m.value)
  BY EffectKinds, SMT DEF ScheduleTimeout, GetValue, Publish, Vote, Decide
<1>5. ASSUME e.effect = "Publish", e.msg.type = "Vote"
      PROVE  /\ e.msg = Vote(e.msg.kind, new.height, new.height, p)
             /\ e.msg.kind \in VoteKinds
             /\ Clock(new) = 5 * new.height + VoteStage(e.msg.kind)
             /\ Clock(new) = Clock(st) + 1
  <2>1. \/ /\ st.prevotes[p] = NoVote /\ new.prevotes[p] # NoVote
           /\ e = Publish(Vote("Prevote", new.height, new.prevotes[p], p))
        \/ /\ st.precommits[p] = NoVote /\ new.precommits[p] # NoVote
           /\ e = Publish(Vote("Precommit", new.height, new.precommits[p], p))
    <3>1. \/ e \in InputEffects(p, st, m) \/ e \in VoteEffects(p, st, new)
          \/ e \in DecisionEffects(st, new)
      BY DEF EffectsOf
    <3>2. e \notin InputEffects(p, st, m)
      BY <1>5, SMT DEF InputEffects, When, ScheduleTimeout, GetValue, Publish, Proposal
    <3>3. e \notin DecisionEffects(st, new)
      BY <1>5, SMT DEF DecisionEffects, When, ScheduleTimeout, Decide
    <3>4. e \in VoteEffects(p, st, new)
      BY <3>1, <3>2, <3>3
    <3>5. \A k : e # ScheduleTimeout(k)
      BY <1>5, SMT DEF ScheduleTimeout
    <3>. QED
      BY <3>4, <3>5 DEF VoteEffects, When
  <2>2. m.type # "StartHeight"
    BY <2>1, SMT DEF StateAt
  <2>3. new.height \in Nat /\ new.step # "newround"
    BY DEF PeerStates, Settled, Consistent
  <2>4. CASE /\ st.prevotes[p] = NoVote /\ new.prevotes[p] # NoVote
             /\ e = Publish(Vote("Prevote", new.height, new.prevotes[p], p))
    <3>1. st.step = "propose" /\ new.step = "prevote"
      BY <2>2, <2>4 DEF Casts
    <3>2. new.prevotes[p] = new.height
      BY <3>1 DEF Settled, Consistent
    <3>3. Clock(new) = 5 * new.height + 2
      BY <2>3, <3>1, ClockReads
    <3>4. e.msg = Vote("Prevote", new.height, new.height, p) /\ e.msg.kind = "Prevote"
      BY <2>4, <3>2 DEF Publish, Vote
    <3>. QED
      BY <1>1, <3>1, <3>3, <3>4 DEF VoteKinds, VoteStage
  <2>5. CASE /\ st.precommits[p] = NoVote /\ new.precommits[p] # NoVote
             /\ e = Publish(Vote("Precommit", new.height, new.precommits[p], p))
    <3>1. st.step = "prevote" /\ new.step = "precommit"
      BY <2>2, <2>5 DEF Casts
    <3>2. new.precommits[p] = new.height
      BY <3>1 DEF Settled, Consistent
    <3>3. Clock(new) = 5 * new.height + 3
      BY <2>3, <3>1, ClockReads
    <3>4. e.msg = Vote("Precommit", new.height, new.height, p) /\ e.msg.kind = "Precommit"
      BY <2>5, <3>2 DEF Publish, Vote
    <3>. QED
      BY <1>1, <3>1, <3>3, <3>4 DEF VoteKinds, VoteStage
  <2>. QED
    BY <2>1, <2>4, <2>5
<1>. QED
  BY <1>2, <1>3, <1>4, <1>5 DEF GoesWith

\* Conversely, a peer whose clock moves on sends what the others wait for.
LEMMA AdvanceSends ==
    ASSUME NEW p \in Peers, NEW st \in PeerStates, Settled(p, st),
           NEW m \in Inputs, NEW new \in PeerStates, Settled(p, new),
           m.type # "StartHeight", Records(p, st, m, new), Casts(p, st, new),
           new.step # st.step
    PROVE  /\ new.step = "prevote" =>
                Publish(Vote("Prevote", st.height, st.height, p)) \in EffectsOf(p, st, m, new)
           /\ new.step = "precommit" =>
                Publish(Vote("Precommit", st.height, st.height, p)) \in EffectsOf(p, st, m, new)
           /\ new.step \in {"commit", "decided"} =>
                \E e \in EffectsOf(p, st, m, new) : SendsToken(e)
           /\ new.step \in {"prevote", "precommit", "commit", "decided"}
<1>1. new.height = st.height /\ st.height \in Nat /\ st.height # NoVote
  <2>1. new.height = st.height
    BY DEF Records
  <2>2. st.height \in Nat
    BY DEF PeerStates
  <2>. QED
    BY <2>1, <2>2, SMT DEF NoVote
<1>2. CASE new.step = "prevote"
  <2>1. st.prevotes[p] = NoVote /\ new.prevotes[p] = st.height
    BY <1>1, <1>2 DEF Casts, Settled, Consistent
  <2>2. Publish(Vote("Prevote", new.height, new.prevotes[p], p)) \in VoteEffects(p, st, new)
    BY <1>1, <2>1 DEF VoteEffects, When
  <2>. QED
    BY <1>1, <1>2, <2>1, <2>2 DEF EffectsOf
<1>3. CASE new.step = "precommit"
  <2>1. st.precommits[p] = NoVote /\ new.precommits[p] = st.height
    BY <1>1, <1>3 DEF Casts, Settled, Consistent
  <2>2. Publish(Vote("Precommit", new.height, new.precommits[p], p))
           \in VoteEffects(p, st, new)
    BY <1>1, <2>1 DEF VoteEffects, When
  <2>. QED
    BY <1>1, <1>3, <2>1, <2>2 DEF EffectsOf
<1>4. CASE new.step = "commit"
  <2>1. ScheduleTimeout("Commit") \in DecisionEffects(st, new)
    BY <1>4 DEF DecisionEffects, When
  <2>2. SendsToken(ScheduleTimeout("Commit"))
    BY DEF SendsToken, ScheduleTimeout
  <2>. QED
    BY <1>4, <2>1, <2>2 DEF EffectsOf
<1>5. CASE new.step = "decided"
  <2>1. st.step = "commit"
    BY <1>5 DEF Casts
  <2>. QED
    BY <1>5, <2>1, EffectsMade DEF SendsToken
<1>. QED
  BY <1>2, <1>3, <1>4, <1>5 DEF Casts

=============================================================================
