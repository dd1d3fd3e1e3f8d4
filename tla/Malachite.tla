----------------------------- MODULE Malachite -----------------------------
(***************************************************************************)
(* The consensus library `malachite_core_consensus` that every peer runs.  *)
(* Its source is not part of the repository: it is modelled from the way   *)
(* src/src/chain/application.rs feeds it `Input`s and answers its          *)
(* `Effect`s.  What the repository does define, the context of the         *)
(* library (peers, voting power, proposer, inputs), is translated from     *)
(* src/src/chain/context/.                                                 *)
(*                                                                         *)
(* One call of `process!` takes the state of a peer and an input to a new  *)
(* state and a set of effects.  The application does not depend on the     *)
(* order in which the library yields the effects of one input, so they     *)
(* form a set and the model handles them in every order.                   *)
(*                                                                         *)
(* Only round 0 is followed.  A peer whose precommit timeout elapses goes  *)
(* to step "newround" and stays there; RoundZero of module Chain shows     *)
(* that no peer ever does.                                                 *)
(***************************************************************************)
EXTENDS Integers, FiniteSets

CONSTANTS
    N,      \* size of the peer set, the `size` of Simulator::new
    Txs     \* transactions

\* The two asserts of Simulator::new.
ASSUME NAssumption == N \in 4..24

Peers == 0..N-1

Values == [id : Nat, txs : SUBSET Txs]

\* select_proposer: the first peer of the set, whatever the height and round.
SelectProposer == 0

\* A vote names a value by its identifier, or is nil; NoVote stands for the
\* absence of a vote in the vote keeper.
Nil == -1
NoVote == -2

VoteKinds == {"Prevote", "Precommit"}
TimeoutKinds == {"Propose", "Prevote", "Precommit", "Commit"}

-----------------------------------------------------------------------------
(* Inputs, effects and the state of one peer. *)

StartHeight(h) == [type |-> "StartHeight", height |-> h]
Propose(h, v) == [type |-> "Propose", height |-> h, value |-> v]
Proposal(h, v) == [type |-> "Proposal", height |-> h, value |-> v]
ProposedValue(h, v) == [type |-> "ProposedValue", height |-> h, value |-> v]
TimeoutElapsed(k) == [type |-> "TimeoutElapsed", kind |-> k]

\* new_prevote and new_precommit of the context, signed and made an input.
Vote(k, h, id, q) ==
    [type |-> "Vote", kind |-> k, height |-> h, id |-> id, voter |-> q]

ValueInputs ==
    [type : {"Propose", "Proposal", "ProposedValue"}, height : Nat, value : Values]
Votes ==
    [type : {"Vote"}, kind : VoteKinds, height : Nat, id : Int, voter : Peers]
Inputs ==
         [type : {"StartHeight"}, height : Nat]
    \cup ValueInputs
    \cup Votes
    \cup [type : {"TimeoutElapsed"}, kind : TimeoutKinds]

ScheduleTimeout(k) == [effect |-> "ScheduleTimeout", kind |-> k]
GetValue(h) == [effect |-> "GetValue", height |-> h]
Publish(m) == [effect |-> "Publish", msg |-> m]
Decide(h, id) == [effect |-> "Decide", height |-> h, id |-> id]

Effects ==
         [effect : {"ScheduleTimeout"}, kind : TimeoutKinds]
    \cup [effect : {"GetValue"}, height : Nat]
    \cup [effect : {"Publish"}, msg : ValueInputs \cup Votes]
    \cup [effect : {"Decide"}, height : Nat, id : Int]

Steps == {"unstarted", "propose", "prevote", "precommit", "commit", "decided",
          "newround"}

PeerStates ==
    [height : Nat, step : Steps, proposal : SUBSET Values, values : SUBSET Values,
     prevotes : [Peers -> Int], precommits : [Peers -> Int]]

StateAt(h, step) ==
    [height |-> h, step |-> step, proposal |-> {}, values |-> {},
     prevotes |-> [q \in Peers |-> NoVote],
     precommits |-> [q \in Peers |-> NoVote]]

-----------------------------------------------------------------------------
(* The rules of the consensus algorithm in round 0. *)

\* More than two thirds of the voting power, every peer having power 1.
Quorum(S) == 3 * Cardinality(S) > 2 * N
QuorumFor(votes, id) == Quorum({q \in Peers : votes[q] = id})
QuorumAny(votes) == Quorum({q \in Peers : votes[q] # NoVote})

\* Both the proposal and the value it announces have arrived: the application
\* sends the two as separate inputs.
Full(st) == st.proposal # {} /\ st.proposal \subseteq st.values
ProposedId(st) == (CHOOSE v \in st.proposal : TRUE).id

CastPrevote(p, st, id) == [st EXCEPT !.step = "prevote", !.prevotes[p] = id]
CastPrecommit(p, st, id) == [st EXCEPT !.step = "precommit", !.precommits[p] = id]
ToStep(st, step) == [st EXCEPT !.step = step]

PrevoteRule(p, st) ==
    IF st.step = "propose" /\ Full(st) THEN CastPrevote(p, st, ProposedId(st)) ELSE st

PrecommitRule(p, st) ==
    IF st.step = "prevote" /\ Full(st) /\ QuorumFor(st.prevotes, ProposedId(st))
    THEN CastPrecommit(p, st, ProposedId(st))
    ELSE IF st.step = "prevote" /\ QuorumFor(st.prevotes, Nil)
    THEN CastPrecommit(p, st, Nil)
    ELSE st

CommitRule(st) ==
    IF /\ st.step \in {"propose", "prevote", "precommit"}
       /\ Full(st)
       /\ QuorumFor(st.precommits, ProposedId(st))
    THEN ToStep(st, "commit")
    ELSE st

React(p, st) == CommitRule(PrecommitRule(p, PrevoteRule(p, st)))

-----------------------------------------------------------------------------
(* What each input does to the state of peer p. *)

\* The first proposal of a round is kept.
StoreProposal(st, v) == IF st.proposal = {} THEN [st EXCEPT !.proposal = {v}] ELSE st

StoreValue(st, v) == [st EXCEPT !.values = @ \cup {v}]

\* The first vote of a voter is kept.
StoreVote(st, m) ==
    IF m.kind = "Prevote"
    THEN IF st.prevotes[m.voter] = NoVote
         THEN [st EXCEPT !.prevotes[m.voter] = m.id] ELSE st
    ELSE IF st.precommits[m.voter] = NoVote
         THEN [st EXCEPT !.precommits[m.voter] = m.id] ELSE st

OnTimeout(p, st, k) ==
    CASE k = "Propose" /\ st.step = "propose" -> CastPrevote(p, st, Nil)
      [] k = "Prevote" /\ st.step = "prevote" -> CastPrecommit(p, st, Nil)
      [] k = "Precommit" /\ st.step \in {"propose", "prevote", "precommit"} ->
            ToStep(st, "newround")
      [] k = "Commit" /\ st.step = "commit" -> ToStep(st, "decided")
      [] OTHER -> st

\* Inputs of another height have no effect.
Current(st, m) == st.step # "unstarted" /\ st.height = m.height

\* The states the library may leave peer p in.  Given a value to propose, it may
\* apply the proposal to its own state at once or leave that to the envelope
\* which the application sends to the proposer itself.
Outcomes(p, st, m) ==
    CASE m.type = "StartHeight" -> {StateAt(m.height, "propose")}
      [] m.type = "TimeoutElapsed" -> {React(p, OnTimeout(p, st, m.kind))}
      [] m.type = "Propose" /\ Current(st, m) /\ st.step = "propose" ->
            {st, React(p, StoreValue(StoreProposal(st, m.value), m.value))}
      [] m.type = "Proposal" /\ Current(st, m) ->
            {React(p, StoreProposal(st, m.value))}
      [] m.type = "ProposedValue" /\ Current(st, m) ->
            {React(p, StoreValue(st, m.value))}
      [] m.type = "Vote" /\ Current(st, m) -> {React(p, StoreVote(st, m))}
      [] OTHER -> {st}

\* `process!` returns an error: there is no decision to commit.
LibraryError(st, m) ==
    m.type = "TimeoutElapsed" /\ m.kind = "Commit" /\ st.step # "commit"

-----------------------------------------------------------------------------
(* The effects of a call are read off the change of the peer's state. *)

When(b, e) == IF b THEN {e} ELSE {}

\* The effects that depend on the input: a value is requested, a proposal made.
InputEffects(p, st, m) ==
         When(m.type = "StartHeight", ScheduleTimeout("Propose"))
    \cup When(m.type = "StartHeight" /\ p = SelectProposer, GetValue(m.height))
    \cup When(m.type = "Propose" /\ Current(st, m) /\ st.step = "propose",
              Publish(Proposal(m.height, m.value)))

\* The effects of the votes cast and of the thresholds crossed from st to new.
VoteEffects(p, st, new) ==
         When(st.prevotes[p] = NoVote /\ new.prevotes[p] # NoVote,
              Publish(Vote("Prevote", new.height, new.prevotes[p], p)))
    \cup When(st.precommits[p] = NoVote /\ new.precommits[p] # NoVote,
              Publish(Vote("Precommit", new.height, new.precommits[p], p)))
    \cup When(/\ new.step = "prevote" /\ QuorumAny(new.prevotes)
              /\ ~(st.step = "prevote" /\ QuorumAny(st.prevotes)),
              ScheduleTimeout("Prevote"))
    \cup When(/\ new.step = "precommit" /\ QuorumAny(new.precommits)
              /\ ~(st.step = "precommit" /\ QuorumAny(st.precommits)),
              ScheduleTimeout("Precommit"))

\* The effects of reaching a decision and of its commit timeout.
DecisionEffects(st, new) ==
         When(st.step # "commit" /\ new.step = "commit", ScheduleTimeout("Commit"))
    \cup When(st.step = "commit" /\ new.step = "decided",
              Decide(st.height, ProposedId(st)))

EffectsOf(p, st, m, new) ==
    InputEffects(p, st, m) \cup VoteEffects(p, st, new) \cup DecisionEffects(st, new)
=============================================================================
