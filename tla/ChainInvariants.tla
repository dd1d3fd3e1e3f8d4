-------------------------- MODULE ChainInvariants ---------------------------
(***************************************************************************)
(* The invariants that the proofs about module Chain are made of: what the *)
(* types of the effects depend on, and the order of the decisions.         *)
(*                                                                         *)
(* The order rests on what makes a peer change its height.  A peer has at  *)
(* most one such token: a StartHeight or an elapsed commit timeout in the  *)
(* network, or the effect that will send one.                              *)
(***************************************************************************)
EXTENDS Chain

\* The identifier that a peer in step "commit" decides is that of a proposal it
\* has; the types of the effects depend on it.
CommitHasProposal ==
    \A p \in Peers : states[p].step = "commit" => states[p].proposal # {}

TypeInv == ChainTypeOK /\ CommitHasProposal

\* The inputs that take a peer from one height to the next, and those that bring a
\* value.
IsToken(m) == m.type \in {"StartHeight", "TimeoutElapsed"}

Carries(m) == m.type \in {"Propose", "Proposal", "ProposedValue"}

\* The effects that matter to the order of the decisions; of those, the ones that
\* send a token.
IsDecide(e) == e.effect = "Decide"

IsGetValue(e) == e.effect = "GetValue"

SendsToken(e) == IsDecide(e) \/ (e.effect = "ScheduleTimeout" /\ e.kind = "Commit")

\* What a message finds at its destination, in state st and with decisions l.
Fits(m, st, l) ==
    /\ m.type = "TimeoutElapsed" => m.kind = "Commit" /\ st.step = "commit"
    /\ m.type = "StartHeight" => st.step \in {"unstarted", "decided"} /\ m.height = Len(l)
    /\ Carries(m) => m.value.id = m.height

NetOK(nw, sts, lg) ==
    /\ \A i \in DOMAIN nw :
          Fits(nw[i].payload, sts[nw[i].destination], lg[nw[i].destination])
    /\ \A i, j \in DOMAIN nw :
          /\ IsToken(nw[i].payload) /\ IsToken(nw[j].payload)
          /\ nw[i].destination = nw[j].destination
          => i = j

NoToken(nw, p) ==
    \A i \in DOMAIN nw : nw[i].destination = p => ~IsToken(nw[i].payload)

PeerOK(st, l) ==
    /\ st.step # "newround"
    /\ st.step \notin {"unstarted", "decided"} => st.height = Len(l)
    /\ \A v \in st.proposal : v.id = st.height

\* What an effect finds at the peer that is being served.
EffectOK(e, p, st, l) ==
    /\ IsDecide(e) => st.step = "decided" /\ e.height = Len(l) /\ e.id = e.height
    /\ SendsToken(e) /\ ~IsDecide(e) => st.step = "commit"
    /\ IsGetValue(e) => p = 0 /\ st.step = "propose" /\ e.height = Len(l)
    /\ e.effect = "Publish" /\ e.msg.type # "Vote" => e.msg.value.id = e.msg.height

\* The proposer has not yet taken the value of the height it will decide next.
Fresh ==
    \/ states[0].step = "unstarted"
    \/ states[0].step = "decided" /\ ~(current = 0 /\ \E e \in effects : IsDecide(e))
    \/ \E e \in effects : IsGetValue(e)

Supply ==
    /\ valueCounter = Len(proposals) + Len(log[0]) + (IF Fresh THEN 0 ELSE 1)
    /\ Len(proposals) <= 1
    /\ proposals # <<>> => Head(proposals).id = valueCounter - 1
    /\ \A v \in staged : v.id = valueCounter

Flow ==
    /\ NetOK(network, states, log)
    /\ \A p \in Peers : PeerOK(states[p], log[p])
    /\ \A e \in effects : EffectOK(e, current, states[current], log[current])
    /\ (\E e \in effects : SendsToken(e)) => NoToken(network, current)
    /\ Supply

OrderInv ==
    /\ RoundZero /\ DecidedInOrder /\ Backpressure /\ NoProcessError
    /\ Running("simulator") => Flow

=============================================================================
