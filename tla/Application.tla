---------------------------- MODULE Application -----------------------------
(***************************************************************************)
(* The application of a peer: it answers the effects that the consensus    *)
(* library yields while it processes an input, mostly by putting envelopes *)
(* into the network.  All peers share one thread, and hence one call of    *)
(* `process!` is in progress at a time; the builder and the consumer run   *)
(* between any two of its effects.                                         *)
(*                                                                         *)
(* The effects to which handle_effect merely answers `Ok` (reset and       *)
(* cancel of timeouts, start of a round, persistence, signatures, the      *)
(* validator set) leave all state alone and are left out.                  *)
(***************************************************************************)
EXTENDS Channels

VARIABLES
    network,    \* the one FIFO channel that carries every envelope
    current,    \* the peer whose input is being processed
    effects,    \* the effects of that input not yet handled
    log         \* history: the values each peer decided, in order

appVars == <<network, current, effects, log>>

Envelope(src, dst, m) == [source |-> src, destination |-> dst, payload |-> m]
Envelopes == [source : Peers, destination : Peers, payload : Inputs]

\* Application::init for every peer in turn: each inbox starts with height 0.
\* Mutant: the loop over the peers leaves out the last one.
InitialEnvelopes_OneShort ==
    [i \in 1..N-1 |-> Envelope(i - 1, i - 1, StartHeight(0))]
InitialEnvelopes ==
    [i \in 1..N |-> Envelope(i - 1, i - 1, StartHeight(0))]

AppInit ==
    /\ network = InitialEnvelopes
    /\ current = 0
    /\ effects = {}
    /\ log = [p \in Peers |-> <<>>]

SendToSelf(m) == network' = Append(network, Envelope(current, current, m))

Handling(e) ==
    /\ Running("simulator")
    /\ e \in effects
    /\ effects' = effects \ {e}

\* Only the commit timeout is acted upon, and at once; no other ever elapses.
\* Mutants: every timeout elapses at once; none does.
ElapsesAtOnce_All(k) == TRUE
ElapsesAtOnce_None(k) == FALSE
ElapsesAtOnce(k) == k = "Commit"

\* Mutant: the elapsed timeout is sent twice.
HandleScheduleTimeout_Twice(e) ==
    /\ Handling(e)
    /\ e.effect = "ScheduleTimeout"
    /\ IF ElapsesAtOnce(e.kind)
       THEN network' = network \o
              [i \in 1..2 |-> Envelope(current, current, TimeoutElapsed(e.kind))]
       ELSE UNCHANGED network
    /\ UNCHANGED <<status, channels, current, log>>
HandleScheduleTimeout(e) ==
    /\ Handling(e)
    /\ e.effect = "ScheduleTimeout"
    /\ IF ElapsesAtOnce(e.kind)
       THEN SendToSelf(TimeoutElapsed(e.kind)) ELSE UNCHANGED network
    /\ UNCHANGED <<status, channels, current, log>>

\* All peers but p, in the order of the peer set.
Others(p) == [i \in 1..N-1 |-> IF i - 1 < p THEN i - 1 ELSE i]

HandlePublishVote(e) ==
    /\ Handling(e)
    /\ e.effect = "Publish" /\ e.msg.type = "Vote"
    /\ network' = network \o
         [i \in 1..N-1 |-> Envelope(current, Others(current)[i], e.msg)]
    /\ UNCHANGED <<status, channels, current, log>>

\* Every peer, the proposer included, is sent the proposal and then the value;
\* in between, each time, the consumer is told of the proposal.
\* Mutant: the loop over the peers leaves out the last one.
ProposalEnvelopes_OneShort(h, v) ==
    [i \in 1..2*(N-1) |-> Envelope(current, (i - 1) \div 2,
                               IF i % 2 = 1 THEN Proposal(h, v) ELSE ProposedValue(h, v))]
ProposalEnvelopes(h, v) ==
    [i \in 1..2*N |-> Envelope(current, (i - 1) \div 2,
                               IF i % 2 = 1 THEN Proposal(h, v) ELSE ProposedValue(h, v))]

\* Mutants: the proposal is not announced; it is announced for the next height.
Announcements_None(h, v) == <<>>
Announcements_NextHeight(h, v) == [i \in 1..N |-> Proposed(h + 1, v)]
Announcements(h, v) == [i \in 1..N |-> Proposed(h, v)]

HandlePublishProposal(e) ==
    /\ Handling(e)
    /\ e.effect = "Publish" /\ e.msg.type = "Proposal"
    /\ IF Running("consumer")
       THEN /\ network' = network \o ProposalEnvelopes(e.msg.height, e.msg.value)
            /\ decisionSteps' = decisionSteps \o Announcements(e.msg.height, e.msg.value)
            /\ UNCHANGED status
       ELSE Ends("simulator", "no consumer") /\ UNCHANGED <<network, decisionSteps>>
    /\ UNCHANGED <<pool, proposals, toTask, current, log>>

\* BaseHeight::increment_by(1).  Mutant: decrement.
NextHeight_Down(h) == h - 1
NextHeight(h) == h + 1

HandleDecide(e) ==
    /\ Handling(e)
    /\ e.effect = "Decide"
    /\ IF Running("consumer")
       THEN /\ decisionSteps' = Append(decisionSteps, Finalized(current, e.height, e.id))
            /\ SendToSelf(StartHeight(NextHeight(e.height)))
            /\ log' = [log EXCEPT ![current] = Append(@, e.id)]
            /\ UNCHANGED status
       ELSE /\ Ends("simulator", "no consumer")
            /\ UNCHANGED <<network, decisionSteps, log>>
    /\ UNCHANGED <<pool, proposals, toTask, current>>

\* try_recv: an empty channel is an error, which handle_effect unwraps.
\* Mutant: the value is read and left in the channel.
HandleGetValue_Peek(e) ==
    /\ Handling(e)
    /\ e.effect = "GetValue"
    /\ IF proposals = <<>>
       THEN Ends("simulator", "no value") /\ UNCHANGED network
       ELSE SendToSelf(Propose(e.height, Head(proposals))) /\ UNCHANGED status
    /\ UNCHANGED <<channels, current, log>>
HandleGetValue(e) ==
    /\ Handling(e)
    /\ e.effect = "GetValue"
    /\ IF proposals = <<>>
       THEN Ends("simulator", "no value") /\ UNCHANGED <<proposals, network>>
       ELSE /\ SendToSelf(Propose(e.height, Head(proposals)))
            /\ proposals' = Tail(proposals)
            /\ UNCHANGED status
    /\ UNCHANGED <<pool, decisionSteps, toTask, current, log>>

HandleEffect ==
    \E e \in effects :
        \/ HandleScheduleTimeout(e)
        \/ HandlePublishVote(e)
        \/ HandlePublishProposal(e)
        \/ HandleDecide(e)
        \/ HandleGetValue(e)

AppTypeOK ==
    /\ network \in Seq(Envelopes)
    /\ current \in Peers
    /\ effects \in SUBSET Effects
    /\ log \in [Peers -> Seq(Int)]
=============================================================================
