------------------------------ MODULE Consumer ------------------------------
(***************************************************************************)
(* MalachiteChainConsumer: remembers which value was proposed at which     *)
(* height and, when peer 0 finalizes a height, relays the transactions of  *)
(* that value to the execution task.                                       *)
(***************************************************************************)
EXTENDS Channels

VARIABLES
    decisions,  \* the HashMap from heights to proposed values
    relayed     \* history: every block relayed, with the decision that caused it

consumerVars == <<decisions, relayed>>

ConsumerInit ==
    /\ decisions = [h \in {} |-> {}]
    /\ relayed = <<>>

Put(f, k, v) == [x \in DOMAIN f \cup {k} |-> IF x = k THEN v ELSE f[x]]

\* Mutant: the test for an entry of the height is the wrong way round.
OnProposed_OnlyIfPresent(d) ==
    /\ decisions' = IF d.height \in DOMAIN decisions
                    THEN Put(decisions, d.height, d.value) ELSE decisions
    /\ UNCHANGED <<status, toTask, relayed>>
OnProposed(d) ==
    /\ decisions' = IF d.height \in DOMAIN decisions
                    THEN decisions ELSE Put(decisions, d.height, d.value)
    /\ UNCHANGED <<status, toTask, relayed>>

\* Only the decisions of peer 0 are consumed.  Mutant: those of every peer.
FromPeerZero_Any(d) == TRUE
FromPeerZero(d) == d.peer = 0

\* Both the lookup and the send panic when they fail.
\* Mutant: a failed send is ignored.
OnFinalized_IgnoresError(d) ==
    /\ FromPeerZero(d)
    /\ d.height \in DOMAIN decisions
    /\ IF ~Running("task")
       THEN UNCHANGED <<toTask, relayed>>
       ELSE /\ toTask' = Append(toTask, decisions[d.height].txs)
            /\ relayed' = Append(relayed, [height |-> d.height, id |-> d.id,
                                           value |-> decisions[d.height]])
    /\ UNCHANGED <<status, decisions>>
OnFinalized(d) ==
    /\ FromPeerZero(d)
    /\ IF d.height \notin DOMAIN decisions
       THEN Ends("consumer", "no proposal") /\ UNCHANGED <<toTask, relayed>>
       ELSE IF ~Running("task")
       THEN Ends("consumer", "no task") /\ UNCHANGED <<toTask, relayed>>
       ELSE /\ toTask' = Append(toTask, decisions[d.height].txs)
            /\ relayed' = Append(relayed, [height |-> d.height, id |-> d.id,
                                           value |-> decisions[d.height]])
            /\ UNCHANGED status
    /\ UNCHANGED decisions

OnFinalizedElsewhere(d) ==
    /\ ~FromPeerZero(d)
    /\ UNCHANGED <<status, toTask, decisions, relayed>>

\* One turn of the loop of run.
Consume ==
    /\ Running("consumer")
    /\ decisionSteps # <<>>
    /\ LET d == Head(decisionSteps) IN
         \/ d.step = "Proposed" /\ OnProposed(d)
         \/ d.step = "Finalized" /\ (OnFinalized(d) \/ OnFinalizedElsewhere(d))
    /\ decisionSteps' = Tail(decisionSteps)
    /\ UNCHANGED <<pool, proposals>>

\* recv returns None: the channel is empty and the simulator is gone.
\* Mutants: the consumer stops before the channel is empty; it never stops, as
\* when it keeps a sender of its own.
StopConsuming_Early ==
    /\ Running("consumer")
    /\ ~Running("simulator")
    /\ Ends("consumer", "stopped")
    /\ UNCHANGED <<channels, consumerVars>>
StopConsuming_Never == FALSE /\ UNCHANGED <<status, channels, consumerVars>>
StopConsuming ==
    /\ Running("consumer")
    /\ decisionSteps = <<>>
    /\ ~Running("simulator")
    /\ Ends("consumer", "stopped")
    /\ UNCHANGED <<channels, consumerVars>>

ConsumerNext == Consume \/ StopConsuming

ConsumerTypeOK ==
    /\ DOMAIN decisions \subseteq Nat
    /\ decisions \in [DOMAIN decisions -> Values]
    /\ relayed \in Seq([height : Nat, id : Int, value : Values])
=============================================================================
