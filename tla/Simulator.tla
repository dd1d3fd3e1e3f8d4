----------------------------- MODULE Simulator ------------------------------
(***************************************************************************)
(* The simulator: the peers, their consensus states and the loop that      *)
(* takes the next envelope off the network and lets its destination        *)
(* process it.                                                             *)
(***************************************************************************)
EXTENDS Application

CONSTANT MaxHeight    \* bound: no height above it is started

ASSUME MaxHeightAssumption == MaxHeight \in Nat

VARIABLE states       \* the consensus state of every peer

simVars == <<appVars, states>>

SimInit ==
    /\ AppInit
    /\ states = [p \in Peers |-> StateAt(0, "unstarted")]

WithinBound(m) == m.type = "StartHeight" => m.height <= MaxHeight

\* step_with_envelope up to the first effect of the input.
Step ==
    /\ Running("simulator")
    /\ effects = {}
    /\ network # <<>>
    /\ LET p == Head(network).destination
           m == Head(network).payload
       IN /\ WithinBound(m)
          /\ current' = p
          /\ IF LibraryError(states[p], m)
             THEN Ends("simulator", "process error") /\ UNCHANGED <<states, effects>>
             ELSE \E new \in Outcomes(p, states[p], m) :
                    /\ states' = [states EXCEPT ![p] = new]
                    /\ effects' = EffectsOf(p, states[p], m, new)
                    /\ UNCHANGED status
    /\ network' = Tail(network)
    /\ UNCHANGED <<channels, log>>

SimNext == Step \/ (HandleEffect /\ UNCHANGED states)

SimTypeOK ==
    /\ AppTypeOK
    /\ states \in [Peers -> PeerStates]
=============================================================================
