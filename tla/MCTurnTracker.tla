--------------------------- MODULE MCTurnTracker ---------------------------
(* Model-checking instances of TurnTracker: the turns of one chain. *)
EXTENDS TurnTracker

CONSTANTS o1

OneOrigin == [t \in Turns |-> o1]
=============================================================================
