----------------------------- MODULE MCTurnQueue -----------------------------
(* Model-checking instances of TurnQueue: the turns of one session. *)
EXTENDS TurnQueue

CONSTANTS s1

OneSession == [t \in Turns |-> s1]
OneScope == [s \in Sessions |-> "normal"]
=============================================================================
