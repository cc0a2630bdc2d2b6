---------------------------- MODULE MCFollowups ----------------------------
(* Followups for TLC: messages and clients are interchangeable.             *)
EXTENDS Followups, TLC

Symmetry == Permutations(Keys) \cup Permutations(Sinks)
=============================================================================
