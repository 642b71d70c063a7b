--------------------------- MODULE MCHermesBridge ---------------------------
(* HermesBridge with a few jobs and interchangeable cards.                 *)
EXTENDS HermesBridge, TLC

Symmetry == Permutations(Job) \cup Permutations(Card)
=============================================================================
