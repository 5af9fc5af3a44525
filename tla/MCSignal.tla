------------------------------- MODULE MCSignal -------------------------------
(* Signal for TLC: no definition tells one signal or one slot from another *)
(* except by its place in a list, so both sets are symmetric.              *)
EXTENDS Signal, TLC

Symmetry == Permutations(Signals) \cup Permutations(Slots)
=============================================================================
