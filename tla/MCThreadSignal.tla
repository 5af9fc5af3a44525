---------------------------- MODULE MCThreadSignal ----------------------------
(* ThreadSignal on small instances.  Signals are numbers because they are  *)
(* ordered; calls and slots are interchangeable.                           *)
EXTENDS ThreadSignal, TLC

Symmetry == Permutations(Calls) \cup Permutations(Slots)
=============================================================================
