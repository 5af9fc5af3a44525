--------------------------- MODULE MCReadWriteMutex ---------------------------
(* ReadWriteMutex with a handful of guards.  No symmetry: liveness is      *)
(* checked too.                                                            *)
EXTENDS ReadWriteMutex
=============================================================================
