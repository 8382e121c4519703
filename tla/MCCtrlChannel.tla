--------------------------- MODULE MCCtrlChannel ---------------------------
(* Model checking of CtrlChannel: threads and values are interchangeable. *)
EXTENDS CtrlChannel, TLC

Symmetry == Permutations(Threads) \cup Permutations(Values)
=============================================================================
