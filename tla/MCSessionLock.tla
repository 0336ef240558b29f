--------------------------- MODULE MCSessionLock ---------------------------
(* SessionLock on a small instance: one output of two has a position in its  *)
(* monitor rule, the other is placed by the layout.                          *)
EXTENDS SessionLock, TLC

Symmetry == Permutations(Surface) \cup Permutations(Lock)
=============================================================================
