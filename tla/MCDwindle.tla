----------------------------- MODULE MCDwindle -----------------------------
(* Dwindle on small instances: a wide and a tall usable box, a pointer in two
   corners of it, and the views interchangeable.                             *)
EXTENDS Dwindle, TLC

MCArea == {[w |-> 8, h |-> 6], [w |-> 5, h |-> 6]}
MCCursor == {[x |-> 1, y |-> 1], [x |-> 6, y |-> 5]}
MCDelta == {-9}
Symmetry == Permutations(View)

(* At most one view is fullscreen or on another output at a time; any number
   are hidden or gone.                                                       *)
OneAside == Cardinality(With(at, "full") \cup With(at, "away")) <= 1
=============================================================================
