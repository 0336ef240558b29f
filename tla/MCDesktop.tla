----------------------------- MODULE MCDesktop -----------------------------
(* Desktop on small instances: model values for views, outputs and tags.     *)
EXTENDS Desktop, TLC

(* Views and outputs are interchangeable; tags are not, FirstTag being one.  *)
Symmetry == Permutations(View) \cup Permutations(Output)
=============================================================================
