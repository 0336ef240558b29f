------------------------------ MODULE MCInput ------------------------------
(* Input on small instances.                                                 *)
EXTENDS InputClaims, TLC

MCPlaces == {[x |-> 0, w |-> 2], [x |-> 1, w |-> 2]}
MCSessions == {{"constrain", "rearrange"}, {"constrain", "move"},
               {"key", "follow"}, {"button", "key"}, {"resize"}}
MCRegion == {[lo |-> 0, hi |-> 1], [lo |-> 1, hi |-> 2]}
NoRegion == [lo |-> 0, hi |-> 0]
MCKinds == {[type |-> "locked", oneshot |-> FALSE, region |-> NoRegion],
            [type |-> "confined", oneshot |-> TRUE, region |-> NoRegion]}
Symmetry == Permutations(View)
=============================================================================
