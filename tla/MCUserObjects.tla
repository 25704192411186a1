---------------------------- MODULE MCUserObjects ----------------------------
(* Instances of UserObjects for TLC.                                       *)
EXTENDS UserObjects, TLC

CONSTANT large   \* one of the payloads

\* All payloads are of size 1, but for the large one.
MCSize == [p \in Payloads |-> IF p = large THEN 2 ELSE 1]

Symmetry ==
  Permutations(Handles) \cup Permutations(Workers)
    \cup Permutations(Payloads \ {large})
=============================================================================
