------------------------------- MODULE MCEnter -------------------------------
(* Instances of Enter for TLC.                                             *)
EXTENDS Enter, TLC

\* Neither user identifiers, nor requests, nor attributes of one kind are told
\* apart.
Symmetry ==
  Permutations(Users) \cup Permutations(Workers)
    \cup Permutations(Identifying \ Bannable)
=============================================================================
