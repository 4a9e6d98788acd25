------------------------------ MODULE MCWaDiag ------------------------------
(* Instances of WaDiag for TLC: two ids, two or three procedures.          *)
EXTENDS WaDiag, TLC

Symmetric == Permutations(Diags) \cup Permutations(Ids) \cup Permutations(Reqs)
=============================================================================
