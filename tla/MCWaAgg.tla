------------------------------- MODULE MCWaAgg ------------------------------
(* Instances of WaAgg for TLC.                                             *)
EXTENDS WaAgg, TLC

Symmetric == Permutations(Diags)
=============================================================================
