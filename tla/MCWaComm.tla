------------------------------- MODULE MCWaComm -----------------------------
(* Instances of WaComm for TLC.                                            *)
EXTENDS WaComm, TLC

Symmetric == Permutations(Data)
=============================================================================
