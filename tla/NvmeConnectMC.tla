----------------------------- MODULE NvmeConnectMC -----------------------------
(* Instances of NvmeConnect for TLC. *)
EXTENDS NvmeConnect, TLC

CONSTANTS p1, p2, c1, c2, c3, c4

TwoProcs == {p1, p2}
FourCalls == {c1, c2, c3, c4}
Symmetry == Permutations(TwoProcs) \cup Permutations(FourCalls)
===============================================================================
