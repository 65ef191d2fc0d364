----------------------------- MODULE LifecycleMC -----------------------------
(* Instances of Lifecycle for TLC. *)
EXTENDS Lifecycle, TLC

CONSTANTS p1, p2, p3, s1, s2, s3, s4

TwoProcs == {p1, p2}
ThreeProcs == {p1, p2, p3}
ThreeObjs == {s1, s2, s3}
FourObjs == {s1, s2, s3, s4}
Symmetry == Permutations(FourObjs)
===============================================================================
