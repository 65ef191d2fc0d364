------------------------------- MODULE BdevIoMC -------------------------------
(* Instances of BdevIo for TLC. *)
EXTENDS BdevIo, TLC

CONSTANTS d1, d2, c1, b1, b2, o1, o2

TwoOps == {o1, o2}
OneDesc == {d1}
TwoDescs == {d1, d2}
OneChan == {c1}
TwoBufs == {b1, b2}
EInval == {22}
Symmetry == Permutations(TwoOps) \cup Permutations(TwoBufs) \cup Permutations(TwoDescs)
===============================================================================
