----------------------------- MODULE ThreadMsgMC -----------------------------
(* Instances of ThreadMsg for TLC. *)
EXTENDS ThreadMsg, TLC

CONSTANTS t1, t2, o1, o2, o3

TwoThreads == {t1, t2}
TwoOps == {o1, o2}
ThreeOps == {o1, o2, o3}
OkResult == {"ok"}

(* Threads and operations are interchangeable; for safety runs only.       *)
Symmetry == Permutations(TwoThreads) \cup Permutations(ThreeOps)
===============================================================================
