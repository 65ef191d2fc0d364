-------------------------------- MODULE EventMC --------------------------------
(* Instances of Event for TLC. *)
EXTENDS Event

CONSTANTS k1, k2, o1, o2, o3

TwoCores == {k1, k2}
ThreeOps == {o1, o2, o3}
OkResult == {"ok"}
===============================================================================
