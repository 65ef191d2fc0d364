-------------------------------- MODULE NvmfMC --------------------------------
(* Instances of Nvmf for TLC. *)
EXTENDS Nvmf

CONSTANTS o1, o2, o3, s1, t1, t2, a1, n1

ThreeOps == {o1, o2, o3}
OneSub == {s1}
TwoTransports == {t1, t2}
OneAddr == {a1}
OneBdev == {n1}
EIo == {5}
SomeResults == {Ok, Cancelled} \cup {Os(e) : e \in EIo \cup {EAGAIN, EEXIST, EINVAL}}

(* Operations and transports are interchangeable: each behaviour is, up to *)
(* their names, one that takes them in order.  Nothing but AddNamespace    *)
(* reads ns: behaviours with namespaces are followed to the first future.  *)
InOrder ==
    /\ ns[s1] # {} => \A o \in Ops : fut[o] = "none"
    /\ fut[o1] = "none" => fut[o2] = "none"
    /\ fut[o2] = "none" => fut[o3] = "none"
    /\ transport[t1] = "none" => transport[t2] = "none"
===============================================================================
