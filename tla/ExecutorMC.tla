------------------------------ MODULE ExecutorMC ------------------------------
(* Instances of Executor for TLC. *)
EXTENDS Executor

CONSTANTS o1, o2, o3, t1, t2

ThreeOps == {o1, o2, o3}
TwoTasks == {t1, t2}
Iters == {0, 2}
OkOnly == {"ok"}

(* Operations are interchangeable, and so are tasks: each behaviour is, up *)
(* to their names, one that starts them in order, the first one in t1.     *)
InOrder ==
    /\ io[o1] = "none" => io[o2] = "none"
    /\ io[o2] = "none" => io[o3] = "none"
    /\ owner[o1] # t2
===============================================================================
