------------------------------- MODULE NvmeIoMC -------------------------------
(* Instances of NvmeIo for TLC. *)
EXTENDS NvmeIo, TLC

CONSTANTS o1, o2, q1, q2, b1, b2

TwoOps == {o1, o2}
TwoQpairs == {q1, q2}
TwoBufs == {b1, b2}
Depths == (q1 :> 1 @@ q2 :> 2)
SomeErrnos == {ENOMEM, 22}

(* Success with the phase tag set; a generic error and a media error with  *)
(* the do-not-retry bit.                                                   *)
SomeStatuses == {[p |-> 1, sc |-> 0, sct |-> 0, hint |-> 0],
                 [p |-> 0, sc |-> 128, sct |-> 0, hint |-> 0],
                 [p |-> 1, sc |-> 0, sct |-> 2, hint |-> 8]}
SomeResults == {Meaning(s) : s \in SomeStatuses \cup {Aborted}}
                   \cup {Os(e) : e \in SomeErrnos} \cup {Cancelled}
===============================================================================
