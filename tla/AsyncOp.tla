-------------------------------- MODULE AsyncOp --------------------------------
(***************************************************************************)
(* What one asynchronous operation of spdk-io promises its caller (the     *)
(* "Async/await for I/O" of docs/design/README.md), without boxes, raw     *)
(* pointers and callbacks: the caller gets, once and unchanged, the        *)
(* verdict of the target (the device, or the thread that runs the          *)
(* closure), or the refusal of the submission, unless it gives the future  *)
(* up first.                                                               *)
(***************************************************************************)
CONSTANTS Verdicts, NoVerdict

VARIABLES
    phase,    \* one of Phases
    verdict   \* what the caller is told, or will be: in Verdicts, or NoVerdict

asyncVars == <<phase, verdict>>

Phases == {"idle", "pending", "decided", "returned", "cancelled"}

AsyncInit == phase = "idle" /\ verdict = NoVerdict

(* The operation is submitted. *)
Begin == phase = "idle" /\ phase' = "pending" /\ UNCHANGED verdict

(* The submission fails, or is answered, before the first poll returns. *)
Refuse == phase = "idle" /\ phase' = "returned" /\ verdict' \in Verdicts

(* The target has done its work and says how it went. *)
Decide == phase = "pending" /\ phase' = "decided" /\ verdict' \in Verdicts

(* The await returns what the target said. *)
Return == phase = "decided" /\ phase' = "returned" /\ UNCHANGED verdict

(* The caller drops the future: what the target says is lost. *)
Cancel ==
    /\ phase \in {"idle", "pending", "decided"}
    /\ phase' = "cancelled"
    /\ verdict' = NoVerdict

AsyncNext == Begin \/ Refuse \/ Decide \/ Return \/ Cancel

(* What a step of a module that has many operations does to this one. *)
AsyncStep == AsyncNext \/ UNCHANGED asyncVars

(* A submitted operation is answered, unless it is given up. *)
Answered == phase \in {"pending", "decided"} ~> phase \in {"returned", "cancelled"}
===============================================================================
