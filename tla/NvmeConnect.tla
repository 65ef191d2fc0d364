------------------------------ MODULE NvmeConnect ------------------------------
(***************************************************************************)
(* Connecting to NVMe controllers in spdk-io (nvme/controller.rs):         *)
(* connect, connect_async and the drop of an NvmeController.               *)
(*                                                                         *)
(* connect_async is a loop that polls the probe and, while it is pending,  *)
(* the SPDK thread of its OS thread; closures run by that poll may connect *)
(* too, so an OS thread has a stack of connects.  The callback that        *)
(* announces a controller gets no context: all connects of an OS thread    *)
(* pass their result through one thread-local cell.                        *)
(*                                                                         *)
(* The NVMe driver is external.  A controller is named after the call      *)
(* whose probe made it, and counts its references: a connect may find one  *)
(* that is attached already.  In that case attach_cb runs inside           *)
(* spdk_nvme_connect_async, and otherwise inside the very probe poll that  *)
(* returns 0.                                                              *)
(***************************************************************************)
EXTENDS Naturals, Sequences, FiniteSets

CONSTANTS
    Procs,   \* OS threads
    Calls,   \* the connects of a behaviour, and their controllers
    Nil      \* no value

ASSUME NilAssumption == Nil \notin Procs \cup Calls

VARIABLES
    stack,   \* [Procs -> Seq(Calls)]: connect_asyncs under way, innermost first
    place,   \* [Calls -> Places]
    cell,    \* [Procs -> Calls \cup {Nil}]: ATTACHED_CTRLR
    answer,  \* [Calls -> Calls \cup Errors \cup {Nil}]
    owned,   \* [Calls -> BOOLEAN]: the NvmeController returned is alive
    refs,    \* [Calls -> Nat]: references of SPDK's controllers
    gave     \* history: the controller the driver announced for a call

connectVars == <<stack, place, cell, answer, owned, refs, gave>>

(* "probing": about to poll the probe; "polling": inside thread.poll().    *)
Places == {"none", "probing", "polling", "returned"}
Errors == {"NotFound", "Os"}

ASSUME ErrorsAssumption == Calls \cap Errors = {} /\ Nil \notin Errors

ConnectType ==
    /\ stack \in [Procs -> Seq(Calls)]
    /\ place \in [Calls -> Places]
    /\ cell \in [Procs -> Calls \cup {Nil}]
    /\ answer \in [Calls -> Calls \cup Errors \cup {Nil}]
    /\ owned \in [Calls -> BOOLEAN]
    /\ refs \in [Calls -> Nat]
    /\ gave \in [Calls -> Calls \cup {Nil}]

ConnectInit ==
    /\ stack = [p \in Procs |-> <<>>]
    /\ place = [c \in Calls |-> "none"]
    /\ cell = [p \in Procs |-> Nil]
    /\ answer = [c \in Calls |-> Nil]
    /\ owned = [c \in Calls |-> FALSE]
    /\ refs = [c \in Calls |-> 0]
    /\ gave = [c \in Calls |-> Nil]

-------------------------------------------------------------------------------
(* User code runs on p: at the bottom, or in a closure that a poll runs.   *)
UserRuns(p) == stack[p] # <<>> => place[Head(stack[p])] = "polling"

SlipCell(p) == CHOOSE q \in Procs : TRUE  \* a plain static

(* thread_local! ATTACHED_CTRLR: the cell that code on p sees.             *)
Cell(p) == p

SlipCleared(p) == cell  \* the last result is not cleared
Cleared(p) == [cell EXCEPT ![Cell(p)] = Nil]

(* The driver announces controller k for call c: attach_cb on cells m.     *)
Announce(c, k, p, m) ==
    /\ cell' = [m EXCEPT ![Cell(p)] = k]
    /\ refs' = [refs EXCEPT ![k] = @ + 1]
    /\ gave' = [gave EXCEPT ![c] = k]

Returns(c, value) ==
    /\ place' = [place EXCEPT ![c] = "returned"]
    /\ answer' = [answer EXCEPT ![c] = value]
    /\ owned' = [owned EXCEPT ![c] = value \in Calls]

-------------------------------------------------------------------------------
(* NvmeController::connect: spdk_nvme_connect waits inside C, and returns  *)
(* NULL, a new controller (k = c) or one that is attached already.         *)
ConnectSyncFails(p, c) ==
    /\ place[c] = "none" /\ UserRuns(p)
    /\ Returns(c, "NotFound")
    /\ UNCHANGED <<stack, cell, refs, gave>>

ConnectSync(p, c, k) ==
    /\ place[c] = "none" /\ UserRuns(p)
    /\ k # c => refs[k] > 0
    /\ Returns(c, k)
    /\ refs' = [refs EXCEPT ![k] = @ + 1]
    /\ gave' = [gave EXCEPT ![c] = k]
    /\ UNCHANGED <<stack, cell>>

(* connect_async up to its loop: the cell is cleared, then the probe       *)
(* starts.  It may be refused ...                                          *)
ConnectRefused(p, c) ==
    /\ place[c] = "none" /\ UserRuns(p)
    /\ cell' = Cleared(p)
    /\ Returns(c, "NotFound")
    /\ UNCHANGED <<stack, refs, gave>>

(* ... or be pending (k = Nil), or find a controller at once (k).          *)
Probe(c, k, p) ==
    IF k = Nil THEN cell' = Cleared(p) /\ UNCHANGED <<refs, gave>>
                ELSE refs[k] > 0 /\ Announce(c, k, p, Cleared(p))

ConnectStart(p, c, k) ==
    /\ place[c] = "none" /\ UserRuns(p)
    /\ Probe(c, k, p)
    /\ stack' = [stack EXCEPT ![p] = <<c>> \o @]
    /\ place' = [place EXCEPT ![c] = "probing"]
    /\ UNCHANGED <<answer, owned>>

(* Without a current SPDK thread it returns early, and the probe, with     *)
(* what it announced, is left to nobody.  In a closure there is one.       *)
ConnectNoThread(p, c, k) ==
    /\ place[c] = "none" /\ stack[p] = <<>>
    /\ Probe(c, k, p)
    /\ Returns(c, "Os")
    /\ UNCHANGED stack

-------------------------------------------------------------------------------
Probing(p) == stack[p] # <<>> /\ place[Head(stack[p])] = "probing"

(* rc = -EAGAIN: thread.poll() ...                                         *)
ProbeAgain(p) ==
    /\ Probing(p) /\ gave[Head(stack[p])] = Nil
    /\ place' = [place EXCEPT ![Head(stack[p])] = "polling"]
    /\ UNCHANGED <<stack, cell, answer, owned, refs, gave>>

(* ... until it returns. *)
PollReturns(p) ==
    /\ stack[p] # <<>> /\ place[Head(stack[p])] = "polling"
    /\ place' = [place EXCEPT ![Head(stack[p])] = "probing"]
    /\ UNCHANGED <<stack, cell, answer, owned, refs, gave>>

(* The loop is left and the result taken from the cells m.                 *)
Take(p, c, m) ==
    /\ cell' = [m EXCEPT ![Cell(p)] = Nil]
    /\ Returns(c, IF m[Cell(p)] # Nil THEN m[Cell(p)] ELSE "NotFound")

(* rc = 0: the probe is over; either its controller came up in this poll,  *)
ProbeAttaches(p) ==
    LET c == Head(stack[p]) IN
    /\ Probing(p) /\ gave[c] = Nil
    /\ refs' = [refs EXCEPT ![c] = 1]
    /\ gave' = [gave EXCEPT ![c] = c]
    /\ Take(p, c, [cell EXCEPT ![Cell(p)] = c])
    /\ stack' = [stack EXCEPT ![p] = Tail(@)]

(* or it failed, or was found at the start.                                *)
ProbeEnds(p) ==
    /\ Probing(p)
    /\ Take(p, Head(stack[p]), cell)
    /\ stack' = [stack EXCEPT ![p] = Tail(@)]
    /\ UNCHANGED <<refs, gave>>

(* Any other rc.                                                           *)
ProbeError(p) ==
    /\ Probing(p) /\ gave[Head(stack[p])] = Nil
    /\ Returns(Head(stack[p]), "Os")
    /\ stack' = [stack EXCEPT ![p] = Tail(@)]
    /\ UNCHANGED <<cell, refs, gave>>

(* NvmeController::drop: spdk_nvme_detach.  The value is Send: any thread. *)
DropController(c) ==
    /\ owned[c]
    /\ owned' = [owned EXCEPT ![c] = FALSE]
    /\ refs' = [refs EXCEPT ![answer[c]] = @ - 1]
    /\ UNCHANGED <<stack, place, cell, answer, gave>>

ConnectNext ==
    \/ \E p \in Procs, c \in Calls : ConnectSyncFails(p, c) \/ ConnectRefused(p, c)
    \/ \E p \in Procs, c, k \in Calls : ConnectSync(p, c, k)
    \/ \E p \in Procs, c \in Calls, k \in Calls \cup {Nil} :
           ConnectStart(p, c, k) \/ ConnectNoThread(p, c, k)
    \/ \E p \in Procs : ProbeAgain(p) \/ PollReturns(p)
    \/ \E p \in Procs : ProbeAttaches(p) \/ ProbeEnds(p) \/ ProbeError(p)
    \/ \E c \in Calls : DropController(c)

ConnectSpec == ConnectInit /\ [][ConnectNext]_connectVars
-------------------------------------------------------------------------------
(***************************************************************************)
(* Properties.                                                             *)
(***************************************************************************)

(* controller.rs:158: one cell "to capture the attached controller" serves *)
(* all connects of an OS thread; nested, failing and abandoned as they may *)
(* be, each returns the controller announced for it, and never another's.  *)
ResultIsOwn ==
    \A c \in Calls :
        /\ answer[c] \in Calls => answer[c] = gave[c]
        /\ answer[c] = "NotFound" => gave[c] = Nil

(* controller.rs:349: every NvmeController detaches once when it drops, so *)
(* each must own a reference of its own, and no reference may be without   *)
(* an owner once its connect has returned, an early return apart.          *)
RefsMatch ==
    \A k \in Calls :
        refs[k] = Cardinality({c \in Calls :
            \/ owned[c] /\ answer[c] = k
            \/ gave[c] = k /\ (place[c] # "returned" \/ answer[c] = "Os")})
===============================================================================
