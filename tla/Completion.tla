------------------------------ MODULE Completion ------------------------------
(***************************************************************************)
(* The completion pair of spdk-io/src/complete.rs: the bridge between a C  *)
(* callback and a Rust future.  Every asynchronous operation `o' owns one  *)
(* pair.  The sender half is boxed and handed to C as a raw pointer; the   *)
(* receiver half is the future the caller awaits; `slot' is the value the  *)
(* oneshot channel between the two halves holds.                           *)
(*                                                                         *)
(* An operator whose name starts with Slip is a seeded fault: a plausible  *)
(* slip in the definition that follows it, which the properties must       *)
(* notice.  No specification uses it.                                      *)
(*                                                                         *)
(* The operators below are action fragments: each one determines tx', rx'  *)
(* and slot' (Deliver leaves rx' to the caller) and leaves the rest to the *)
(* module that EXTENDS this one.                                           *)
(***************************************************************************)

CONSTANTS
    Ops,      \* the operations of a behaviour, one completion pair each
    Results,  \* the values a sender delivers (an Ok value or an error)
    None      \* no value

ASSUME NoneAssumption == None \notin Results /\ None \notin Ops

VARIABLES
    tx,    \* where the sender half is: see SenderStates
    rx,    \* what became of the receiver half: see ReceiverStates
    slot   \* the value sent and not lost, or None

completionVars == <<tx, rx, slot>>

(* "owned": a Rust value (a local, or captured by a closure); "raw": a box *)
(* reachable only through the pointer given to C; "gone": consumed by a    *)
(* send, or dropped.                                                       *)
SenderStates == {"none", "owned", "raw", "gone"}

(* "waiting": the future exists and has not returned Ready; "resolved": it *)
(* did; "dropped": the caller gave it up before.                           *)
ReceiverStates == {"none", "waiting", "resolved", "dropped"}

CompletionType ==
    /\ tx \in [Ops -> SenderStates]
    /\ rx \in [Ops -> ReceiverStates]
    /\ slot \in [Ops -> Results \cup {None}]

CompletionInit ==
    /\ tx = [o \in Ops |-> "none"]
    /\ rx = [o \in Ops |-> "none"]
    /\ slot = [o \in Ops |-> None]

-------------------------------------------------------------------------------
SlipNewPair(o, where) ==  \* the halves of the channel taken in the wrong order
    /\ tx' = [tx EXCEPT ![o] = "waiting"]
    /\ rx' = [rx EXCEPT ![o] = where]
    /\ UNCHANGED slot

(* completion(): a fresh pair, its sender kept in Rust (where = "owned")   *)
(* or turned at once into the context pointer of a C call (where = "raw"). *)
NewPair(o, where) ==
    /\ tx' = [tx EXCEPT ![o] = where]
    /\ rx' = [rx EXCEPT ![o] = "waiting"]
    /\ UNCHANGED slot

SlipDeliver(o, r) ==  \* the box is read, not consumed
    /\ UNCHANGED tx
    /\ slot' = [slot EXCEPT ![o] = IF rx[o] = "waiting" THEN r ELSE @]

(* CompletionSender::complete / success / error: the value reaches the     *)
(* channel only while the receiver exists; the send error is ignored.      *)
Deliver(o, r) ==
    /\ tx' = [tx EXCEPT ![o] = "gone"]
    /\ slot' = [slot EXCEPT ![o] = IF rx[o] = "waiting" THEN r ELSE @]

SlipReadyEarly(o) ==  \* a sender that is not in C counts as closed
    rx[o] = "waiting" /\ (slot[o] # None \/ tx[o] # "raw")
SlipReadyNever(o) ==  \* a value counts only while its sender lives
    rx[o] = "waiting" /\ slot[o] # None /\ tx[o] # "gone"

(* CompletionReceiver::poll returns Ready when a value is in the slot, or, *)
(* with Error::Cancelled, when the sender is gone without having sent one. *)
Ready(o) == rx[o] = "waiting" /\ (slot[o] # None \/ tx[o] = "gone")

SlipOutcome(o, Cancelled) ==  \* a closed channel hides the value in it
    IF tx[o] = "gone" THEN Cancelled ELSE slot[o]

(* What a Ready poll returns; Cancelled is the outcome of a closed slot.   *)
Outcome(o, Cancelled) == IF slot[o] # None THEN slot[o] ELSE Cancelled

(* The await returns and consumes the receiver.                            *)
Resolve(o) ==
    /\ Ready(o)
    /\ rx' = [rx EXCEPT ![o] = "resolved"]
    /\ UNCHANGED <<tx, slot>>

(* The future is dropped while it waits.                                   *)
DropReceiver(o) ==
    /\ rx[o] = "waiting"
    /\ rx' = [rx EXCEPT ![o] = "dropped"]
    /\ UNCHANGED <<tx, slot>>
===============================================================================
