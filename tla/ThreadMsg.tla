------------------------------ MODULE ThreadMsg ------------------------------
(***************************************************************************)
(* Cross-thread messages of spdk-io: SpdkThread, ThreadHandle::send and    *)
(* call (spdk-io/src/thread.rs) and block_on (spdk-io/src/complete.rs).    *)
(*                                                                         *)
(* Each member of Threads is an OS thread that owns one SpdkThread.  An    *)
(* operation o is one use of a ThreadHandle: a closure, boxed and sent to  *)
(* the thread target[o]; a `call' also has a completion pair.  A closure   *)
(* is user code on the target: it may send, and (ClosuresPoll) it may      *)
(* itself poll or block_on, so a thread has a stack of activations.        *)
(*                                                                         *)
(* spdk_thread_poll, spdk_thread_send_msg and spdk_thread_exit are C and   *)
(* external: a poll dequeues a batch into a local array and runs it; an    *)
(* exiting thread becomes exited at the end of a poll that leaves its      *)
(* message ring empty.  SPDK's 5 s limit on exiting is left out.           *)
(***************************************************************************)
EXTENDS Completion, Integers, Sequences, FiniteSets

CONSTANTS
    Threads,        \* OS threads, each with one SpdkThread
    PoolSize,       \* messages in the mempool of the thread library
    Cached,         \* how many of them other threads' caches may withhold
    Batch,          \* messages one spdk_thread_poll dequeues at most
    HandleScope,    \* until when callers use a handle: see HandleUsable
    ClosuresPoll,   \* when a closure may poll its thread (block_on, poll)
    CarryReceivers  \* a closure may be sent with the receiver of an earlier call

ASSUME PoolAssumption == PoolSize \in Nat \ {0} /\ Cached \in Nat
ASSUME BatchAssumption == Batch \in Nat \ {0}
ASSUME DisciplineAssumption ==
    /\ HandleScope \in {"any", "owned", "running"}
    /\ ClosuresPoll \in {"never", "running", "any"}
    /\ CarryReceivers \in BOOLEAN
ASSUME OkAssumption == "ok" \in Results
ASSUME ThreadsAssumption == None \notin Threads /\ Threads \cap Ops = {}

VARIABLES
    life,      \* [Threads -> LifeStates]: state of the SpdkThread
    queue,     \* [Threads -> Seq(Ops)]: the message ring, oldest first
    stack,     \* [Threads -> Seq(Frame)]: activations, innermost first
    status,    \* [Ops -> OpStates]: what became of the boxed closure
    sender,    \* [Ops -> Threads \cup {None}]: the thread that is sending it
    target,    \* [Ops -> Threads \cup {None}]: the thread its handle names
    holder,    \* [Ops -> Threads \cup Ops \cup {None}]: the user code that owns
               \* the receiver of a call: the base of a thread, or a closure
    accepted   \* history: the operations in the order their rings took them

threadVars == <<life, queue, stack>>
opVars == <<status, sender, target, holder, accepted>>
vars == <<threadVars, opVars, completionVars>>

LifeStates == {"running", "exiting", "exited", "destroyed"}

(* "sending": inside spdk_thread_send_msg; "queued": in the target's ring; *)
(* "batched": dequeued by a poll and not started; "running", "done": its   *)
(* box reclaimed by msg_callback; "leaked": refused by SPDK, the box never *)
(* freed; "dangling": sent through a pointer to a destroyed thread.        *)
OpStates == {"idle", "sending", "queued", "batched", "running", "done",
             "leaked", "dangling"}

(* A "poll" frame is one spdk_thread_poll: the closure it is running and   *)
(* the messages it has dequeued; a "block_on" frame waits for op; a "drop" *)
(* frame is SpdkThread::drop.                                              *)
Frame == [kind : {"poll", "block_on", "drop"},
          op : Ops \cup {None},
          batch : Seq(Ops)]

PollFrame(msgs) == [kind |-> "poll", op |-> None, batch |-> msgs]
BlockOnFrame(o) == [kind |-> "block_on", op |-> o, batch |-> <<>>]
DropFrame == [kind |-> "drop", op |-> None, batch |-> <<>>]

TypeOK ==
    /\ CompletionType
    /\ life \in [Threads -> LifeStates]
    /\ queue \in [Threads -> Seq(Ops)]
    /\ stack \in [Threads -> Seq(Frame)]
    /\ status \in [Ops -> OpStates]
    /\ sender \in [Ops -> Threads \cup {None}]
    /\ target \in [Ops -> Threads \cup {None}]
    /\ holder \in [Ops -> Threads \cup Ops \cup {None}]
    /\ accepted \in Seq(Ops)

Init ==
    /\ CompletionInit
    /\ life = [t \in Threads |-> "running"]
    /\ queue = [t \in Threads |-> <<>>]
    /\ stack = [t \in Threads |-> <<>>]
    /\ status = [o \in Ops |-> "idle"]
    /\ sender = [o \in Ops |-> None]
    /\ target = [o \in Ops |-> None]
    /\ holder = [o \in Ops |-> None]
    /\ accepted = <<>>

-------------------------------------------------------------------------------
Top(t) == stack[t][1]
On(t, kind) == stack[t] # <<>> /\ Top(t).kind = kind
Push(t, frame) == stack' = [stack EXCEPT ![t] = <<frame>> \o @]
Pop(t) == stack' = [stack EXCEPT ![t] = Tail(@)]

MidSend(t) == \E o \in Ops : status[o] = "sending" /\ sender[o] = t

InClosure(t) == On(t, "poll") /\ Top(t).op # None

(* The code of the crate's user runs: at the base of the OS thread, or in  *)
(* a closure, and not inside a send.                                       *)
InUserCode(t) == (stack[t] = <<>> \/ InClosure(t)) /\ ~MidSend(t)

Running(t) == IF InClosure(t) THEN Top(t).op ELSE t

SlipHoldsReceiver(t, o) == rx[o] = "waiting"  \* anybody's receiver

(* The code that runs on t owns the receiver of the call o.                *)
HoldsReceiver(t, o) == rx[o] = "waiting" /\ holder[o] = Running(t)

(* User code holds the SpdkThread, or the CurrentThread of a closure; as   *)
(* a discipline, a closure does not poll a thread that is being dropped    *)
(* (ClosuresPoll = "running"), or never polls.                             *)
MayPoll(t) ==
    /\ InUserCode(t)
    /\ \/ life[t] = "running" /\ (InClosure(t) => ClosuresPoll # "never")
       \/ InClosure(t) /\ ClosuresPoll = "any"

(* A ThreadHandle is a raw pointer and outlives its SpdkThread.  Callers   *)
(* may use it at "any" time; or (the joins of thread_test.rs) only while   *)
(* the owner has not begun to drop the thread, either with ("owned") or    *)
(* without ("running") the closures that run on the thread meanwhile.      *)
HandleUsable(t, u) ==
    \/ HandleScope = "any"
    \/ life[u] = "running"
    \/ HandleScope = "owned" /\ u = t /\ life[u] # "destroyed"

InFlight == {o \in Ops : status[o] \in {"queued", "batched", "running"}}

-------------------------------------------------------------------------------
(* ThreadHandle::send and call up to the check of the target's state in    *)
(* spdk_thread_send_msg.  `call' captures the sender half in the closure;  *)
(* the closure may also take along a receiver its sender owns.             *)
SendBegin(t, u, o, isCall, carried) ==
    /\ InUserCode(t)
    /\ HandleUsable(t, u)
    /\ status[o] = "idle"
    /\ carried # None => CarryReceivers /\ HoldsReceiver(t, carried)
    /\ status' = [status EXCEPT ![o] =
           CASE life[u] = "destroyed" -> "dangling"
             [] life[u] = "exited" -> "leaked"
             [] OTHER -> "sending"]
    /\ sender' = [sender EXCEPT ![o] = IF life[u] \in {"destroyed", "exited"} THEN None ELSE t]
    /\ target' = [target EXCEPT ![o] = u]
    /\ holder' = [p \in Ops |->
           CASE p = o /\ isCall -> Running(t)
             [] p = carried -> o
             [] OTHER -> holder[p]]
    /\ IF isCall THEN NewPair(o, "owned") ELSE UNCHANGED completionVars
    /\ UNCHANGED <<threadVars, accepted>>

SlipEnqueueTwice(ring, o) == ring \o <<o, o>>  \* a retry of a send that went through
SlipEnqueueFirst(ring, o) == <<o>> \o ring     \* sent as a critical message

(* A message goes to the end of the ring, once. *)
Enqueue(ring, o) == Append(ring, o)

(* The rest of spdk_thread_send_msg: a message from the pool, of which the *)
(* caches of other threads may withhold some, then the ring.  Its return   *)
(* code is discarded, so a refusal leaks the closure.                      *)
SendEnd(o) ==
    /\ status[o] = "sending"
    /\ LET u == target[o] IN
       \/ /\ life[u] = "destroyed"
          /\ status' = [status EXCEPT ![o] = "dangling"]
          /\ UNCHANGED <<queue, accepted>>
       \/ /\ life[u] # "destroyed"
          /\ Cardinality(InFlight) + Cached >= PoolSize
          /\ status' = [status EXCEPT ![o] = "leaked"]
          /\ UNCHANGED <<queue, accepted>>
       \/ /\ life[u] # "destroyed"
          /\ Cardinality(InFlight) < PoolSize
          /\ status' = [status EXCEPT ![o] = "queued"]
          /\ queue' = [queue EXCEPT ![u] = Enqueue(@, o)]
          /\ accepted' = Append(accepted, o)
    /\ sender' = [sender EXCEPT ![o] = None]
    /\ UNCHANGED <<life, stack, target, holder, completionVars>>

BatchLen(t, n) == IF n < Len(queue[t]) THEN n ELSE Len(queue[t])

(* What a dequeue of up to n messages takes from the ring, and leaves.     *)
Taken(t, n) == SubSeq(queue[t], 1, BatchLen(t, n))

Left(t, n) == SubSeq(queue[t], BatchLen(t, n) + 1, Len(queue[t]))

SlipExited(t) == life[t] \in {"exiting", "exited"}  \* drop does not poll until exited

(* spdk_thread_is_exited, the condition of the loop of drop.               *)
Exited(t) == life[t] = "exited"

(* The Pending branch of block_on, and the loop of drop.                   *)
KeepsPolling(t) ==
    \/ On(t, "block_on") /\ ~Ready(Top(t).op)
    \/ On(t, "drop") /\ ~Exited(t)

(* spdk_thread_poll dequeues up to n messages.  The owner of the thread    *)
(* may choose n with poll_max; poll and CurrentThread::poll, and with them *)
(* the loops of block_on and drop, let SPDK take a whole batch.            *)
PollBegin(t, n) ==
    /\ MayPoll(t) \/ KeepsPolling(t)
    /\ n = Batch \/ stack[t] = <<>>
    /\ Push(t, PollFrame(Taken(t, n)))
    /\ queue' = [queue EXCEPT ![t] = Left(t, n)]
    /\ status' = [o \in Ops |->
           IF \E i \in 1..BatchLen(t, n) : Taken(t, n)[i] = o THEN "batched" ELSE status[o]]
    /\ UNCHANGED <<life, sender, target, holder, accepted, completionVars>>

(* msg_callback takes the closure out of its box and calls it.             *)
RunMsg(t) ==
    /\ On(t, "poll") /\ Top(t).op = None /\ Top(t).batch # <<>>
    /\ LET o == Head(Top(t).batch) IN
       /\ stack' = [stack EXCEPT ![t] =
              <<[kind |-> "poll", op |-> o, batch |-> Tail(Top(t).batch)]>> \o Tail(@)]
       /\ status' = [status EXCEPT ![o] = "running"]
    /\ UNCHANGED <<life, queue, sender, target, holder, accepted, completionVars>>

(* The closure returns: the receivers it still owns are dropped with it;   *)
(* the closure of a `call' ends with tx.success.                           *)
FinishMsg(t) ==
    /\ InClosure(t) /\ ~MidSend(t)
    /\ LET o == Top(t).op IN
       /\ stack' = [stack EXCEPT ![t] = <<PollFrame(Top(t).batch)>> \o Tail(@)]
       /\ status' = [status EXCEPT ![o] = "done"]
       /\ rx' = [p \in Ops |->
              IF rx[p] = "waiting" /\ holder[p] = o THEN "dropped" ELSE rx[p]]
       /\ holder' = [p \in Ops |-> IF holder[p] = o THEN None ELSE holder[p]]
       /\ IF tx[o] = "owned" THEN Deliver(o, "ok") ELSE UNCHANGED <<tx, slot>>
    /\ UNCHANGED <<life, queue, sender, target, accepted>>

(* thread_exit (external), at the end of a poll of an exiting thread.      *)
MayExit(t) == life[t] = "exiting" /\ queue[t] = <<>>

(* The poll returns. *)
PollEnd(t) ==
    /\ On(t, "poll") /\ Top(t).op = None /\ Top(t).batch = <<>>
    /\ Pop(t)
    /\ life' = [life EXCEPT ![t] = IF MayExit(t) THEN "exited" ELSE @]
    /\ UNCHANGED <<queue, opVars, completionVars>>

-------------------------------------------------------------------------------
(* block_on takes the future by value and polls it first; PollBegin is the *)
(* Pending branch of its loop and BlockOnReturn the Ready branch.          *)
BlockOn(t, o) ==
    /\ MayPoll(t)
    /\ HoldsReceiver(t, o)
    /\ Push(t, BlockOnFrame(o))
    /\ holder' = [holder EXCEPT ![o] = None]
    /\ UNCHANGED <<life, queue, status, sender, target, accepted, completionVars>>

BlockOnReturn(t) ==
    /\ On(t, "block_on")
    /\ Resolve(Top(t).op)
    /\ Pop(t)
    /\ UNCHANGED <<life, queue, opVars>>

(* The caller drops the CompletionReceiver of a call without awaiting it.  *)
ForgetCall(t, o) ==
    /\ InUserCode(t)
    /\ HoldsReceiver(t, o)
    /\ DropReceiver(o)
    /\ holder' = [holder EXCEPT ![o] = None]
    /\ UNCHANGED <<threadVars, status, sender, target, accepted>>

SlipRequestExit(t) == UNCHANGED life  \* nobody calls spdk_thread_exit

(* spdk_thread_exit. *)
RequestExit(t) == life' = [life EXCEPT ![t] = "exiting"]

(* SpdkThread::drop calls spdk_thread_exit, polls until the thread has     *)
(* exited (PollBegin, KeepsPolling), and destroys it.                      *)
DropBegin(t) ==
    /\ stack[t] = <<>> /\ life[t] = "running" /\ ~MidSend(t)
    /\ HandleScope # "any" => ~\E o \in Ops : status[o] = "sending" /\ target[o] = t
    /\ Push(t, DropFrame)
    /\ RequestExit(t)
    /\ UNCHANGED <<queue, opVars, completionVars>>

DropEnd(t) ==
    /\ On(t, "drop") /\ Exited(t)
    /\ Pop(t)
    /\ life' = [life EXCEPT ![t] = "destroyed"]
    /\ UNCHANGED <<queue, opVars, completionVars>>

(* Every SpdkThread is gone: the program may stop.                         *)
Terminated == (\A t \in Threads : life[t] = "destroyed") /\ UNCHANGED vars

Next ==
    \/ \E t, u \in Threads, o \in Ops, isCall \in BOOLEAN, carried \in Ops \cup {None} :
           SendBegin(t, u, o, isCall, carried)
    \/ \E o \in Ops : SendEnd(o)
    \/ \E t \in Threads, n \in 1..Batch : PollBegin(t, n)
    \/ \E t \in Threads : RunMsg(t) \/ FinishMsg(t) \/ PollEnd(t)
    \/ \E t \in Threads, o \in Ops : BlockOn(t, o) \/ ForgetCall(t, o)
    \/ \E t \in Threads : BlockOnReturn(t) \/ DropBegin(t) \/ DropEnd(t)
    \/ Terminated

(* The steps an OS thread takes without a choice of its user: it finishes  *)
(* a send, a poll, a closure, and goes round the loops of block_on and     *)
(* drop; and it drops its SpdkThread when it leaves the owner's scope.     *)
ThreadStep(t) ==
    \/ \E o \in Ops : sender[o] = t /\ SendEnd(o)
    \/ ~MayPoll(t) /\ PollBegin(t, Batch)
    \/ RunMsg(t) \/ FinishMsg(t) \/ PollEnd(t)
    \/ BlockOnReturn(t) \/ DropBegin(t) \/ DropEnd(t)

Spec == Init /\ [][Next]_vars

(* An OS thread that can go on does so, and a closure does not keep itself *)
(* busy for ever with polls of its own.                                    *)
FairSpec == Spec /\ \A t \in Threads : WF_vars(ThreadStep(t)) /\ SF_vars(FinishMsg(t))
-------------------------------------------------------------------------------
(***************************************************************************)
(* Safety.                                                                 *)
(***************************************************************************)

(* thread.rs:611-616: msg_callback turns the context pointer back into a   *)
(* box, so SPDK must hand it each pointer once and on the target thread.   *)
(* A message is therefore in one place only, and that place is its         *)
(* target's: its ring, the local batch of one of its polls, or running.    *)
RingPlace ==
    \A t \in Threads : \A i \in 1..Len(queue[t]) :
        /\ status[queue[t][i]] = "queued" /\ target[queue[t][i]] = t
        /\ \A j \in 1..Len(queue[t]) : queue[t][i] = queue[t][j] => i = j

BatchPlace ==
    \A t \in Threads : \A k \in 1..Len(stack[t]) : \A i \in 1..Len(stack[t][k].batch) :
        /\ status[stack[t][k].batch[i]] = "batched" /\ target[stack[t][k].batch[i]] = t
        /\ \A l \in 1..Len(stack[t]) : \A j \in 1..Len(stack[t][l].batch) :
               stack[t][k].batch[i] = stack[t][l].batch[j] => k = l /\ i = j

RunningPlace ==
    \A t \in Threads : \A k \in 1..Len(stack[t]) :
        (stack[t][k].kind = "poll" /\ stack[t][k].op # None) =>
            /\ status[stack[t][k].op] = "running" /\ target[stack[t][k].op] = t
            /\ \A l \in 1..Len(stack[t]) :
                   (stack[t][l].kind = "poll" /\ stack[t][l].op = stack[t][k].op) => k = l

OnePlace == RingPlace /\ BatchPlace /\ RunningPlace

(* The box of a closure is reclaimed at most once: a closure that started  *)
(* only finishes, one that finished never starts again (thread.rs:613 is   *)
(* a double free otherwise), and one that was refused never runs.          *)
ReclaimedOnce ==
    [][\A o \in Ops :
          /\ status[o] = "running" => status'[o] \in {"running", "done"}
          /\ status[o] \in {"done", "leaked", "dangling"} => status'[o] = status[o]]_vars

(* SpdkThread::drop (thread.rs:420-443): once a thread is destroyed, every *)
(* closure its ring accepted has run, those that closures sent to their    *)
(* own thread while it drained included.  Needs HandleScope # "any".       *)
DrainedOnDrop ==
    \A o \in Ops : (target[o] # None /\ life[target[o]] = "destroyed") =>
        status[o] \in {"done", "leaked"}

(* ThreadHandle::call (thread.rs:576-597): the future yields a value only  *)
(* when the closure has run to its end on the target, never Cancelled; and *)
(* a closure that waited for nothing else has delivered its value.         *)
ReplyMeansRan ==
    \A o \in Ops :
        /\ rx[o] = "resolved" => slot[o] = "ok"
        /\ slot[o] # None => status[o] = "done"
        /\ (rx[o] = "waiting" /\ status[o] = "done") => slot[o] = "ok"

Started(o) == status[o] \in {"running", "done"}

(* The poll that has dequeued o is not the innermost one: its closure      *)
(* polls.                                                                  *)
Overtaken(o) ==
    \E k \in 2..Len(stack[target[o]]) :
        \E i \in 1..Len(stack[target[o]][k].batch) : stack[target[o]][k].batch[i] = o

(* Messages to one thread start in the order its ring took them.  The only *)
(* way to overtake is a poll from inside a closure: it starts messages     *)
(* that arrived after those the outer polls have already dequeued.         *)
InOrderUnlessNested ==
    [][\A i, j \in 1..Len(accepted) :
          (/\ i < j /\ target[accepted[i]] = target[accepted[j]]
           /\ ~Started(accepted[j]) /\ status'[accepted[j]] \in {"running", "done"})
              => Started(accepted[i]) \/ Overtaken(accepted[i])]_vars

(* block_on in a closure nests a poll inside a poll.  A thread is buried   *)
(* in a wait when the closure it waits for sits under a block_on in the    *)
(* stack of its target.  Threads that wait for each other like that would  *)
(* poll for ever; it cannot happen while a closure waits only for calls it *)
(* made itself (~CarryReceivers), however many of them nest.               *)
BuriedIn(t, u) ==
    /\ On(t, "block_on") /\ ~Ready(Top(t).op) /\ On(u, "block_on")
    /\ \E k \in 1..Len(stack[u]) :
          \/ stack[u][k].kind = "poll" /\ stack[u][k].op = Top(t).op
          \/ \E i \in 1..Len(stack[u][k].batch) : stack[u][k].batch[i] = Top(t).op

NoWaitCycle ==
    ~\E S \in (SUBSET Threads) \ {{}} : \A t \in S : \E u \in S : BuriedIn(t, u)

(***************************************************************************)
(* Liveness, under FairSpec.                                               *)
(***************************************************************************)

(* thread.rs:561: "The closure will run when the target thread is next     *)
(* polled", and a thread is polled at the latest when it is dropped.       *)
SentClosureRuns == \A o \in Ops : status[o] = "sending" ~> status[o] = "done"

(* complete.rs:113: block_on runs the future of a call to completion, even *)
(* when two threads wait for each other's answer.                          *)
BlockOnReturns ==
    \A t \in Threads, o \in Ops :
        (\E i \in 1..Len(stack[t]) : stack[t][i] = BlockOnFrame(o)) ~> rx[o] = "resolved"

(* SpdkThread::drop (thread.rs:420-443) returns.                           *)
DropReturns ==
    \A t \in Threads :
        (\E i \in 1..Len(stack[t]) : stack[t][i] = DropFrame) ~> life[t] = "destroyed"
===============================================================================
