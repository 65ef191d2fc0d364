------------------------------- MODULE Executor -------------------------------
(***************************************************************************)
(* Async tasks and an SPDK thread on one OS thread: the tasks of a local   *)
(* executor, among them the poller of spdk-io/src/poller.rs, and block_on  *)
(* (complete.rs) called from within a task.                                *)
(*                                                                         *)
(* Nothing is completed unless somebody polls the SPDK thread: the poller  *)
(* when the executor polls it, or block_on, during which the executor does *)
(* nothing.  A completion may also come from another thread at any time,   *)
(* when a closure sent with ThreadHandle::call ends there.                 *)
(*                                                                         *)
(* External: the executor.  Any will do that polls one task at a time and  *)
(* polls again each task that was woken, in any order; so is the oneshot   *)
(* channel, which keeps the waker of the last poll of its receiver.        *)
(***************************************************************************)
EXTENDS Completion, Naturals

CONSTANTS
    Tasks,     \* application tasks
    Poller,    \* the task that runs spdk_poller or spdk_poller_limited
    MaxIters   \* the arguments spdk_poller_limited may get; 0: spdk_poller

Everyone == Tasks \cup {Poller}

ASSUME TasksAssumption == Poller \notin Tasks /\ None \notin Everyone
ASSUME MaxItersAssumption == MaxIters \subseteq Nat
ASSUME OkAssumption == "ok" \in Results

VARIABLES
    ready,      \* SUBSET Everyone: the tasks the executor will poll
    current,    \* the task it is polling, or None
    finished,   \* the tasks that have returned
    limit,      \* what spdk_poller_limited was called with
    iters,      \* the iterations it has begun, if limit is not 0
    beat,       \* flips when the poller finds other work, which is a step
    owner,      \* [Ops -> Tasks \cup {None}]: who has the receiver
    waits,      \* [Tasks -> SUBSET Ops]: what the task awaits (one of)
    blocking,   \* SUBSET Ops: what its block_on waits for (one of)
    waker,      \* [Ops -> Tasks \cup {None}]: whom its completion wakes
    io          \* [Ops -> IoStates]

pollerVars == <<limit, iters, beat>>
taskVars == <<finished, owner, waits, blocking>>
vars == <<ready, current, pollerVars, taskVars, waker, io, completionVars>>

(* "posted": the next poll of the SPDK thread calls back; "remote": done   *)
(* by another thread.                                                      *)
IoStates == {"none", "submitted", "remote", "posted", "completed"}

TypeOK ==
    /\ CompletionType
    /\ ready \subseteq Everyone
    /\ current \in Everyone \cup {None}
    /\ finished \subseteq Everyone
    /\ limit \in MaxIters /\ iters \in 0 .. limit /\ beat \in BOOLEAN
    /\ owner \in [Ops -> Tasks \cup {None}]
    /\ waits \in [Tasks -> SUBSET Ops]
    /\ blocking \subseteq Ops
    /\ waker \in [Ops -> Tasks \cup {None}]
    /\ io \in [Ops -> IoStates]

Init ==
    /\ CompletionInit
    /\ ready = Everyone
    /\ current = None
    /\ finished = {}
    /\ limit \in MaxIters /\ iters = 0 /\ beat = FALSE
    /\ owner = [o \in Ops |-> None]
    /\ waits = [t \in Tasks |-> {}]
    /\ blocking = {}
    /\ waker = [o \in Ops |-> None]
    /\ io = [o \in Ops |-> "none"]

-------------------------------------------------------------------------------
Posted == {o \in Ops : io[o] = "posted"}
Held(t) == {o \in Ops : owner[o] = t /\ rx[o] = "waiting"}

SlipWoken(done) == {}  \* a sender that only stores its value

(* Whom the senders of the operations in done wake: a dropped receiver has *)
(* no waker, and waking the NoopWaker of block_on does nothing.            *)
Woken(done) == {waker[o] : o \in done} \ {None}

(* The callbacks of done: each sender comes back from C and delivers.      *)
Complete(done) ==
    /\ tx' = [o \in Ops |-> IF o \in done THEN "gone" ELSE tx[o]]
    /\ slot' = [o \in Ops |-> IF o \in done /\ rx[o] = "waiting" THEN "ok" ELSE slot[o]]
    /\ io' = [o \in Ops |-> IF o \in done THEN "completed" ELSE io[o]]

(* CompletionReceiver::poll of a receiver that is not ready: the channel   *)
(* keeps the waker it is polled with, in place of any other.               *)
Register(S, t) == [o \in Ops |-> IF o \in S THEN t ELSE waker[o]]

-------------------------------------------------------------------------------
(* The executor (external) polls a task that was woken.                    *)
Pick(p) ==
    /\ current = None /\ p \in ready
    /\ current' = p
    /\ ready' = ready \ {p}
    /\ UNCHANGED <<pollerVars, taskVars, waker, io, completionVars>>

(* The device, or the target of a message, is done.                        *)
Post(o) ==
    /\ io[o] = "submitted"
    /\ io' = [io EXCEPT ![o] = "posted"]
    /\ UNCHANGED <<ready, current, pollerVars, taskVars, waker, completionVars>>

(* The closure of a ThreadHandle::call completes it from its own thread.   *)
RemoteDone(o) ==
    /\ io[o] = "remote"
    /\ Complete({o})
    /\ ready' = ready \cup Woken({o})
    /\ waker' = [waker EXCEPT ![o] = None]
    /\ UNCHANGED <<rx, current, pollerVars, taskVars>>

(* SpdkThread::poll runs every callback that is due.                       *)
PollThread ==
    /\ Complete(Posted)
    /\ UNCHANGED rx

-------------------------------------------------------------------------------
SlipYieldNow == UNCHANGED ready /\ current' = None  \* Pending, and nobody woken

(* YieldNow::poll, the first time: it wakes its own task and is Pending;   *)
(* the second time, after the next Pick, it is Ready and the loop goes on. *)
YieldNow ==
    /\ ready' = ready \cup {Poller}
    /\ current' = None

(* One iteration of spdk_poller or spdk_poller_limited; `other' is work of *)
(* the SPDK thread that completes no operation.  Only a poll that finds    *)
(* nothing at all yields.                                                  *)
PollerIteration(other) ==
    /\ current = Poller
    /\ limit = 0 \/ iters < limit
    /\ PollThread
    /\ waker' = Register(Posted, None)
    /\ iters' = IF limit = 0 THEN 0 ELSE iters + 1
    /\ beat' = (beat # other)
    /\ IF Posted = {} /\ ~other
          THEN YieldNow
          ELSE ready' = ready \cup Woken(Posted) /\ UNCHANGED current
    /\ UNCHANGED <<limit, taskVars>>

(* spdk_poller_limited returns, whoever still waits.                       *)
PollerReturns ==
    /\ current = Poller
    /\ limit # 0 /\ iters = limit
    /\ current' = None
    /\ finished' = finished \cup {Poller}
    /\ UNCHANGED <<ready, pollerVars, owner, waits, blocking, waker, io, completionVars>>

-------------------------------------------------------------------------------
(* The code of task t runs: not in an await, not in block_on.              *)
Runs(t) == current = t /\ waits[t] = {} /\ blocking = {}

(* It begins an operation, here or on another thread, and has a receiver;  *)
(* a call gives it out unpolled.                                           *)
Start(t, o, where) ==
    /\ Runs(t)
    /\ io[o] = "none"
    /\ NewPair(o, "raw")
    /\ owner' = [owner EXCEPT ![o] = t]
    /\ io' = [io EXCEPT ![o] = where]
    /\ UNCHANGED <<ready, current, pollerVars, finished, waits, blocking, waker>>

(* It drops one of its futures. *)
Drop(t, o) ==
    /\ Runs(t) /\ o \in Held(t)
    /\ DropReceiver(o)
    /\ waker' = [waker EXCEPT ![o] = None]
    /\ UNCHANGED <<ready, current, pollerVars, taskVars, io>>

(* It awaits the first of some of them: ...                                *)
Await(t, S) ==
    /\ Runs(t) /\ S # {} /\ S \subseteq Held(t)
    /\ waits' = [waits EXCEPT ![t] = S]
    /\ UNCHANGED <<ready, current, pollerVars, finished, owner, blocking, waker, io, completionVars>>

(* ... polls them, now and when it is woken, and goes on when one is ready *)
(* (the rest it keeps), ...                                                *)
AwaitReturns(t, o) ==
    /\ current = t /\ o \in waits[t]
    /\ Resolve(o)
    /\ waits' = [waits EXCEPT ![t] = {}]
    /\ UNCHANGED <<ready, current, pollerVars, finished, owner, blocking, waker, io>>

(* ... or is Pending, with its own waker in each.                          *)
Park(t) ==
    /\ current = t /\ waits[t] # {}
    /\ \A o \in waits[t] : ~Ready(o)
    /\ waker' = Register(waits[t], t)
    /\ current' = None
    /\ UNCHANGED <<ready, pollerVars, taskVars, io, completionVars>>

(* block_on of the first of some of them, inside the task: ...             *)
BlockOn(t, S) ==
    /\ Runs(t) /\ S # {} /\ S \subseteq Held(t)
    /\ blocking' = S
    /\ UNCHANGED <<ready, current, pollerVars, finished, owner, waits, waker, io, completionVars>>

(* ... it polls them with a waker that does nothing, and polls the SPDK    *)
(* thread, until ...                                                       *)
BlockOnPolls ==
    /\ blocking # {}
    /\ \A o \in blocking : ~Ready(o)
    /\ PollThread
    /\ waker' = [o \in Ops |-> IF o \in Posted THEN None ELSE Register(blocking, None)[o]]
    /\ ready' = ready \cup Woken(Posted \ blocking)
    /\ UNCHANGED <<current, pollerVars, taskVars>>

(* ... one of them is ready.                                               *)
BlockOnReturns(o) ==
    /\ o \in blocking
    /\ Resolve(o)
    /\ blocking' = {}
    /\ UNCHANGED <<ready, current, pollerVars, finished, owner, waits, waker, io>>

(* The task returns, all its futures used.                                 *)
Finish(t) ==
    /\ Runs(t) /\ Held(t) = {}
    /\ current' = None
    /\ finished' = finished \cup {t}
    /\ UNCHANGED <<ready, pollerVars, owner, waits, blocking, waker, io, completionVars>>

TaskStep(t) ==
    \/ \E o \in Ops, where \in {"submitted", "remote"} : Start(t, o, where)
    \/ \E o \in Ops : Drop(t, o) \/ AwaitReturns(t, o)
    \/ \E S \in SUBSET Ops : Await(t, S) \/ BlockOn(t, S)
    \/ Park(t)
    \/ Finish(t)

PollerStep == PollerReturns \/ \E other \in BOOLEAN : PollerIteration(other)
BlockOnStep == BlockOnPolls \/ \E o \in Ops : BlockOnReturns(o)

Next ==
    \/ \E p \in Everyone : Pick(p)
    \/ \E o \in Ops : Post(o) \/ RemoteDone(o)
    \/ PollerStep
    \/ BlockOnStep
    \/ \E t \in Tasks : TaskStep(t)

Spec == Init /\ [][Next]_vars

(* The executor polls whom it must, code that runs goes on, and operations *)
(* end.  Not assumed: that a poll of the SPDK thread ever finds no work.   *)
FairSpec ==
    /\ Spec
    /\ \A p \in Everyone : SF_vars(Pick(p))
    /\ \A o \in Ops : WF_vars(Post(o)) /\ WF_vars(RemoteDone(o))
    /\ WF_vars(PollerStep) /\ WF_vars(BlockOnStep)
    /\ \A t \in Tasks : WF_vars(TaskStep(t))
-------------------------------------------------------------------------------
(***************************************************************************)
(* Properties.                                                             *)
(***************************************************************************)

(* complete.rs:79, poller.rs:47: whatever a poll from within another task, *)
(* a completion before the first poll or from another thread, or a stay in *)
(* block_on has done to the wakers: no task sleeps while an operation it   *)
(* awaits has been answered, a task that awaits nothing does not sleep at  *)
(* all, and neither does a poller that has not returned.                   *)
Asleep(p) == p # current /\ p \notin ready /\ p \notin finished

NoLostWakeup ==
    /\ ~Asleep(Poller)
    /\ \A t \in Tasks : Asleep(t) => waits[t] # {} /\ \A o \in waits[t] : ~Ready(o)

(* poller.rs:72: with spdk_poller among the tasks an await ends, or its    *)
(* future does, although other tasks hold up the executor in block_on --   *)
(* as long as the SPDK thread does not keep the poller busy for ever.      *)
AwaitsReturn ==
    (limit = 0 /\ []<>(current # Poller)) =>
        \A o \in Ops : (\E t \in Tasks : o \in waits[t]) ~> rx[o] # "waiting"

(* poller.rs:89: spdk_poller_limited returns after as many polls as it was *)
(* told, also if none of them or all of them find work.                    *)
PollerEnds == limit # 0 => <>(Poller \in finished /\ iters = limit)
===============================================================================
