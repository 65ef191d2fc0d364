--------------------------------- MODULE Event ---------------------------------
(***************************************************************************)
(* Events between the reactors of spdk-io: SpdkEvent (event.rs) and the    *)
(* run of an application, SpdkApp::run, run_async and stop (app.rs).       *)
(*                                                                         *)
(* The reactor of a core is a loop that takes a batch of events from its   *)
(* ring, calls their closures one after the other, and polls SPDK threads. *)
(* A closure that waits for an answer keeps its reactor busy.  The start   *)
(* callback of the application, which runs in a poll of the app thread on  *)
(* the main core, waits with block_on, which polls that thread and nothing *)
(* else.                                                                   *)
(*                                                                         *)
(* The reactors and the event pool of SPDK are external: here an event     *)
(* object goes back to the pool when its closure ends, and a reactor       *)
(* leaves its loop between two batches once the application is stopping.   *)
(***************************************************************************)
EXTENDS Completion, Naturals, Sequences, FiniteSets, SequencesExt

CONSTANTS
    Cores,     \* the cores of the reactor mask
    Main,      \* the one that runs the application's callback
    Start,     \* the callback itself, as an activity
    Batch,     \* how many events a reactor takes at a time
    PoolSize   \* event objects in SPDK's pool

ASSUME CoresAssumption == Main \in Cores /\ None \notin Cores /\ Start \notin Ops \cup {None}
ASSUME BoundsAssumption == Batch \in Nat \ {0} /\ PoolSize \in Nat

VARIABLES
    app,       \* "idle", "up", "exiting" (reactors told to stop), "returned"
    api,       \* which of "run" and "run_async" was called, or "none"
    stopSent,  \* spdk_app_stop's message waits on the app thread
    left,      \* [Cores -> BOOLEAN]: the reactor left its loop
    ring,      \* [Cores -> Seq(Ops)]: events called, not taken
    batch,     \* [Cores -> Seq(Ops)]: taken, not started
    running,   \* [Cores -> Ops \cup {Start, None}]: the activity of the core
    wait,      \* [Cores -> Ops \cup {None}]: the answer it waits for
    ev,        \* [Ops -> EventStates]
    target,    \* [Ops -> Cores \cup {None}]
    caller,    \* [Ops -> Ops \cup {Start, None}]: who has the receiver
    closure,   \* [Ops -> BOOLEAN]: closure_ptr is not null
    frees,     \* [Ops -> 0 .. 2]: how often the closure's box was reclaimed
    order      \* history: the events in the order of their calls

appVars == <<app, api, stopSent, left>>
coreVars == <<ring, batch, running, wait>>
eventVars == <<ev, target, caller, closure, frees>>
vars == <<appVars, coreVars, eventVars, order, completionVars>>

(* "held": an SpdkEvent value; "uncalled": dropped as one; "refused": SPDK *)
(* had no event object for it.                                             *)
EventStates == {"none", "held", "called", "running", "done", "uncalled", "refused"}
Activities == Ops \cup {Start}

TypeOK ==
    /\ CompletionType
    /\ app \in {"idle", "up", "exiting", "returned"}
    /\ api \in {"none", "run", "run_async"}
    /\ stopSent \in BOOLEAN
    /\ left \in [Cores -> BOOLEAN]
    /\ ring \in [Cores -> Seq(Ops)]
    /\ batch \in [Cores -> Seq(Ops)]
    /\ running \in [Cores -> Activities \cup {None}]
    /\ wait \in [Cores -> Ops \cup {None}]
    /\ ev \in [Ops -> EventStates]
    /\ target \in [Ops -> Cores \cup {None}]
    /\ caller \in [Ops -> Activities \cup {None}]
    /\ closure \in [Ops -> BOOLEAN]
    /\ frees \in [Ops -> 0 .. 2]
    /\ order \in Seq(Ops)

Init ==
    /\ CompletionInit
    /\ app = "idle" /\ api = "none" /\ stopSent = FALSE
    /\ left = [c \in Cores |-> FALSE]
    /\ ring = [c \in Cores |-> <<>>]
    /\ batch = [c \in Cores |-> <<>>]
    /\ running = [c \in Cores |-> None]
    /\ wait = [c \in Cores |-> None]
    /\ ev = [o \in Ops |-> "none"]
    /\ target = [o \in Ops |-> None]
    /\ caller = [o \in Ops |-> None]
    /\ closure = [o \in Ops |-> FALSE]
    /\ frees = [o \in Ops |-> 0]
    /\ order = <<>>

-------------------------------------------------------------------------------
(* An activity of core c executes user code. *)
Active(c) == running[c] # None /\ wait[c] = None

(* Event objects taken from the pool; an uncalled one never goes back.     *)
Used == {o \in Ops : ev[o] \in {"held", "called", "running", "uncalled"}}

(* Box::from_raw of the closure, when the pointer is still one's own.      *)
Free(o, when) == frees' = [frees EXCEPT ![o] = IF when THEN @ + 1 ELSE @]

Ordered(o) == order' = Append(order, o)

SlipEnqueueFirst(o, d) == ring' = [ring EXCEPT ![d] = <<o>> \o @] /\ Ordered(o)
SlipEnqueueNever(o, d) == UNCHANGED ring /\ Ordered(o)

(* spdk_event_call. *)
Enqueue(o, d) == ring' = [ring EXCEPT ![d] = Append(@, o)] /\ Ordered(o)

(* SpdkEvent::new: an event object and a boxed closure, ...                *)
New(c, o, d) ==
    /\ Active(c) /\ ev[o] = "none" /\ Cardinality(Used) < PoolSize
    /\ ev' = [ev EXCEPT ![o] = "held"]
    /\ target' = [target EXCEPT ![o] = d]
    /\ closure' = [closure EXCEPT ![o] = TRUE]
    /\ UNCHANGED <<appVars, coreVars, caller, frees, order, completionVars>>

(* ... or no event object (an empty pool, a core outside the mask): the    *)
(* closure is freed, with the sender that call_on_async put into it.       *)
NewFails(c, o) ==
    /\ Active(c) /\ ev[o] = "none"
    /\ ev' = [ev EXCEPT ![o] = "refused"]
    /\ Free(o, TRUE)
    /\ UNCHANGED <<appVars, coreVars, target, caller, closure, order, completionVars>>

SlipCall(c, o) ==  \* Drop runs after the call, with closure_ptr set
    /\ Active(c) /\ ev[o] = "held"
    /\ ev' = [ev EXCEPT ![o] = "called"]
    /\ Enqueue(o, target[o])
    /\ Free(o, closure[o])
    /\ UNCHANGED <<appVars, batch, running, wait, target, caller, closure, completionVars>>

(* SpdkEvent::call, on any core, for the value is Send: the pointer is     *)
(* nulled, the event goes to its ring, the value is forgotten.             *)
Call(c, o) ==
    /\ Active(c) /\ ev[o] = "held"
    /\ ev' = [ev EXCEPT ![o] = "called"]
    /\ closure' = [closure EXCEPT ![o] = FALSE]
    /\ Enqueue(o, target[o])
    /\ UNCHANGED <<appVars, batch, running, wait, target, caller, frees, completionVars>>

(* SpdkEvent::drop without call.                                           *)
DropUncalled(c, o) ==
    /\ Active(c) /\ ev[o] = "held"
    /\ ev' = [ev EXCEPT ![o] = "uncalled"]
    /\ Free(o, closure[o])
    /\ closure' = [closure EXCEPT ![o] = FALSE]
    /\ UNCHANGED <<appVars, coreVars, target, caller, order, completionVars>>

(* call_on_async: a pair whose sender the closure captures, new and call.  *)
CallOnAsync(c, o, d) ==
    /\ Active(c) /\ ev[o] = "none" /\ Cardinality(Used) < PoolSize
    /\ NewPair(o, "owned")
    /\ ev' = [ev EXCEPT ![o] = "called"]
    /\ target' = [target EXCEPT ![o] = d]
    /\ caller' = [caller EXCEPT ![o] = running[c]]
    /\ Enqueue(o, d)
    /\ UNCHANGED <<appVars, batch, running, wait, closure, frees>>

(* The activity waits for the answer to a call of its own.                 *)
Wait(c, o) ==
    /\ Active(c) /\ caller[o] = running[c] /\ rx[o] = "waiting"
    /\ wait' = [wait EXCEPT ![c] = o]
    /\ UNCHANGED <<appVars, ring, batch, running, eventVars, order, completionVars>>

WaitReturns(c) ==
    /\ wait[c] # None
    /\ Resolve(wait[c])
    /\ wait' = [wait EXCEPT ![c] = None]
    /\ UNCHANGED <<appVars, ring, batch, running, eventVars, order>>

(* The receivers an activity still has are dropped when it ends.           *)
DropReceiversOf(a) ==
    rx' = [o \in Ops |-> IF caller[o] = a /\ rx[o] = "waiting" THEN "dropped" ELSE rx[o]]

-------------------------------------------------------------------------------
(* A reactor takes the next events of its ring ... *)
TakeBatch(c) ==
    LET n == IF Len(ring[c]) < Batch THEN Len(ring[c]) ELSE Batch IN
    /\ app # "idle" /\ ~left[c] /\ running[c] = None /\ batch[c] = <<>> /\ n > 0
    /\ batch' = [batch EXCEPT ![c] = SubSeq(ring[c], 1, n)]
    /\ ring' = [ring EXCEPT ![c] = SubSeq(@, n + 1, Len(@))]
    /\ UNCHANGED <<appVars, running, wait, eventVars, order, completionVars>>

(* ... and calls event_trampoline, which reclaims the box and calls the    *)
(* closure.                                                                *)
RunEvent(c) ==
    /\ batch[c] # <<>> /\ running[c] = None
    /\ LET o == Head(batch[c]) IN
       /\ running' = [running EXCEPT ![c] = o]
       /\ ev' = [ev EXCEPT ![o] = "running"]
       /\ Free(o, TRUE)
    /\ batch' = [batch EXCEPT ![c] = Tail(@)]
    /\ UNCHANGED <<appVars, ring, wait, target, caller, closure, order, completionVars>>

(* The closure returns; that of call_on_async sends its value.             *)
FinishEvent(c) ==
    LET o == running[c] IN
    /\ Active(c) /\ o # Start
    /\ ev' = [ev EXCEPT ![o] = "done"]
    /\ running' = [running EXCEPT ![c] = None]
    /\ DropReceiversOf(o)
    /\ IF tx[o] = "owned" THEN \E v \in Results : Deliver(o, v) ELSE UNCHANGED <<tx, slot>>
    /\ UNCHANGED <<appVars, ring, batch, wait, target, caller, closure, frees, order>>

-------------------------------------------------------------------------------
(* SpdkApp::run or run_async: spdk_app_start calls start_callback ...      *)
RunApp(which) ==
    /\ app = "idle"
    /\ app' = "up"
    /\ api' = which
    /\ running' = [running EXCEPT ![Main] = Start]
    /\ UNCHANGED <<stopSent, left, ring, batch, wait, eventVars, order, completionVars>>

(* ... or fails. *)
RunFails ==
    /\ app = "idle"
    /\ app' = "returned"
    /\ UNCHANGED <<api, stopSent, left, coreVars, eventVars, order, completionVars>>

SlipStopsLast == FALSE
StopsLast == api = "run_async" /\ app = "up"

(* The callback returns; that of run_async calls stop last.                *)
FinishStart ==
    /\ Active(Main) /\ running[Main] = Start
    /\ running' = [running EXCEPT ![Main] = None]
    /\ stopSent' = (stopSent \/ StopsLast)
    /\ DropReceiversOf(Start)
    /\ UNCHANGED <<app, api, left, ring, batch, wait, eventVars, order, tx, slot>>

(* SpdkApp::stop, in a closure or the callback: a message to the app       *)
(* thread ...                                                              *)
Stop(c) ==
    /\ Active(c) /\ app = "up" /\ ~stopSent
    /\ stopSent' = TRUE
    /\ UNCHANGED <<app, api, left, coreVars, eventVars, order, completionVars>>

(* ... which runs when the main reactor polls that thread, or block_on in  *)
(* the callback does.                                                      *)
StopRuns ==
    /\ stopSent
    /\ \/ running[Main] = None /\ batch[Main] = <<>>
       \/ running[Main] = Start /\ wait[Main] # None
    /\ app' = "exiting" /\ stopSent' = FALSE
    /\ UNCHANGED <<api, left, coreVars, eventVars, order, completionVars>>

Leave(c) ==
    /\ app = "exiting" /\ ~left[c] /\ running[c] = None /\ batch[c] = <<>>
    /\ left' = [left EXCEPT ![c] = TRUE]
    /\ UNCHANGED <<app, api, stopSent, coreVars, eventVars, order, completionVars>>

(* spdk_app_start returns and run calls spdk_app_fini: the rings go, with  *)
(* the events nobody took.                                                 *)
RunReturn ==
    /\ app = "exiting" /\ \A c \in Cores : left[c]
    /\ app' = "returned"
    /\ ring' = [c \in Cores |-> <<>>]
    /\ UNCHANGED <<api, stopSent, left, batch, running, wait, eventVars, order, completionVars>>

UserStep(c) ==
    \/ \E o \in Ops, d \in Cores : New(c, o, d) \/ CallOnAsync(c, o, d)
    \/ \E o \in Ops : NewFails(c, o) \/ Call(c, o) \/ DropUncalled(c, o) \/ Wait(c, o)
    \/ Stop(c)

ReactorStep(c) == TakeBatch(c) \/ RunEvent(c) \/ Leave(c)

Next ==
    \/ \E c \in Cores : UserStep(c) \/ ReactorStep(c) \/ FinishEvent(c) \/ WaitReturns(c)
    \/ \E which \in {"run", "run_async"} : RunApp(which)
    \/ RunFails \/ RunReturn \/ FinishStart \/ StopRuns

Spec == Init /\ [][Next]_vars

(* Reactors loop, closures and the callback end unless they wait for ever. *)
FairSpec ==
    /\ Spec
    /\ \A c \in Cores : /\ WF_vars(ReactorStep(c)) /\ WF_vars(FinishEvent(c))
                        /\ WF_vars(WaitReturns(c))
    /\ WF_vars(FinishStart) /\ WF_vars(StopRuns) /\ WF_vars(RunReturn)
-------------------------------------------------------------------------------
(***************************************************************************)
(* Properties.                                                             *)
(***************************************************************************)

Waiting(c) == batch[c] \o ring[c]

(* event.rs:201-209 and 272-282: the closure's box is reclaimed once, by   *)
(* the trampoline if the event was called and by the drop or the failing   *)
(* allocation if not, and never while its event is still under way.  So an *)
(* event that waits for the trampoline does so once, on its core.          *)
BoxReclaimedOnce ==
    /\ \A o \in Ops :
          frees[o] = IF ev[o] \in {"running", "done", "uncalled", "refused"} THEN 1 ELSE 0
    /\ \A c \in Cores :
          /\ IsInjective(Waiting(c))
          /\ \A i \in DOMAIN Waiting(c) : /\ target[Waiting(c)[i]] = c
                                          /\ ev[Waiting(c)[i]] = "called"

(* Events of one core start in the order of their calls, whichever cores   *)
(* called them.                                                            *)
Started(o) == ev[o] \in {"running", "done"}

StartsInOrder ==
    \A i, j \in DOMAIN order :
        (i < j /\ target[order[i]] = target[order[j]] /\ Started(order[j])) => Started(order[i])

(* event.rs:241: the receiver of call_on_async "completes when the closure *)
(* finishes", with its value: it is never cancelled.                       *)
ReplyMeansRan ==
    \A o \in Ops : rx[o] = "resolved" => ev[o] = "done" /\ slot[o] \in Results

(* What callers must keep to, for waits to end: event closures do not wait *)
(* for other events, the callback waits for other cores only, and not any  *)
(* more once the application is told to stop.                              *)
WaitsDown == \A c \in Cores : wait[c] # None => running[c] = Start /\ target[wait[c]] # Main
StopsLate == (stopSent \/ app = "exiting") => \A c \in Cores : wait[c] = None
Disciplined == [](WaitsDown /\ StopsLate)

(* app.rs:385-388: then the waits of the callback end, run_async returns,  *)
(* and so does run after a stop; ...                                       *)
RunReturns ==
    Disciplined =>
        /\ \A c \in Cores : wait[c] # None ~> wait[c] = None
        /\ api = "run_async" \/ stopSent ~> app = "returned"

(* ... and an event that was called runs unless the run ends before.       *)
CalledRuns ==
    Disciplined => \A o \in Ops : ev[o] = "called" ~> (ev[o] = "done" \/ app # "up")
===============================================================================
