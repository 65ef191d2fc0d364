---------------------------- MODULE Executor_proofs ----------------------------
(***************************************************************************)
(* No wakeup is lost, for every number of tasks and operations, with       *)
(* either poller.                                                          *)
(***************************************************************************)
EXTENDS Executor, TLAPS

(* A task awaits its own unresolved futures; nobody owns what was not      *)
(* started; only the task that runs is in block_on, for futures of its     *)
(* own.  This keeps the polls of one task away from the wakers of others.  *)
Awaited == \A t \in Tasks : \A o \in waits[t] : owner[o] = t /\ rx[o] = "waiting"
Fresh == \A o \in Ops : io[o] = "none" => owner[o] = None
Blocked ==
    /\ blocking # {} => current \in Tasks /\ waits[current] = {}
    /\ \A o \in blocking : owner[o] = current

(* NoLostWakeup, and why: whatever a sleeping task awaits will wake it.    *)
Sleeping ==
    /\ ~Asleep(Poller)
    /\ \A t \in Tasks : Asleep(t) =>
          waits[t] # {} /\ \A o \in waits[t] : ~Ready(o) /\ waker[o] = t

IInv == TypeOK /\ Awaited /\ Fresh /\ Blocked /\ Sleeping

-------------------------------------------------------------------------------
LEMMA Constants ==
    /\ None \notin Results /\ None \notin Ops /\ "ok" \in Results
    /\ Poller \notin Tasks /\ None \notin Tasks /\ None # Poller
    /\ MaxIters \subseteq Nat
BY NoneAssumption, OkAssumption, TasksAssumption, MaxItersAssumption DEF Everyone

LEMMA InitInv == Init => IInv
<1> SUFFICES ASSUME Init PROVE IInv
  OBVIOUS
<1>0. limit \in Nat /\ 0 \in 0 .. limit
  BY Constants DEF Init
<1>1. TypeOK
  BY <1>0, Constants DEF Init, CompletionInit, TypeOK, CompletionType, Everyone, SenderStates,
     ReceiverStates, IoStates
<1>2. Awaited /\ Fresh /\ Blocked
  BY DEF Init, Awaited, Fresh, Blocked
<1>3. Sleeping
  BY DEF Init, Sleeping, Asleep, Everyone
<1> QED
  BY <1>1, <1>2, <1>3 DEF IInv

(* Completions wake tasks. *)
LEMMA WokenType == TypeOK => \A done \in SUBSET Ops : Woken(done) \subseteq Tasks
BY DEF TypeOK, Woken

LEMMA NextType == TypeOK /\ [Next]_vars => TypeOK'
<1> SUFFICES ASSUME TypeOK, [Next]_vars PROVE TypeOK'
  OBVIOUS
<1> USE Constants DEF TypeOK, CompletionType, Everyone, SenderStates, ReceiverStates, IoStates,
        completionVars, pollerVars, taskVars
<1>p. Posted \subseteq Ops
  BY DEF Posted
<1>c. ASSUME NEW done \in SUBSET Ops, Complete(done), UNCHANGED rx
      PROVE  CompletionType' /\ io' \in [Ops -> IoStates]
  BY <1>c DEF Complete
<1>1. ASSUME NEW p \in Everyone, Pick(p) PROVE TypeOK'
  BY <1>1 DEF Pick
<1>2. ASSUME NEW o \in Ops, Post(o) PROVE TypeOK'
  BY <1>2 DEF Post
<1>3. ASSUME NEW o \in Ops, RemoteDone(o) PROVE TypeOK'
  <2>1. CompletionType' /\ io' \in [Ops -> IoStates]
    BY <1>3, <1>c DEF RemoteDone
  <2>2. ready' \subseteq Everyone
    BY <1>3, WokenType DEF RemoteDone
  <2> QED
    BY <1>3, <2>1, <2>2 DEF RemoteDone
<1>4. ASSUME PollerReturns PROVE TypeOK'
  BY <1>4 DEF PollerReturns
<1>5. ASSUME NEW other \in BOOLEAN, PollerIteration(other) PROVE TypeOK'
  <2>1. CompletionType' /\ io' \in [Ops -> IoStates]
    BY <1>5, <1>p, <1>c DEF PollerIteration, PollThread
  <2>2. ready' \subseteq Everyone /\ current' \in Everyone \cup {None}
    BY <1>5, <1>p, WokenType DEF PollerIteration, YieldNow
  <2>3. waker' \in [Ops -> Tasks \cup {None}]
    BY <1>5 DEF PollerIteration, Register
  <2>4. limit' \in MaxIters /\ iters' \in 0 .. limit' /\ beat' \in BOOLEAN
    BY <1>5 DEF PollerIteration
  <2> QED
    BY <1>5, <2>1, <2>2, <2>3, <2>4 DEF PollerIteration
<1>6. ASSUME BlockOnPolls PROVE TypeOK'
  <2>1. CompletionType' /\ io' \in [Ops -> IoStates]
    BY <1>6, <1>p, <1>c DEF BlockOnPolls, PollThread
  <2>2. ready' \subseteq Everyone
    BY <1>6, <1>p, WokenType DEF BlockOnPolls
  <2>3. waker' \in [Ops -> Tasks \cup {None}]
    BY <1>6 DEF BlockOnPolls, Register
  <2> QED
    BY <1>6, <2>1, <2>2, <2>3 DEF BlockOnPolls
<1>7. ASSUME NEW o \in Ops, BlockOnReturns(o) PROVE TypeOK'
  BY <1>7 DEF BlockOnReturns, Resolve
<1>8. ASSUME NEW t \in Tasks, TaskStep(t) PROVE TypeOK'
  <2>1. ASSUME NEW o \in Ops, NEW where \in {"submitted", "remote"}, Start(t, o, where)
        PROVE  TypeOK'
    BY <2>1 DEF Start, NewPair
  <2>2. ASSUME NEW o \in Ops, Drop(t, o) PROVE TypeOK'
    BY <2>2 DEF Drop, DropReceiver
  <2>3. ASSUME NEW o \in Ops, AwaitReturns(t, o) PROVE TypeOK'
    BY <2>3 DEF AwaitReturns, Resolve
  <2>4. ASSUME NEW S \in SUBSET Ops, Await(t, S) PROVE TypeOK'
    BY <2>4 DEF Await
  <2>5. ASSUME NEW S \in SUBSET Ops, BlockOn(t, S) PROVE TypeOK'
    BY <2>5 DEF BlockOn
  <2>6. CASE Park(t)
    BY <2>6 DEF Park, Register
  <2>7. CASE Finish(t)
    BY <2>7 DEF Finish
  <2> QED
    BY <1>8, <2>1, <2>2, <2>3, <2>4, <2>5, <2>6, <2>7 DEF TaskStep
<1>9. CASE UNCHANGED vars
  BY <1>9 DEF vars
<1> QED
  BY <1>1, <1>2, <1>3, <1>4, <1>5, <1>6, <1>7, <1>8, <1>9 DEF Next, PollerStep, BlockOnStep

-------------------------------------------------------------------------------
(* Sleeping is kept by whatever lets nobody fall asleep, ends the sleep of *)
(* all whose futures it makes ready, and leaves the wakers of the others.  *)
LEMMA KeepsSleeping ==
    ASSUME IInv,
           \A p \in Everyone : Asleep(p)' => Asleep(p),
           NEW done \in SUBSET Ops,
           \A t \in Tasks, o \in done : Asleep(t) /\ o \in waits[t] => ~Asleep(t)',
           \A t \in Tasks : Asleep(t) => waits'[t] = waits[t],
           \A t \in Tasks, o \in Ops \ done : Asleep(t) /\ o \in waits[t] =>
               waker'[o] = waker[o] /\ (Ready(o)' => Ready(o))
    PROVE  Sleeping'
<1>1. ~Asleep(Poller)'
  BY DEF IInv, Sleeping, Everyone
<1>2. ASSUME NEW t \in Tasks, Asleep(t)'
      PROVE  (waits[t] # {} /\ \A o \in waits[t] : ~Ready(o) /\ waker[o] = t)'
  <2>1. Asleep(t) /\ waits'[t] = waits[t] /\ waits[t] \subseteq Ops
    BY <1>2 DEF Everyone, IInv, TypeOK
  <2>2. waits[t] # {} /\ \A o \in waits[t] : ~Ready(o) /\ waker[o] = t
    BY <2>1 DEF IInv, Sleeping
  <2>3. \A o \in waits[t] : o \in Ops \ done
    BY <1>2, <2>1
  <2>4. \A o \in waits[t] : waker'[o] = t /\ ~Ready(o)'
    BY <2>1, <2>2, <2>3
  <2> QED
    BY <2>1, <2>2, <2>4
<1> QED
  BY <1>1, <1>2 DEF Sleeping

LEMMA StillSleeping ==
    ASSUME IInv,
           \A p \in Everyone : Asleep(p)' => Asleep(p),
           \A t \in Tasks : Asleep(t) => waits'[t] = waits[t],
           \A t \in Tasks, o \in Ops : Asleep(t) /\ o \in waits[t] =>
               waker'[o] = waker[o] /\ (Ready(o)' => Ready(o))
    PROVE  Sleeping'
<1> DEFINE done == {}
<1>1. done \in SUBSET Ops /\ \A o \in done : FALSE
  OBVIOUS
<1> HIDE DEF done
<1> QED
  BY <1>1, KeepsSleeping

(* Only the ops of done are touched by their completion. *)
LEMMA Untouched ==
    ASSUME NEW done \in SUBSET Ops, Complete(done), UNCHANGED rx
    PROVE  \A o \in Ops \ done : Ready(o)' <=> Ready(o)
BY DEF Complete, Ready

(* A task that runs, or is in block_on, sleeps no more than its poller; no *)
(* other task awaits the futures it has.                                   *)
LEMMA Apart ==
    ASSUME IInv, NEW t \in Tasks, NEW u \in Tasks, Asleep(u), current = t
    PROVE  /\ u # t
           /\ \A o \in waits[u] : owner[o] # t /\ o \notin blocking /\ o \notin waits[t]
BY DEF IInv, Asleep, Awaited, Blocked

LEMMA NextInv == IInv /\ [Next]_vars => IInv'
<1> SUFFICES ASSUME IInv, [Next]_vars PROVE IInv'
  OBVIOUS
<1>t. TypeOK /\ TypeOK'
  BY NextType DEF IInv
<1> USE Constants DEF Everyone, completionVars, pollerVars, taskVars
<1>1. ASSUME NEW p \in Everyone, Pick(p) PROVE (Awaited /\ Fresh /\ Blocked /\ Sleeping)'
  <2>1. (Awaited /\ Fresh /\ Blocked)'
    BY <1>1, <1>t DEF IInv, Pick, Awaited, Fresh, Blocked
  <2>2. Sleeping'
    BY <1>1, <1>t, StillSleeping DEF IInv, Pick, Asleep, Ready
  <2> QED
    BY <2>1, <2>2
<1>2. ASSUME NEW o \in Ops, Post(o) PROVE (Awaited /\ Fresh /\ Blocked /\ Sleeping)'
  <2>1. (Awaited /\ Fresh /\ Blocked)'
    BY <1>2, <1>t DEF IInv, Post, Awaited, Fresh, Blocked, TypeOK
  <2>2. Sleeping'
    BY <1>2, <1>t, StillSleeping DEF IInv, Post, Asleep, Ready
  <2> QED
    BY <2>1, <2>2
<1>3. ASSUME NEW o \in Ops, RemoteDone(o) PROVE (Awaited /\ Fresh /\ Blocked /\ Sleeping)'
  <2>1. (Awaited /\ Fresh /\ Blocked)'
    BY <1>3, <1>t DEF IInv, RemoteDone, Complete, Awaited, Fresh, Blocked, TypeOK
  <2>2. \A q \in Ops \ {o} : Ready(q)' <=> Ready(q)
    BY <1>3, Untouched DEF RemoteDone
  <2>3. \A t \in Tasks : Asleep(t) /\ o \in waits[t] => t \in Woken({o})
    BY DEF IInv, Sleeping, Woken
  <2>4. \A p \in Everyone : Asleep(p)' => Asleep(p)
    BY <1>3 DEF RemoteDone, Asleep
  <2>5. \A t \in Tasks : Asleep(t) /\ o \in waits[t] => ~Asleep(t)'
    BY <1>3, <2>3 DEF RemoteDone, Asleep
  <2>6. \A q \in Ops \ {o} : waker'[q] = waker[q]
    BY <1>3, <1>t DEF RemoteDone, TypeOK
  <2>7. Sleeping'
    <3> DEFINE done == {o}
    <3>1. done \in SUBSET Ops /\ \A q \in done : q = o
      OBVIOUS
    <3>2. UNCHANGED waits /\ \A q \in Ops \ done : waker'[q] = waker[q] /\ (Ready(q)' => Ready(q))
      BY <1>3, <2>2, <2>6 DEF RemoteDone
    <3> HIDE DEF done
    <3> QED
      BY <2>4, <2>5, <3>1, <3>2, KeepsSleeping
  <2> QED
    BY <2>1, <2>7
<1>4. ASSUME PollerReturns PROVE (Awaited /\ Fresh /\ Blocked /\ Sleeping)'
  <2>1. (Awaited /\ Fresh /\ Blocked)'
    BY <1>4, <1>t DEF IInv, PollerReturns, Awaited, Fresh, Blocked
  <2>2. \A p \in Everyone : Asleep(p)' => Asleep(p)
    BY <1>4 DEF PollerReturns, Asleep
  <2>3. Sleeping'
    BY <1>4, <1>t, <2>2, StillSleeping DEF IInv, PollerReturns, Ready
  <2> QED
    BY <2>1, <2>3
<1>p. /\ Posted \subseteq Ops
      /\ \A t \in Tasks, o \in Posted : Asleep(t) /\ o \in waits[t] => t \in Woken({o}) /\ t \in Woken(Posted)
  BY DEF IInv, Sleeping, Posted, Woken
<1>5. ASSUME NEW other \in BOOLEAN, PollerIteration(other)
      PROVE  (Awaited /\ Fresh /\ Blocked /\ Sleeping)'
  <2>1. (Awaited /\ Fresh)'
    BY <1>5, <1>t DEF IInv, PollerIteration, PollThread, Complete, Awaited, Fresh, TypeOK
  <2>2. blocking = {} /\ Blocked'
    BY <1>5, <1>t DEF IInv, PollerIteration, Blocked
  <2>3. \A o \in Ops \ Posted : Ready(o)' <=> Ready(o)
    BY <1>5, <1>p, Untouched DEF PollerIteration, PollThread
  <2>4. \A p \in Everyone : Asleep(p)' => Asleep(p)
    BY <1>5 DEF PollerIteration, YieldNow, Asleep
  <2>5. \A t \in Tasks, o \in Posted : Asleep(t) /\ o \in waits[t] => ~Asleep(t)'
    BY <1>5, <1>p DEF PollerIteration, Asleep
  <2>6. \A o \in Ops \ Posted : waker'[o] = waker[o]
    BY <1>5 DEF PollerIteration, Register
  <2>7. Sleeping'
    BY <1>5, <1>p, <2>3, <2>4, <2>5, <2>6, KeepsSleeping DEF PollerIteration
  <2> QED
    BY <2>1, <2>2, <2>7
<1>6. ASSUME BlockOnPolls PROVE (Awaited /\ Fresh /\ Blocked /\ Sleeping)'
  <2>1. (Awaited /\ Fresh /\ Blocked)'
    BY <1>6, <1>t DEF IInv, BlockOnPolls, PollThread, Complete, Awaited, Fresh, Blocked, TypeOK
  <2>2. current \in Tasks
    BY <1>6 DEF IInv, BlockOnPolls, Blocked
  <2>3. \A o \in Ops \ Posted : Ready(o)' <=> Ready(o)
    BY <1>6, <1>p, Untouched DEF BlockOnPolls, PollThread
  <2>4. \A p \in Everyone : Asleep(p)' => Asleep(p)
    BY <1>6 DEF BlockOnPolls, Asleep
  <2>5. \A t \in Tasks, o \in Ops : Asleep(t) /\ o \in waits[t] => o \notin blocking
    BY <2>2, Apart
  <2>6. \A t \in Tasks, o \in Posted : Asleep(t) /\ o \in waits[t] => ~Asleep(t)'
    <3>1. \A t \in Tasks, o \in Posted : Asleep(t) /\ o \in waits[t] => t \in Woken(Posted \ blocking)
      BY <1>p, <2>5 DEF IInv, Sleeping, Woken
    <3> QED
      BY <1>6, <3>1 DEF BlockOnPolls, Asleep
  <2>7. \A t \in Tasks, o \in Ops \ Posted : Asleep(t) /\ o \in waits[t] => waker'[o] = waker[o]
    BY <1>6, <2>5 DEF BlockOnPolls, Register
  <2>8. Sleeping'
    BY <1>6, <1>p, <2>3, <2>4, <2>6, <2>7, KeepsSleeping DEF BlockOnPolls
  <2> QED
    BY <2>1, <2>8
<1>7. ASSUME NEW o \in Ops, BlockOnReturns(o) PROVE (Awaited /\ Fresh /\ Blocked /\ Sleeping)'
  <2>1. current \in Tasks /\ owner[o] = current /\ waits[current] = {}
    BY <1>7 DEF IInv, BlockOnReturns, Blocked
  <2>2. \A t \in Tasks : o \notin waits[t]
    BY <2>1 DEF IInv, Awaited
  <2>3. (Awaited /\ Fresh /\ Blocked)'
    BY <1>7, <1>t, <2>2 DEF IInv, BlockOnReturns, Resolve, Awaited, Fresh, Blocked, TypeOK,
       CompletionType
  <2>4. Sleeping'
    BY <1>7, <1>t, <2>2, StillSleeping DEF IInv, BlockOnReturns, Resolve, Asleep, Ready, TypeOK,
       CompletionType
  <2> QED
    BY <2>3, <2>4
<1>8. ASSUME NEW t \in Tasks, TaskStep(t) PROVE (Awaited /\ Fresh /\ Blocked /\ Sleeping)'
  <2> DEFINE Rest == (Awaited /\ Fresh /\ Blocked /\ Sleeping)'
  <2>1. ASSUME NEW o \in Ops, NEW where \in {"submitted", "remote"}, Start(t, o, where)
        PROVE  Rest
    <3>1. \A u \in Tasks : o \notin waits[u]
      BY <2>1 DEF IInv, Start, Awaited, Fresh
    <3>2. (Awaited /\ Fresh /\ Blocked)'
      BY <2>1, <3>1, <1>t DEF IInv, Start, NewPair, Runs, Awaited, Fresh, Blocked, TypeOK,
         CompletionType
    <3>3. Sleeping'
      BY <2>1, <3>1, <1>t, StillSleeping DEF IInv, Start, NewPair, Asleep, Ready, TypeOK,
         CompletionType
    <3> QED
      BY <3>2, <3>3
  <2>2. ASSUME NEW o \in Ops, Drop(t, o) PROVE Rest
    <3>1. \A u \in Tasks : o \notin waits[u]
      BY <2>2 DEF IInv, Drop, Runs, Held, Awaited
    <3>2. (Awaited /\ Fresh /\ Blocked)'
      BY <2>2, <3>1, <1>t DEF IInv, Drop, DropReceiver, Awaited, Fresh, Blocked, TypeOK,
         CompletionType
    <3>3. Sleeping'
      BY <2>2, <3>1, <1>t, StillSleeping DEF IInv, Drop, DropReceiver, Asleep, Ready, TypeOK,
         CompletionType
    <3> QED
      BY <3>2, <3>3
  <2>3. ASSUME NEW o \in Ops, AwaitReturns(t, o) PROVE Rest
    <3>1. blocking = {} /\ \A u \in Tasks \ {t} : o \notin waits[u]
      BY <2>3 DEF IInv, AwaitReturns, Awaited, Blocked
    <3>2. (Awaited /\ Fresh /\ Blocked)'
      BY <2>3, <3>1, <1>t DEF IInv, AwaitReturns, Resolve, Awaited, Fresh, Blocked, TypeOK,
         CompletionType
    <3>3. Sleeping'
      BY <2>3, <3>1, <1>t, StillSleeping DEF IInv, AwaitReturns, Resolve, Asleep, Ready, TypeOK,
         CompletionType
    <3> QED
      BY <3>2, <3>3
  <2>4. ASSUME NEW S \in SUBSET Ops, Await(t, S) PROVE Rest
    <3>1. (Awaited /\ Fresh /\ Blocked)'
      BY <2>4, <1>t DEF IInv, Await, Runs, Held, Awaited, Fresh, Blocked, TypeOK
    <3>2. Sleeping'
      BY <2>4, <1>t, StillSleeping DEF IInv, Await, Runs, Asleep, Ready, TypeOK
    <3> QED
      BY <3>1, <3>2
  <2>5. ASSUME NEW S \in SUBSET Ops, BlockOn(t, S) PROVE Rest
    <3>1. (Awaited /\ Fresh /\ Blocked)'
      BY <2>5, <1>t DEF IInv, BlockOn, Runs, Held, Awaited, Fresh, Blocked, TypeOK
    <3>2. Sleeping'
      BY <2>5, <1>t, StillSleeping DEF IInv, BlockOn, Asleep, Ready
    <3> QED
      BY <3>1, <3>2
  <2>6. CASE Park(t)
    <3>1. (Awaited /\ Fresh /\ Blocked)'
      BY <2>6, <1>t DEF IInv, Park, Awaited, Fresh, Blocked
    <3>2. ~Asleep(Poller)'
      BY <2>6 DEF IInv, Park, Asleep, Sleeping
    <3>3. (waits[t] # {} /\ \A o \in waits[t] : ~Ready(o) /\ waker[o] = t)'
      BY <2>6, <1>t DEF Park, Register, Ready, TypeOK
    <3>4. ASSUME NEW u \in Tasks \ {t}, Asleep(u)'
          PROVE  (waits[u] # {} /\ \A o \in waits[u] : ~Ready(o) /\ waker[o] = u)'
      <4>1. Asleep(u) /\ waits' = waits /\ waits[u] \subseteq Ops
        BY <2>6, <3>4, <1>t DEF Park, Asleep, TypeOK
      <4>2. waits[u] # {} /\ \A o \in waits[u] : ~Ready(o) /\ waker[o] = u /\ o \notin waits[t]
        BY <2>6, <4>1, Apart DEF IInv, Sleeping, Park
      <4> QED
        BY <2>6, <4>1, <4>2 DEF Park, Register, Ready
    <3> QED
      BY <3>1, <3>2, <3>3, <3>4 DEF Sleeping
  <2>7. CASE Finish(t)
    <3>1. (Awaited /\ Fresh /\ Blocked)'
      BY <2>7, <1>t DEF IInv, Finish, Runs, Awaited, Fresh, Blocked
    <3>2. \A p \in Everyone : Asleep(p)' => Asleep(p)
      BY <2>7 DEF Finish, Runs, Asleep
    <3>3. Sleeping'
      BY <2>7, <3>2, StillSleeping DEF Finish, Ready
    <3> QED
      BY <3>1, <3>3
  <2> QED
    BY <1>8, <2>1, <2>2, <2>3, <2>4, <2>5, <2>6, <2>7 DEF TaskStep
<1>9. CASE UNCHANGED vars
  <2>1. (Awaited /\ Fresh /\ Blocked)'
    BY <1>9 DEF vars, IInv, Awaited, Fresh, Blocked
  <2>2. Sleeping'
    BY <1>9, StillSleeping DEF vars, Asleep, Ready
  <2> QED
    BY <1>t, <2>1, <2>2 DEF IInv
<1> QED
  BY <1>t, <1>1, <1>2, <1>3, <1>4, <1>5, <1>6, <1>7, <1>8, <1>9
     DEF IInv, Next, PollerStep, BlockOnStep

-------------------------------------------------------------------------------
(* The variables of the executor keep their types. *)
THEOREM TypeCorrect == Spec => []TypeOK
<1>1. Init => TypeOK
  BY InitInv DEF IInv
<1> QED
  BY <1>1, NextType, PTL DEF Spec

(* complete.rs:79, poller.rs:47: no task sleeps while something it awaits  *)
(* is ready, and the poller that keeps them going does not sleep at all,   *)
(* however polls from block_on and from other threads interleave.          *)
THEOREM NothingSleepsOn == Spec => []NoLostWakeup
<1>1. IInv => NoLostWakeup
  BY DEF IInv, Sleeping, NoLostWakeup
<1> QED
  BY <1>1, InitInv, NextInv, PTL DEF Spec
================================================================================
