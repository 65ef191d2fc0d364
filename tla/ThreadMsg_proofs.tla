--------------------------- MODULE ThreadMsg_proofs ---------------------------
(***************************************************************************)
(* What ThreadMsg guarantees for every number of threads, operations and   *)
(* messages and every value of its other constants.                        *)
(***************************************************************************)
EXTENDS ThreadMsg, WellFoundedInduction, TLAPS

(* Where a message can be: at index i of the ring of u, at index i of the  *)
(* batch of the k-th activation of u, or run by that activation.           *)
InRing(q, u, i, o) == i \in 1..Len(q[u]) /\ q[u][i] = o
InBatch(st, u, k, i, o) ==
    k \in 1..Len(st[u]) /\ i \in 1..Len(st[u][k].batch) /\ st[u][k].batch[i] = o
Runs(st, u, k, o) == k \in 1..Len(st[u]) /\ st[u][k].kind = "poll" /\ st[u][k].op = o

(* OnePlace in these terms. *)
RingPlaced ==
    \A u \in Threads, o \in Ops, i \in Int : InRing(queue, u, i, o) =>
        /\ status[o] = "queued" /\ target[o] = u
        /\ \A j \in Int : InRing(queue, u, j, o) => i = j

BatchPlaced ==
    \A u \in Threads, o \in Ops, k, i \in Int : InBatch(stack, u, k, i, o) =>
        /\ status[o] = "batched" /\ target[o] = u
        /\ \A l, j \in Int : InBatch(stack, u, l, j, o) => k = l /\ i = j

RunPlaced ==
    \A u \in Threads, o \in Ops, k \in Int : Runs(stack, u, k, o) =>
        /\ status[o] = "running" /\ target[o] = u
        /\ \A l \in Int : Runs(stack, u, l, o) => k = l

Placed == RingPlaced /\ BatchPlaced /\ RunPlaced

(* The inductive invariant has several layers.  Shape says what the stack  *)
(* of a thread looks like in each of its states; Tracked is the converse   *)
(* of OnePlace: whatever a status says, the message really is there.       *)
Shape ==
    \A t \in Threads :
        /\ \A k \in 1..Len(stack[t]) :
              /\ stack[t][k].kind # "poll" => stack[t][k].batch = <<>>
              /\ stack[t][k].kind = "block_on" => stack[t][k].op \in Ops
              /\ stack[t][k].kind = "drop" => k = Len(stack[t])
        /\ life[t] = "destroyed" => stack[t] = <<>>

Tracked ==
    \A o \in Ops :
        /\ status[o] = "idle" <=> target[o] = None
        /\ status[o] = "sending" <=> sender[o] # None
        /\ status[o] = "queued" => \E i \in Int : InRing(queue, target[o], i, o)
        /\ status[o] = "batched" => \E k, i \in Int : InBatch(stack, target[o], k, i, o)
        /\ status[o] = "running" => \E k \in Int : Runs(stack, target[o], k, o)

(* A thread in the middle of a send stays in the user code that sends, and *)
(* while a HandleScope is respected nothing reaches a thread that exited.  *)
Senders ==
    \A o \in Ops : status[o] = "sending" =>
        /\ stack[sender[o]] = <<>> \/ InClosure(sender[o])
        /\ HandleScope # "any" =>
              \/ life[target[o]] = "running"
              \/ sender[o] = target[o] /\ life[target[o]] = "exiting"

Quiet ==
    HandleScope # "any" =>
        /\ \A t \in Threads : life[t] \in {"exited", "destroyed"} => queue[t] = <<>>
        /\ \A o \in Ops : status[o] # "dangling"

(* The pair of a call follows the closure that owns its sender.            *)
Replies ==
    \A o \in Ops :
        /\ tx[o] \in {"none", "owned", "gone"}
        /\ tx[o] = "none" <=> rx[o] = "none"
        /\ tx[o] = "owned" => status[o] \notin {"idle", "done"}
        /\ tx[o] = "gone" => status[o] = "done"
        /\ slot[o] # None => slot[o] = "ok" /\ tx[o] = "gone"
        /\ tx[o] = "gone" /\ rx[o] = "waiting" => slot[o] = "ok"
        /\ rx[o] = "resolved" => slot[o] = "ok"

IInv == TypeOK /\ Placed /\ Shape /\ Tracked /\ Senders /\ Quiet /\ Replies

-------------------------------------------------------------------------------
(* The assumptions on the constants, by one name. *)
LEMMA Constants ==
    /\ None \notin Ops /\ None \notin Results /\ "ok" \in Results
    /\ None \notin Threads /\ Threads \cap Ops = {}
    /\ Batch \in Nat \ {0} /\ PoolSize \in Nat \ {0}
BY NoneAssumption, OkAssumption, ThreadsAssumption, BatchAssumption, PoolAssumption

(* A poll takes a prefix of the ring and leaves the rest, in order. *)
LEMMA SplitRing ==
    ASSUME NEW s \in Seq(Ops), NEW k \in 0..Len(s)
    PROVE  /\ SubSeq(s, 1, k) \in Seq(Ops) /\ Len(SubSeq(s, 1, k)) = k
           /\ \A i \in 1..k : SubSeq(s, 1, k)[i] = s[i]
           /\ SubSeq(s, k + 1, Len(s)) \in Seq(Ops)
           /\ Len(SubSeq(s, k + 1, Len(s))) = Len(s) - k
           /\ \A i \in 1..(Len(s) - k) : SubSeq(s, k + 1, Len(s))[i] = s[k + i]
<1>1. SubSeq(s, 1, k) \in Seq(Ops) /\ Len(SubSeq(s, 1, k)) = k
  OBVIOUS
<1>2. ASSUME NEW i \in 1..k PROVE SubSeq(s, 1, k)[i] = s[i]
  OBVIOUS
<1>3. SubSeq(s, k + 1, Len(s)) \in Seq(Ops) /\ Len(SubSeq(s, k + 1, Len(s))) = Len(s) - k
  OBVIOUS
<1>4. ASSUME NEW i \in 1..(Len(s) - k) PROVE SubSeq(s, k + 1, Len(s))[i] = s[k + i]
  OBVIOUS
<1> QED
  BY <1>1, <1>2, <1>3, <1>4

LEMMA Frames ==
    /\ \A msgs \in Seq(Ops) : PollFrame(msgs) \in Frame
    /\ \A o \in Ops : BlockOnFrame(o) \in Frame
    /\ DropFrame \in Frame
BY DEF Frame, PollFrame, BlockOnFrame, DropFrame

(* The innermost activation, and the stack without it. *)
LEMMA TopFrame ==
    ASSUME NEW t \in Threads, stack \in [Threads -> Seq(Frame)], stack[t] # <<>>
    PROVE  /\ Top(t) \in Frame
           /\ Top(t).op \in Ops \cup {None} /\ Top(t).batch \in Seq(Ops)
           /\ Tail(stack[t]) \in Seq(Frame) /\ Len(Tail(stack[t])) = Len(stack[t]) - 1
           /\ \A i \in 1..Len(stack[t]) - 1 : Tail(stack[t])[i] = stack[t][i + 1]
<1>1. stack[t] \in Seq(Frame) /\ Len(stack[t]) >= 1
  OBVIOUS
<1>2. stack[t][1] \in Frame
  BY <1>1
<1>3. stack[t][1].op \in Ops \cup {None} /\ stack[t][1].batch \in Seq(Ops)
  BY <1>2 DEF Frame
<1> QED
  BY <1>1, <1>2, <1>3 DEF Top

LEMMA InitType == Init => TypeOK
BY Constants DEF Init, CompletionInit, TypeOK, CompletionType, LifeStates, OpStates,
   SenderStates, ReceiverStates

LEMMA NextType == TypeOK /\ [Next]_vars => TypeOK'
<1> SUFFICES ASSUME TypeOK, [Next]_vars PROVE TypeOK'
  OBVIOUS
<1> USE Constants DEF TypeOK, CompletionType, LifeStates, OpStates, SenderStates,
        ReceiverStates, completionVars, opVars, threadVars
<1>1. ASSUME NEW t \in Threads, NEW u \in Threads, NEW o \in Ops, NEW isCall \in BOOLEAN,
             NEW carried \in Ops \cup {None}, SendBegin(t, u, o, isCall, carried)
      PROVE  TypeOK'
  <2>1. Running(t) \in Threads \cup Ops
    BY TopFrame DEF Running, InClosure, On
  <2>2. holder' \in [Ops -> Threads \cup Ops \cup {None}]
    BY <1>1, <2>1 DEF SendBegin
  <2>3. sender' \in [Ops -> Threads \cup {None}] /\ target' \in [Ops -> Threads \cup {None}]
    BY <1>1 DEF SendBegin
  <2>4. status' \in [Ops -> OpStates]
    BY <1>1 DEF SendBegin
  <2>5. CompletionType'
    BY <1>1 DEF SendBegin, NewPair
  <2> QED
    BY <1>1, <2>2, <2>3, <2>4, <2>5 DEF SendBegin
<1>2. ASSUME NEW o \in Ops, SendEnd(o)
      PROVE  TypeOK'
  <2> DEFINE u == target[o]
  <2>1. queue' = queue \/ queue' = [queue EXCEPT ![u] = Append(@, o)]
    BY <1>2 DEF SendEnd, Enqueue
  <2>2. queue' \in [Threads -> Seq(Ops)]
    <3>1. CASE u \in Threads
      BY <2>1, <3>1, Append(queue[u], o) \in Seq(Ops)
    <3>2. CASE u \notin Threads
      BY <2>1, <3>2
    <3> QED
      BY <3>1, <3>2
  <2>3. accepted' \in Seq(Ops)
    <3>1. accepted' = accepted \/ accepted' = Append(accepted, o)
      BY <1>2 DEF SendEnd
    <3>2. accepted \in Seq(Ops) /\ Append(accepted, o) \in Seq(Ops)
      OBVIOUS
    <3> QED
      BY <3>1, <3>2
  <2>4. status' \in [Ops -> OpStates] /\ sender' \in [Ops -> Threads \cup {None}]
    BY <1>2 DEF SendEnd
  <2> QED
    BY <1>2, <2>1, <2>2, <2>3, <2>4 DEF SendEnd
<1>3. ASSUME NEW t \in Threads, NEW n \in 1..Batch, PollBegin(t, n)
      PROVE  TypeOK'
  <2> DEFINE msgs == Taken(t, n)
  <2>1. msgs \in Seq(Ops) /\ Left(t, n) \in Seq(Ops)
    <3>1. queue[t] \in Seq(Ops) /\ BatchLen(t, n) \in 0..Len(queue[t])
      BY DEF BatchLen
    <3> QED
      BY <3>1, SplitRing DEF Taken, Left
  <2>2. stack' = [stack EXCEPT ![t] = <<PollFrame(msgs)>> \o @]
    BY <1>3 DEF PollBegin, Push
  <2>3. <<PollFrame(msgs)>> \o stack[t] \in Seq(Frame)
    <3>1. PollFrame(msgs) \in Frame
      BY <2>1, Frames
    <3> QED
      BY <3>1
  <2>4. stack' \in [Threads -> Seq(Frame)]
    BY <2>2, <2>3
  <2> QED
    BY <1>3, <2>1, <2>4 DEF PollBegin
<1>4. ASSUME NEW t \in Threads, RunMsg(t)
      PROVE  TypeOK'
  <2> DEFINE o == Head(Top(t).batch)
             frame == [kind |-> "poll", op |-> o, batch |-> Tail(Top(t).batch)]
  <2>1. o \in Ops /\ Tail(Top(t).batch) \in Seq(Ops) /\ Tail(stack[t]) \in Seq(Frame)
    BY <1>4, TopFrame DEF RunMsg, On
  <2>2. frame \in Frame
    BY <2>1 DEF Frame
  <2>3. stack' = [stack EXCEPT ![t] = <<frame>> \o Tail(@)]
    BY <1>4 DEF RunMsg
  <2>4. stack' \in [Threads -> Seq(Frame)]
    BY <2>1, <2>2, <2>3
  <2> QED
    BY <1>4, <2>1, <2>4 DEF RunMsg
<1>5. ASSUME NEW t \in Threads, FinishMsg(t)
      PROVE  TypeOK'
  <2> DEFINE o == Top(t).op
             frame == PollFrame(Top(t).batch)
  <2>1. o \in Ops /\ Top(t).batch \in Seq(Ops) /\ Tail(stack[t]) \in Seq(Frame)
    BY <1>5, TopFrame DEF FinishMsg, InClosure, On
  <2>2. stack' = [stack EXCEPT ![t] = <<frame>> \o Tail(@)]
    BY <1>5 DEF FinishMsg
  <2>3. stack' \in [Threads -> Seq(Frame)]
    BY <2>1, <2>2, Frames
  <2>4. CompletionType'
    <3>1. rx' \in [Ops -> ReceiverStates]
      BY <1>5 DEF FinishMsg
    <3>2. CASE tx[o] = "owned"
      <4>1. tx' = [tx EXCEPT ![o] = "gone"]
        BY <1>5, <3>2 DEF FinishMsg, Deliver
      <4>2. slot' = [slot EXCEPT ![o] = IF rx[o] = "waiting" THEN "ok" ELSE @]
        BY <1>5, <3>2 DEF FinishMsg, Deliver
      <4> QED
        BY <3>1, <4>1, <4>2
    <3>3. CASE tx[o] # "owned"
      BY <1>5, <3>1, <3>3 DEF FinishMsg
    <3> QED
      BY <3>2, <3>3
  <2> QED
    BY <1>5, <2>3, <2>4 DEF FinishMsg
<1>6. ASSUME NEW t \in Threads, PollEnd(t)
      PROVE  TypeOK'
  BY <1>6 DEF PollEnd, On, Pop, MayExit
<1>7. ASSUME NEW t \in Threads, NEW o \in Ops, BlockOn(t, o)
      PROVE  TypeOK'
  BY <1>7, Frames DEF BlockOn, Push
<1>8. ASSUME NEW t \in Threads, NEW o \in Ops, ForgetCall(t, o)
      PROVE  TypeOK'
  BY <1>8 DEF ForgetCall, DropReceiver
<1>9. ASSUME NEW t \in Threads, BlockOnReturn(t)
      PROVE  TypeOK'
  BY <1>9, TopFrame DEF BlockOnReturn, Resolve, Pop, On
<1>10. ASSUME NEW t \in Threads, DropBegin(t)
       PROVE  TypeOK'
  BY <1>10, Frames DEF DropBegin, Push, RequestExit
<1>11. ASSUME NEW t \in Threads, DropEnd(t)
       PROVE  TypeOK'
  BY <1>11 DEF DropEnd, On, Pop
<1>12. CASE UNCHANGED vars
  BY <1>12 DEF vars
<1> QED
  BY <1>1, <1>2, <1>3, <1>4, <1>5, <1>6, <1>7, <1>8, <1>9, <1>10, <1>11, <1>12
  DEF Next, Terminated

(* Every variable keeps its type: threads, stacks and messages of the code *)
(* in thread.rs are always in one of the states the model names.           *)
THEOREM TypeCorrect == Spec => []TypeOK
BY InitType, NextType, PTL DEF Spec

-------------------------------------------------------------------------------
(* How the stack of a thread changes, activation by activation. *)
Pushed(t, frame) ==
    /\ \A u \in Threads \ {t} : stack'[u] = stack[u]
    /\ Len(stack'[t]) = Len(stack[t]) + 1
    /\ stack'[t][1] = frame
    /\ \A k \in 1..Len(stack[t]) : stack'[t][k + 1] = stack[t][k]
    /\ \A k \in 2..Len(stack'[t]) : k - 1 \in 1..Len(stack[t]) /\ stack'[t][k] = stack[t][k - 1]

Popped(t) ==
    /\ \A u \in Threads \ {t} : stack'[u] = stack[u]
    /\ Len(stack'[t]) = Len(stack[t]) - 1
    /\ \A k \in 1..Len(stack'[t]) : k + 1 \in 2..Len(stack[t]) /\ stack'[t][k] = stack[t][k + 1]
    /\ \A k \in 2..Len(stack[t]) : k - 1 \in 1..Len(stack'[t]) /\ stack'[t][k - 1] = stack[t][k]

Swapped(t, frame) ==
    /\ \A u \in Threads \ {t} : stack'[u] = stack[u]
    /\ Len(stack'[t]) = Len(stack[t])
    /\ stack'[t][1] = frame
    /\ \A k \in 2..Len(stack[t]) : stack'[t][k] = stack[t][k]

LEMMA PushStack ==
    ASSUME stack \in [Threads -> Seq(Frame)], NEW t \in Threads, NEW f \in Frame,
           stack' = [stack EXCEPT ![t] = <<f>> \o @]
    PROVE  Pushed(t, f)
<1> DEFINE s == stack[t]
<1>1. s \in Seq(Frame) /\ Len(s) \in Nat /\ stack'[t] = <<f>> \o s
  OBVIOUS
<1> HIDE DEF s
<1>2. Len(<<f>> \o s) = Len(s) + 1 /\ (<<f>> \o s)[1] = f
  BY <1>1
<1>3. \A k \in 1..Len(s) : (<<f>> \o s)[k + 1] = s[k]
  BY <1>1
<1>4. \A k \in 2..Len(s) + 1 : k - 1 \in 1..Len(s) /\ (<<f>> \o s)[k] = s[k - 1]
  BY <1>1
<1>5. \A u \in Threads \ {t} : stack'[u] = stack[u]
  OBVIOUS
<1> QED
  BY <1>1, <1>2, <1>3, <1>4, <1>5 DEF Pushed, s

LEMMA PopStack ==
    ASSUME stack \in [Threads -> Seq(Frame)], NEW t \in Threads, stack[t] # <<>>,
           stack' = [stack EXCEPT ![t] = Tail(@)]
    PROVE  Popped(t)
<1> DEFINE s == stack[t]
<1>1. s \in Seq(Frame) /\ Len(s) \in Nat \ {0} /\ stack'[t] = Tail(s)
  OBVIOUS
<1> HIDE DEF s
<1>2. Len(Tail(s)) = Len(s) - 1
  BY <1>1
<1>3. \A k \in 1..Len(s) - 1 : k + 1 \in 2..Len(s) /\ Tail(s)[k] = s[k + 1]
  BY <1>1
<1>4. \A k \in 2..Len(s) : k - 1 \in 1..Len(s) - 1 /\ Tail(s)[k - 1] = s[k]
  BY <1>1
<1>5. \A u \in Threads \ {t} : stack'[u] = stack[u]
  OBVIOUS
<1> QED
  BY <1>1, <1>2, <1>3, <1>4, <1>5 DEF Popped, s

LEMMA SwapStack ==
    ASSUME stack \in [Threads -> Seq(Frame)], NEW t \in Threads, stack[t] # <<>>, NEW f \in Frame,
           stack' = [stack EXCEPT ![t] = <<f>> \o Tail(@)]
    PROVE  Swapped(t, f)
<1> DEFINE s == stack[t]
<1>1. s \in Seq(Frame) /\ Len(s) \in Nat \ {0} /\ stack'[t] = <<f>> \o Tail(s)
  OBVIOUS
<1> HIDE DEF s
<1>2. Tail(s) \in Seq(Frame) /\ Len(Tail(s)) = Len(s) - 1
  BY <1>1
<1>3. Len(<<f>> \o Tail(s)) = Len(s) /\ (<<f>> \o Tail(s))[1] = f
  BY <1>1, <1>2
<1>4. \A k \in 2..Len(s) : (<<f>> \o Tail(s))[k] = s[k]
  BY <1>1, <1>2
<1>5. \A u \in Threads \ {t} : stack'[u] = stack[u]
  OBVIOUS
<1> QED
  BY <1>1, <1>3, <1>4, <1>5 DEF Swapped, s

LEMMA PlacedOnce == TypeOK /\ Placed => OnePlace
<1> SUFFICES ASSUME TypeOK, Placed PROVE OnePlace
  OBVIOUS
<1>1. \A u \in Threads : Len(queue[u]) \in Nat /\ \A i \in 1..Len(queue[u]) : queue[u][i] \in Ops
  BY DEF TypeOK
<1>2. \A u \in Threads : Len(stack[u]) \in Nat /\ \A k \in 1..Len(stack[u]) : stack[u][k] \in Frame
  BY DEF TypeOK
<1>3. \A f \in Frame : f.op \in Ops \cup {None} /\ Len(f.batch) \in Nat
                       /\ \A i \in 1..Len(f.batch) : f.batch[i] \in Ops
  BY DEF Frame
<1>4. RingPlace
  BY <1>1 DEF RingPlace, Placed, RingPlaced, InRing
<1>5. BatchPlace
  <2> USE DEF BatchPlace
  <2> TAKE t \in Threads
  <2> TAKE k \in 1..Len(stack[t])
  <2> TAKE i \in 1..Len(stack[t][k].batch)
  <2> DEFINE o == stack[t][k].batch[i]
  <2>1. o \in Ops /\ k \in Int /\ i \in Int /\ InBatch(stack, t, k, i, o)
    BY <1>2, <1>3 DEF InBatch
  <2>2. \A l \in 1..Len(stack[t]) : \A j \in 1..Len(stack[t][l].batch) :
            o = stack[t][l].batch[j] => l \in Int /\ j \in Int /\ InBatch(stack, t, l, j, o)
    BY <1>2, <1>3 DEF InBatch
  <2> HIDE DEF o
  <2>3. status[o] = "batched" /\ target[o] = t
    BY <2>1 DEF Placed, BatchPlaced
  <2>4. \A l, j \in Int : InBatch(stack, t, l, j, o) => k = l /\ i = j
    BY <2>1 DEF Placed, BatchPlaced
  <2> QED
    BY <2>2, <2>3, <2>4 DEF o
<1>6. RunningPlace
  BY <1>2, <1>3, Constants DEF RunningPlace, Placed, RunPlaced, Runs
<1> QED
  BY <1>4, <1>5, <1>6 DEF OnePlace

-------------------------------------------------------------------------------
(* How pushing, popping and swapping an activation moves the messages.     *)
LEMMA PushPlaces ==
    ASSUME TypeOK, TypeOK', NEW t \in Threads, NEW f \in Frame, Pushed(t, f)
    PROVE  \A u \in Threads, o \in Ops, k \in Int :
             /\ \A i \in Int : InBatch(stack', u, k, i, o) <=>
                   IF u # t THEN InBatch(stack, u, k, i, o)
                   ELSE IF k = 1 THEN i \in 1..Len(f.batch) /\ f.batch[i] = o
                   ELSE InBatch(stack, t, k - 1, i, o)
             /\ Runs(stack', u, k, o) <=>
                   IF u # t THEN Runs(stack, u, k, o)
                   ELSE IF k = 1 THEN f.kind = "poll" /\ f.op = o
                   ELSE Runs(stack, t, k - 1, o)
<1> SUFFICES ASSUME NEW u \in Threads, NEW o \in Ops, NEW k \in Int
    PROVE  /\ \A i \in Int : InBatch(stack', u, k, i, o) <=>
                   IF u # t THEN InBatch(stack, u, k, i, o)
                   ELSE IF k = 1 THEN i \in 1..Len(f.batch) /\ f.batch[i] = o
                   ELSE InBatch(stack, t, k - 1, i, o)
           /\ Runs(stack', u, k, o) <=>
                   IF u # t THEN Runs(stack, u, k, o)
                   ELSE IF k = 1 THEN f.kind = "poll" /\ f.op = o
                   ELSE Runs(stack, t, k - 1, o)
  OBVIOUS
<1>1. Len(stack[t]) \in Nat /\ Len(stack'[t]) \in Nat
  BY DEF TypeOK
<1>2. CASE u # t
  BY <1>2 DEF Pushed, InBatch, Runs
<1>3. CASE u = t /\ k = 1
  BY <1>1, <1>3 DEF Pushed, InBatch, Runs
<1>4. CASE u = t /\ k \in 2..Len(stack'[t])
  <2>1. k - 1 \in 1..Len(stack[t]) /\ stack'[t][k] = stack[t][k - 1]
    BY <1>4 DEF Pushed
  <2>2. k \in 1..Len(stack'[t]) /\ k # 1
    BY <1>4, <1>1
  <2> QED
    BY <2>1, <2>2, <1>4 DEF InBatch, Runs
<1>5. CASE u = t /\ k # 1 /\ k \notin 2..Len(stack'[t])
  <2>1. k \notin 1..Len(stack'[t]) /\ k - 1 \notin 1..Len(stack[t])
    BY <1>1, <1>5 DEF Pushed
  <2> QED
    BY <2>1, <1>5 DEF InBatch, Runs
<1> QED
  BY <1>2, <1>3, <1>4, <1>5

LEMMA PopPlaces ==
    ASSUME TypeOK, TypeOK', NEW t \in Threads, stack[t] # <<>>, Popped(t)
    PROVE  \A u \in Threads, o \in Ops, k \in Int :
             /\ \A i \in Int : InBatch(stack', u, k, i, o) <=>
                   IF u # t THEN InBatch(stack, u, k, i, o)
                   ELSE k # 0 /\ InBatch(stack, t, k + 1, i, o)
             /\ Runs(stack', u, k, o) <=>
                   IF u # t THEN Runs(stack, u, k, o)
                   ELSE k # 0 /\ Runs(stack, t, k + 1, o)
<1> SUFFICES ASSUME NEW u \in Threads, NEW o \in Ops, NEW k \in Int
    PROVE  /\ \A i \in Int : InBatch(stack', u, k, i, o) <=>
                   IF u # t THEN InBatch(stack, u, k, i, o)
                   ELSE k # 0 /\ InBatch(stack, t, k + 1, i, o)
           /\ Runs(stack', u, k, o) <=>
                   IF u # t THEN Runs(stack, u, k, o)
                   ELSE k # 0 /\ Runs(stack, t, k + 1, o)
  OBVIOUS
<1>1. Len(stack[t]) \in Nat \ {0} /\ Len(stack'[t]) \in Nat
  BY DEF TypeOK
<1>2. CASE u # t
  BY <1>2 DEF Popped, InBatch, Runs
<1>3. CASE u = t /\ k \in 1..Len(stack'[t])
  <2>1. k + 1 \in 1..Len(stack[t]) /\ k # 0 /\ stack'[t][k] = stack[t][k + 1]
    BY <1>1, <1>3 DEF Popped
  <2> QED
    BY <2>1, <1>3 DEF InBatch, Runs
<1>4. CASE u = t /\ k \notin 1..Len(stack'[t])
  <2>1. k = 0 \/ k + 1 \notin 1..Len(stack[t])
    BY <1>1, <1>4 DEF Popped
  <2> QED
    BY <2>1, <1>4 DEF InBatch, Runs
<1> QED
  BY <1>2, <1>3, <1>4

LEMMA SwapPlaces ==
    ASSUME TypeOK, TypeOK', NEW t \in Threads, stack[t] # <<>>, NEW f \in Frame, Swapped(t, f)
    PROVE  /\ \A u \in Threads, o \in Ops, k, i \in Int : InBatch(stack', u, k, i, o) <=>
                 IF u # t \/ k # 1 THEN InBatch(stack, u, k, i, o)
                 ELSE i \in 1..Len(f.batch) /\ f.batch[i] = o
           /\ \A u \in Threads, o \in Ops, k \in Int : Runs(stack', u, k, o) <=>
                 IF u # t \/ k # 1 THEN Runs(stack, u, k, o)
                 ELSE f.kind = "poll" /\ f.op = o
<1>1. Len(stack[t]) \in Nat \ {0} /\ Len(stack'[t]) = Len(stack[t])
  BY DEF TypeOK, Swapped
<1>2. stack'[t][1] = f /\ 1 \in 1..Len(stack[t])
  BY <1>1 DEF Swapped
<1>3. \A u \in Threads, k \in Int : u # t \/ k # 1 =>
          /\ k \in 1..Len(stack'[u]) <=> k \in 1..Len(stack[u])
          /\ k \in 1..Len(stack[u]) => stack'[u][k] = stack[u][k]
  BY <1>1 DEF Swapped
<1>4. ASSUME NEW u \in Threads, NEW o \in Ops, NEW k \in Int, NEW i \in Int
      PROVE  InBatch(stack', u, k, i, o) <=>
                 IF u # t \/ k # 1 THEN InBatch(stack, u, k, i, o)
                 ELSE i \in 1..Len(f.batch) /\ f.batch[i] = o
  BY <1>1, <1>2, <1>3 DEF InBatch
<1>5. ASSUME NEW u \in Threads, NEW o \in Ops, NEW k \in Int
      PROVE  Runs(stack', u, k, o) <=>
                 IF u # t \/ k # 1 THEN Runs(stack, u, k, o)
                 ELSE f.kind = "poll" /\ f.op = o
  BY <1>1, <1>2, <1>3 DEF Runs
<1> QED
  BY <1>4, <1>5

-------------------------------------------------------------------------------
(* Each action keeps the inductive invariant: one lemma per action.        *)

(* A thread that waits, or is between two messages, is not sending.        *)
LEMMA NoSender ==
    ASSUME IInv, NEW t \in Threads, stack[t] # <<>>, ~InClosure(t)
    PROVE  ~MidSend(t)
BY DEF IInv, Senders, MidSend

(* What every action that leaves the sends alone does to Senders. *)
LEMMA OthersSend ==
    ASSUME IInv, TypeOK', NEW t \in Threads, ~MidSend(t),
           \A v \in Threads \ {t} : stack'[v] = stack[v],
           \A p \in Ops : status'[p] = "sending" <=> status[p] = "sending",
           sender' = sender, target' = target,
           HandleScope # "any" => \A p \in Ops : status[p] = "sending" =>
               life'[target[p]] = life[target[p]]
    PROVE  Senders'
<1> SUFFICES ASSUME NEW p \in Ops, status'[p] = "sending"
    PROVE  /\ stack'[sender'[p]] = <<>> \/ InClosure(sender[p])'
           /\ HandleScope # "any" =>
                  \/ life'[target'[p]] = "running"
                  \/ sender'[p] = target'[p] /\ life'[target'[p]] = "exiting"
  BY DEF Senders
<1>1. status[p] = "sending"
  OBVIOUS
<1>2. sender[p] \in Threads \ {t}
  BY <1>1 DEF MidSend, IInv, Tracked, TypeOK
<1>3. stack'[sender[p]] = stack[sender[p]]
  BY <1>2
<1> QED
  BY <1>1, <1>3 DEF IInv, Senders, InClosure, On, Top

(* The shape of a stack after an activation is pushed, popped or replaced. *)
LEMMA PushShape ==
    ASSUME IInv, TypeOK', NEW t \in Threads, NEW f \in Frame, Pushed(t, f),
           f.kind # "poll" => f.batch = <<>>,
           f.kind = "block_on" => f.op \in Ops,
           f.kind = "drop" => stack[t] = <<>>,
           life'[t] # "destroyed", \A v \in Threads \ {t} : life'[v] = life[v]
    PROVE  Shape'
<1>1. Len(stack'[t]) = Len(stack[t]) + 1 /\ Len(stack[t]) \in Nat
  BY DEF Pushed, IInv, TypeOK
<1>2. ASSUME NEW k \in 1..Len(stack'[t])
      PROVE  /\ stack'[t][k].kind # "poll" => stack'[t][k].batch = <<>>
             /\ stack'[t][k].kind = "block_on" => stack'[t][k].op \in Ops
             /\ stack'[t][k].kind = "drop" => k = Len(stack'[t])
  <2>1. CASE k = 1
    BY <2>1, <1>1 DEF Pushed, IInv, TypeOK
  <2>2. CASE k # 1
    <3>1. k \in 2..Len(stack'[t])
      BY <2>2, <1>1
    <3>2. k - 1 \in 1..Len(stack[t]) /\ stack'[t][k] = stack[t][k - 1]
      BY <3>1 DEF Pushed
    <3> QED
      BY <3>1, <3>2, <1>1 DEF IInv, Shape
  <2> QED
    BY <2>1, <2>2
<1>3. \A v \in Threads \ {t} : stack'[v] = stack[v]
  BY DEF Pushed
<1> QED
  BY <1>2, <1>3 DEF IInv, Shape

LEMMA PopShape ==
    ASSUME IInv, TypeOK', NEW t \in Threads, stack[t] # <<>>, Popped(t),
           life'[t] = "destroyed" => Top(t).kind = "drop",
           \A v \in Threads \ {t} : life'[v] = life[v]
    PROVE  Shape'
<1>1. Len(stack'[t]) = Len(stack[t]) - 1 /\ Len(stack[t]) \in Nat \ {0}
  BY DEF Popped, IInv, TypeOK
<1>2. ASSUME NEW k \in 1..Len(stack'[t])
      PROVE  /\ stack'[t][k].kind # "poll" => stack'[t][k].batch = <<>>
             /\ stack'[t][k].kind = "block_on" => stack'[t][k].op \in Ops
             /\ stack'[t][k].kind = "drop" => k = Len(stack'[t])
  <2>1. k + 1 \in 1..Len(stack[t]) /\ stack'[t][k] = stack[t][k + 1]
    BY <1>1 DEF Popped
  <2> QED
    BY <2>1, <1>1 DEF IInv, Shape
<1>3. \A v \in Threads \ {t} : stack'[v] = stack[v]
  BY DEF Popped
<1>4. life'[t] = "destroyed" => stack'[t] = <<>>
  <2>1. ASSUME life'[t] = "destroyed" PROVE stack'[t] = <<>>
    <3>1. 1 \in 1..Len(stack[t]) /\ stack[t][1].kind = "drop"
      BY <2>1, <1>1 DEF Top
    <3>2. 1 = Len(stack[t])
      BY <3>1 DEF IInv, Shape
    <3>3. Len(stack'[t]) = 0 /\ stack'[t] \in Seq(Frame)
      BY <3>2, <1>1 DEF TypeOK
    <3> QED
      BY <3>3
  <2> QED
    BY <2>1
<1> QED
  BY <1>2, <1>3, <1>4 DEF IInv, Shape

LEMMA SwapShape ==
    ASSUME IInv, TypeOK', NEW t \in Threads, stack[t] # <<>>, NEW f \in Frame, Swapped(t, f),
           f.kind = "poll", life' = life
    PROVE  Shape'
<1>1. Len(stack'[t]) = Len(stack[t]) /\ Len(stack[t]) \in Nat \ {0}
  BY DEF Swapped, IInv, TypeOK
<1>2. ASSUME NEW k \in 1..Len(stack'[t])
      PROVE  /\ stack'[t][k].kind # "poll" => stack'[t][k].batch = <<>>
             /\ stack'[t][k].kind = "block_on" => stack'[t][k].op \in Ops
             /\ stack'[t][k].kind = "drop" => k = Len(stack'[t])
  <2>1. CASE k = 1
    BY <2>1, <1>1 DEF Swapped
  <2>2. CASE k # 1
    <3>1. k \in 2..Len(stack[t])
      BY <2>2, <1>1
    <3> QED
      BY <3>1, <1>1 DEF Swapped, IInv, Shape
  <2> QED
    BY <2>1, <2>2
<1>3. \A v \in Threads \ {t} : stack'[v] = stack[v]
  BY DEF Swapped
<1> QED
  BY <1>1, <1>2, <1>3 DEF IInv, Shape

(* An activation without messages comes and goes without moving any.       *)
Raised(t) ==
    /\ \A v \in Threads, p \in Ops, k, i \in Int :
          InBatch(stack', v, k, i, p) <=> InBatch(stack, v, IF v = t THEN k - 1 ELSE k, i, p)
    /\ \A v \in Threads, p \in Ops, k \in Int :
          Runs(stack', v, k, p) <=> Runs(stack, v, IF v = t THEN k - 1 ELSE k, p)

LEMMA PushMoves ==
    ASSUME IInv, TypeOK', NEW t \in Threads, NEW f \in Frame, Pushed(t, f),
           f.batch = <<>>, f.kind # "poll"
    PROVE  Raised(t)
<1> USE DEF IInv
<1>1. \A v \in Threads, p \in Ops, k, i \in Int :
          InBatch(stack', v, k, i, p) <=> InBatch(stack, v, IF v = t THEN k - 1 ELSE k, i, p)
  <2>1. \A p \in Ops, i \in Int : ~(i \in 1..Len(f.batch) /\ f.batch[i] = p) /\ ~InBatch(stack, t, 0, i, p)
    BY DEF InBatch
  <2> QED
    BY <2>1, PushPlaces
<1>2. \A v \in Threads, p \in Ops, k \in Int :
          Runs(stack', v, k, p) <=> Runs(stack, v, IF v = t THEN k - 1 ELSE k, p)
  <2>1. \A p \in Ops : ~Runs(stack, t, 0, p)
    BY DEF Runs
  <2> QED
    BY <2>1, PushPlaces
<1> QED
  BY <1>1, <1>2 DEF Raised

LEMMA PushNothing ==
    ASSUME IInv, TypeOK', NEW t \in Threads, NEW f \in Frame, Pushed(t, f),
           f.batch = <<>>, f.kind # "poll",
           queue' = queue, status' = status, sender' = sender, target' = target
    PROVE  Placed' /\ Tracked'
<1> USE DEF IInv
<1>1. \A v \in Threads, p \in Ops, k, i \in Int :
          InBatch(stack', v, k, i, p) <=> InBatch(stack, v, IF v = t THEN k - 1 ELSE k, i, p)
  BY PushMoves DEF Raised
<1>2. \A v \in Threads, p \in Ops, k \in Int :
          Runs(stack', v, k, p) <=> Runs(stack, v, IF v = t THEN k - 1 ELSE k, p)
  BY PushMoves DEF Raised
<1>3. BatchPlaced'
  <2> SUFFICES ASSUME NEW v \in Threads, NEW p \in Ops, NEW k \in Int, NEW i \in Int,
                      InBatch(stack', v, k, i, p)
      PROVE  /\ status'[p] = "batched" /\ target'[p] = v
             /\ \A l, j \in Int : InBatch(stack', v, l, j, p) => k = l /\ i = j
    BY DEF BatchPlaced
  <2> DEFINE at(l) == IF v = t THEN l - 1 ELSE l
  <2>1. at(k) \in Int /\ InBatch(stack, v, at(k), i, p)
    BY <1>1
  <2>2. /\ status[p] = "batched" /\ target[p] = v
        /\ \A l, j \in Int : InBatch(stack, v, l, j, p) => at(k) = l /\ i = j
    BY <2>1 DEF Placed, BatchPlaced
  <2>3. ASSUME NEW l \in Int, NEW j \in Int, InBatch(stack', v, l, j, p) PROVE k = l /\ i = j
    <3>1. at(l) \in Int /\ InBatch(stack, v, at(l), j, p)
      BY <2>3, <1>1
    <3> QED
      BY <3>1, <2>2
  <2> QED
    BY <2>2, <2>3
<1>4. RunPlaced'
  <2> SUFFICES ASSUME NEW v \in Threads, NEW p \in Ops, NEW k \in Int, Runs(stack', v, k, p)
      PROVE  /\ status'[p] = "running" /\ target'[p] = v
             /\ \A l \in Int : Runs(stack', v, l, p) => k = l
    BY DEF RunPlaced
  <2> DEFINE at(l) == IF v = t THEN l - 1 ELSE l
  <2>1. at(k) \in Int /\ Runs(stack, v, at(k), p)
    BY <1>2
  <2>2. /\ status[p] = "running" /\ target[p] = v
        /\ \A l \in Int : Runs(stack, v, l, p) => at(k) = l
    BY <2>1 DEF Placed, RunPlaced
  <2>3. ASSUME NEW l \in Int, Runs(stack', v, l, p) PROVE k = l
    <3>1. at(l) \in Int /\ Runs(stack, v, at(l), p)
      BY <2>3, <1>2
    <3> QED
      BY <3>1, <2>2
  <2> QED
    BY <2>2, <2>3
<1>5. RingPlaced'
  BY DEF Placed, RingPlaced
<1>6. ASSUME NEW p \in Ops, status[p] = "batched"
      PROVE  \E k, i \in Int : InBatch(stack', target[p], k, i, p)
  <2>1. PICK k \in Int, i \in Int : InBatch(stack, target[p], k, i, p)
    BY <1>6 DEF Tracked
  <2>2. target[p] \in Threads
    BY <1>6 DEF Tracked, TypeOK
  <2> DEFINE m == IF target[p] = t THEN k + 1 ELSE k
  <2>3. m \in Int /\ (IF target[p] = t THEN m - 1 ELSE m) = k
    OBVIOUS
  <2> HIDE DEF m
  <2>4. InBatch(stack', target[p], m, i, p)
    BY <2>1, <2>2, <2>3, <1>1
  <2> QED
    BY <2>3, <2>4
<1>7. ASSUME NEW p \in Ops, status[p] = "running"
      PROVE  \E k \in Int : Runs(stack', target[p], k, p)
  <2>1. PICK k \in Int : Runs(stack, target[p], k, p)
    BY <1>7 DEF Tracked
  <2>2. target[p] \in Threads
    BY <1>7 DEF Tracked, TypeOK
  <2>3. Runs(stack', target[p], IF target[p] = t THEN k + 1 ELSE k, p)
    BY <2>1, <2>2, <1>2
  <2> QED
    BY <2>3
<1>8. Tracked'
  BY <1>6, <1>7 DEF Tracked
<1> QED
  BY <1>3, <1>4, <1>5, <1>8 DEF Placed

Lowered(t) ==
    /\ \A v \in Threads, p \in Ops, k, i \in Int :
          InBatch(stack, v, k, i, p) <=> InBatch(stack', v, IF v = t THEN k - 1 ELSE k, i, p)
    /\ \A v \in Threads, p \in Ops, k \in Int :
          Runs(stack, v, k, p) <=> Runs(stack', v, IF v = t THEN k - 1 ELSE k, p)

LEMMA PopMoves ==
    ASSUME IInv, TypeOK', NEW t \in Threads, stack[t] # <<>>, Popped(t),
           Top(t).batch = <<>>, ~InClosure(t)
    PROVE  Lowered(t)
<1> USE DEF IInv
<1>1. \A v \in Threads, p \in Ops, k, i \in Int :
          InBatch(stack, v, k, i, p) <=> InBatch(stack', v, IF v = t THEN k - 1 ELSE k, i, p)
  <2>1. \A p \in Ops, i \in Int : ~InBatch(stack, t, 1, i, p)
    BY DEF InBatch, Top
  <2>2. \A v \in Threads, p \in Ops, m, i \in Int : InBatch(stack', v, m, i, p) <=>
            IF v # t THEN InBatch(stack, v, m, i, p) ELSE m # 0 /\ InBatch(stack, t, m + 1, i, p)
    BY PopPlaces
  <2>3. \A p \in Ops, k, i \in Int : InBatch(stack, t, k, i, p) <=> InBatch(stack', t, k - 1, i, p)
    <3> TAKE p \in Ops, k, i \in Int
    <3>1. InBatch(stack', t, k - 1, i, p) <=> k - 1 # 0 /\ InBatch(stack, t, (k - 1) + 1, i, p)
      BY <2>2
    <3> QED
      BY <2>1, <3>1
  <2> QED
    BY <2>2, <2>3
<1>2. \A v \in Threads, p \in Ops, k \in Int :
          Runs(stack, v, k, p) <=> Runs(stack', v, IF v = t THEN k - 1 ELSE k, p)
  <2>1. \A p \in Ops : ~Runs(stack, t, 1, p)
    BY Constants DEF Runs, InClosure, On, Top
  <2>2. \A v \in Threads, p \in Ops, m \in Int : Runs(stack', v, m, p) <=>
            IF v # t THEN Runs(stack, v, m, p) ELSE m # 0 /\ Runs(stack, t, m + 1, p)
    BY PopPlaces
  <2>3. \A p \in Ops, k \in Int : Runs(stack, t, k, p) <=> Runs(stack', t, k - 1, p)
    <3> TAKE p \in Ops, k \in Int
    <3>1. Runs(stack', t, k - 1, p) <=> k - 1 # 0 /\ Runs(stack, t, (k - 1) + 1, p)
      BY <2>2
    <3> QED
      BY <2>1, <3>1
  <2> QED
    BY <2>2, <2>3
<1> QED
  BY <1>1, <1>2 DEF Lowered

LEMMA PopNothing ==
    ASSUME IInv, TypeOK', NEW t \in Threads, stack[t] # <<>>, Popped(t),
           Top(t).batch = <<>>, ~InClosure(t),
           queue' = queue, status' = status, sender' = sender, target' = target
    PROVE  Placed' /\ Tracked'
<1> USE DEF IInv
<1>1. \A v \in Threads, p \in Ops, k, i \in Int :
          InBatch(stack, v, k, i, p) <=> InBatch(stack', v, IF v = t THEN k - 1 ELSE k, i, p)
  BY PopMoves DEF Lowered
<1>2. \A v \in Threads, p \in Ops, k \in Int :
          Runs(stack, v, k, p) <=> Runs(stack', v, IF v = t THEN k - 1 ELSE k, p)
  BY PopMoves DEF Lowered
<1>3. BatchPlaced'
  <2> SUFFICES ASSUME NEW v \in Threads, NEW p \in Ops, NEW k \in Int, NEW i \in Int,
                      InBatch(stack', v, k, i, p)
      PROVE  /\ status'[p] = "batched" /\ target'[p] = v
             /\ \A l, j \in Int : InBatch(stack', v, l, j, p) => k = l /\ i = j
    BY DEF BatchPlaced
  <2> DEFINE at(l) == IF v = t THEN l + 1 ELSE l
  <2>0. \A l, j \in Int : at(l) \in Int /\ (InBatch(stack', v, l, j, p) => InBatch(stack, v, at(l), j, p))
    BY <1>1
  <2>1. at(k) \in Int /\ InBatch(stack, v, at(k), i, p)
    BY <2>0
  <2>2. /\ status[p] = "batched" /\ target[p] = v
        /\ \A l, j \in Int : InBatch(stack, v, l, j, p) => at(k) = l /\ i = j
    BY <2>1 DEF Placed, BatchPlaced
  <2>3. ASSUME NEW l \in Int, NEW j \in Int, InBatch(stack', v, l, j, p) PROVE k = l /\ i = j
    <3>1. at(l) \in Int /\ InBatch(stack, v, at(l), j, p)
      BY <2>0, <2>3
    <3> QED
      BY <2>2, <3>1
  <2> QED
    BY <2>2, <2>3
<1>4. RunPlaced'
  <2> SUFFICES ASSUME NEW v \in Threads, NEW p \in Ops, NEW k \in Int, Runs(stack', v, k, p)
      PROVE  /\ status'[p] = "running" /\ target'[p] = v
             /\ \A l \in Int : Runs(stack', v, l, p) => k = l
    BY DEF RunPlaced
  <2> DEFINE at(l) == IF v = t THEN l + 1 ELSE l
  <2>0. \A l \in Int : at(l) \in Int /\ (Runs(stack', v, l, p) => Runs(stack, v, at(l), p))
    BY <1>2
  <2>1. at(k) \in Int /\ Runs(stack, v, at(k), p)
    BY <2>0
  <2>2. /\ status[p] = "running" /\ target[p] = v
        /\ \A l \in Int : Runs(stack, v, l, p) => at(k) = l
    BY <2>1 DEF Placed, RunPlaced
  <2>3. ASSUME NEW l \in Int, Runs(stack', v, l, p) PROVE k = l
    BY <2>0, <2>2, <2>3
  <2> QED
    BY <2>2, <2>3
<1>5. RingPlaced'
  BY DEF Placed, RingPlaced
<1>6. ASSUME NEW p \in Ops, status[p] = "batched"
      PROVE  \E k, i \in Int : InBatch(stack', target[p], k, i, p)
  <2>1. PICK k \in Int, i \in Int : InBatch(stack, target[p], k, i, p)
    BY <1>6 DEF Tracked
  <2>2. target[p] \in Threads
    BY <1>6 DEF Tracked, TypeOK
  <2>3. InBatch(stack', target[p], IF target[p] = t THEN k - 1 ELSE k, i, p)
    BY <2>1, <2>2, <1>1
  <2> QED
    BY <2>3
<1>7. ASSUME NEW p \in Ops, status[p] = "running"
      PROVE  \E k \in Int : Runs(stack', target[p], k, p)
  <2>1. PICK k \in Int : Runs(stack, target[p], k, p)
    BY <1>7 DEF Tracked
  <2>2. target[p] \in Threads
    BY <1>7 DEF Tracked, TypeOK
  <2>3. Runs(stack', target[p], IF target[p] = t THEN k - 1 ELSE k, p)
    BY <2>1, <2>2, <1>2
  <2> QED
    BY <2>3
<1>8. Tracked'
  BY <1>6, <1>7 DEF Tracked
<1> QED
  BY <1>3, <1>4, <1>5, <1>8 DEF Placed

LEMMA SendBeginKeeps ==
    ASSUME IInv, TypeOK', NEW t \in Threads, NEW u \in Threads, NEW o \in Ops,
           NEW isCall \in BOOLEAN, NEW carried \in Ops \cup {None},
           SendBegin(t, u, o, isCall, carried)
    PROVE  IInv'
<1> USE DEF IInv
<1>1. /\ status[o] = "idle" /\ HandleUsable(t, u) /\ InUserCode(t)
      /\ status' = [status EXCEPT ![o] =
              CASE life[u] = "destroyed" -> "dangling"
                [] life[u] = "exited" -> "leaked"
                [] OTHER -> "sending"]
      /\ sender' = [sender EXCEPT ![o] =
              IF life[u] \in {"destroyed", "exited"} THEN None ELSE t]
      /\ target' = [target EXCEPT ![o] = u]
      /\ life' = life /\ queue' = queue /\ stack' = stack
  BY DEF SendBegin, threadVars
<1>2. /\ status'[o] \in {"dangling", "leaked", "sending"} /\ target'[o] = u
      /\ \A p \in Ops \ {o} : status'[p] = status[p] /\ target'[p] = target[p]
                             /\ sender'[p] = sender[p]
  BY <1>1 DEF TypeOK
<1>3. Placed'
  BY <1>1, <1>2 DEF Placed, RingPlaced, BatchPlaced, RunPlaced
<1>4. Shape'
  BY <1>1 DEF Shape
<1>5. Tracked'
  BY <1>1, <1>2, Constants DEF Tracked, TypeOK
<1>6. status'[o] = "sending" =>
          sender'[o] = t /\ life[u] \notin {"destroyed", "exited"}
  BY <1>1 DEF TypeOK
<1>7. Senders'
  BY <1>1, <1>2, <1>6 DEF Senders, InUserCode, InClosure, On, Top, HandleUsable, TypeOK, LifeStates
<1>8. Quiet'
  <2>1. HandleScope # "any" => life[u] # "destroyed"
    BY <1>1 DEF HandleUsable
  <2>2. HandleScope # "any" => status'[o] # "dangling"
    BY <1>1, <2>1 DEF TypeOK
  <2> QED
    BY <1>1, <1>2, <2>2 DEF Quiet
<1>9. Replies'
  <2>1. tx[o] = "none" /\ rx[o] = "none" /\ slot[o] = None
    BY <1>1 DEF Replies
  <2>2. CASE isCall
    <3>1. /\ tx' = [tx EXCEPT ![o] = "owned"]
          /\ rx' = [rx EXCEPT ![o] = "waiting"] /\ slot' = slot
      BY <2>2 DEF SendBegin, NewPair
    <3> QED
      BY <3>1, <2>1, <1>2 DEF Replies, TypeOK, CompletionType
  <2>3. CASE ~isCall
    <3>1. tx' = tx /\ rx' = rx /\ slot' = slot
      BY <2>3 DEF SendBegin, completionVars
    <3> QED
      BY <3>1, <2>1, <1>2 DEF Replies
  <2> QED
    BY <2>2, <2>3
<1> QED
  BY <1>3, <1>4, <1>5, <1>7, <1>8, <1>9

LEMMA SendEndMoves ==
    ASSUME IInv, NEW o \in Ops, SendEnd(o)
    PROVE  /\ status[o] = "sending" /\ target[o] \in Threads
           /\ status'[o] \in {"dangling", "leaked", "queued"}
           /\ status'[o] # "queued" => queue' = queue /\ accepted' = accepted
           /\ status'[o] = "queued" => accepted' = Append(accepted, o)
           /\ \A p \in Ops \ {o} : status'[p] = status[p]
           /\ \A v \in Threads, i \in Int, p \in Ops : InRing(queue', v, i, p) <=>
                 \/ InRing(queue, v, i, p)
                 \/ /\ status'[o] = "queued" /\ v = target[o] /\ p = o
                    /\ i = Len(queue[target[o]]) + 1
<1> USE DEF IInv
<1> DEFINE u == target[o]
           n == Len(queue[u]) + 1
           Accepted == status'[o] = "queued"
<1>1. /\ status[o] = "sending" /\ status'[o] \in {"dangling", "leaked", "queued"}
      /\ \A p \in Ops \ {o} : status'[p] = status[p]
  BY DEF SendEnd, TypeOK
<1>2. u \in Threads
  BY <1>1 DEF Tracked, TypeOK
<1>3. /\ Accepted => queue' = [queue EXCEPT ![u] = Append(@, o)] /\ accepted' = Append(accepted, o)
      /\ ~Accepted => queue' = queue /\ accepted' = accepted
  BY <1>1 DEF SendEnd, Enqueue, TypeOK
<1>4. \A v \in Threads, i \in Int, p \in Ops : InRing(queue', v, i, p) <=>
          InRing(queue, v, i, p) \/ (Accepted /\ v = u /\ p = o /\ i = n)
  <2>1. CASE ~Accepted
    BY <1>3, <2>1
  <2>2. CASE Accepted
    <3> DEFINE s == queue[u]
    <3>1. s \in Seq(Ops) /\ queue'[u] = Append(s, o) /\ n = Len(s) + 1
      BY <1>2, <1>3, <2>2 DEF TypeOK
    <3>2. \A v \in Threads \ {u} : queue'[v] = queue[v]
      BY <1>2, <1>3, <2>2 DEF TypeOK
    <3> HIDE DEF s
    <3>3. \A i \in Int, p \in Ops : i \in 1..Len(Append(s, o)) /\ Append(s, o)[i] = p <=>
              (i \in 1..Len(s) /\ s[i] = p) \/ (p = o /\ i = Len(s) + 1)
      BY <3>1
    <3>4. \A v \in Threads \ {u}, i \in Int, p \in Ops :
              InRing(queue', v, i, p) <=> InRing(queue, v, i, p)
      BY <3>2 DEF InRing
    <3>5. \A i \in Int, p \in Ops : InRing(queue', u, i, p) <=>
              InRing(queue, u, i, p) \/ (p = o /\ i = n)
      BY <3>1, <3>3 DEF InRing, s
    <3> HIDE DEF n, u, Accepted
    <3> QED
      BY <3>4, <3>5, <2>2
  <2> QED
    BY <2>1, <2>2
<1> QED
  BY <1>1, <1>2, <1>3, <1>4

LEMMA SendEndKeeps ==
    ASSUME IInv, TypeOK', NEW o \in Ops, SendEnd(o)
    PROVE  IInv'
<1> USE DEF IInv
<1> DEFINE u == target[o]
           n == Len(queue[u]) + 1
           Accepted == status'[o] = "queued"
<1>1. /\ status[o] = "sending" /\ sender'[o] = None
      /\ life' = life /\ stack' = stack /\ target' = target
      /\ tx' = tx /\ rx' = rx /\ slot' = slot
      /\ status'[o] \in {"dangling", "leaked", "queued"}
      /\ \A p \in Ops \ {o} : status'[p] = status[p] /\ sender'[p] = sender[p]
  BY DEF SendEnd, completionVars, TypeOK
<1>2. u \in Threads
  BY <1>1 DEF Tracked, TypeOK
<1>3. /\ Accepted => life[u] # "destroyed" /\ queue' = [queue EXCEPT ![u] = Append(@, o)]
      /\ ~Accepted => queue' = queue
      /\ status'[o] = "dangling" => life[u] = "destroyed"
  BY <1>1 DEF SendEnd, Enqueue, TypeOK
<1>4. \A v \in Threads, i \in Int, p \in Ops : InRing(queue', v, i, p) <=>
          InRing(queue, v, i, p) \/ (Accepted /\ v = u /\ p = o /\ i = n)
  BY SendEndMoves
<1>5. n \in Int
  BY <1>2 DEF TypeOK
<1> HIDE DEF n
<1>6. Placed'
  <2>1. RingPlaced'
    BY <1>1, <1>4, <1>5 DEF Placed, RingPlaced
  <2>2. BatchPlaced' /\ RunPlaced'
    BY <1>1 DEF Placed, BatchPlaced, RunPlaced
  <2> QED
    BY <2>1, <2>2 DEF Placed
<1>7. Shape'
  BY <1>1 DEF Shape
<1>8. Tracked'
  BY <1>1, <1>2, <1>4, <1>5 DEF Tracked, TypeOK
<1>9. Senders'
  BY <1>1 DEF Senders, InClosure, On, Top
<1>10. HandleScope # "any" => life[u] \in {"running", "exiting"}
  BY <1>1 DEF Senders
<1>11. Quiet'
  <2>1. ASSUME HandleScope # "any", NEW v \in Threads, life[v] \in {"exited", "destroyed"}
        PROVE  queue'[v] = <<>>
    <3>1. queue[v] = <<>> /\ v # u
      BY <2>1, <1>10 DEF Quiet
    <3> QED
      BY <3>1, <1>3 DEF TypeOK
  <2> QED
    BY <1>1, <1>3, <1>10, <2>1 DEF Quiet
<1>12. Replies'
  BY <1>1 DEF Replies
<1> QED
  BY <1>6, <1>7, <1>8, <1>9, <1>11, <1>12

(* What a poll takes and where it goes. *)
PollMoves(t, n) ==
    /\ \A p \in Ops : status'[p] =
           IF \E i \in Int : i \in 1..BatchLen(t, n) /\ InRing(queue, t, i, p)
           THEN "batched" ELSE status[p]
    /\ \A v \in Threads, i \in Int, p \in Ops : InRing(queue', v, i, p) <=>
           IF v = t THEN i >= 1 /\ InRing(queue, t, BatchLen(t, n) + i, p)
           ELSE InRing(queue, v, i, p)
    /\ \A v \in Threads, p \in Ops, k, i \in Int : InBatch(stack', v, k, i, p) <=>
           IF v # t THEN InBatch(stack, v, k, i, p)
           ELSE IF k = 1 THEN i \in 1..BatchLen(t, n) /\ InRing(queue, t, i, p)
           ELSE InBatch(stack, t, k - 1, i, p)
    /\ \A v \in Threads, p \in Ops, k \in Int : Runs(stack', v, k, p) <=>
           IF v # t THEN Runs(stack, v, k, p) ELSE k # 1 /\ Runs(stack, t, k - 1, p)

LEMMA PollBeginMoves ==
    ASSUME IInv, TypeOK', NEW t \in Threads, NEW n \in 1..Batch, PollBegin(t, n)
    PROVE  PollMoves(t, n)
<1> USE DEF IInv
<1> DEFINE s == queue[t]
           b == BatchLen(t, n)
           f == PollFrame(Taken(t, n))
<1>1. /\ life' = life /\ sender' = sender /\ target' = target
      /\ tx' = tx /\ rx' = rx /\ slot' = slot
      /\ MayPoll(t) \/ KeepsPolling(t)
      /\ stack' = [stack EXCEPT ![t] = <<f>> \o @]
      /\ queue' = [queue EXCEPT ![t] = SubSeq(s, b + 1, Len(s))]
      /\ status' = [p \in Ops |->
             IF \E i \in 1..b : Taken(t, n)[i] = p THEN "batched" ELSE status[p]]
  BY DEF PollBegin, Push, Left, completionVars
<1>2. s \in Seq(Ops) /\ Len(s) \in Nat /\ b \in 0..Len(s) /\ b \in Nat
  BY DEF TypeOK, BatchLen
<1>3. /\ Taken(t, n) \in Seq(Ops) /\ Len(Taken(t, n)) = b
      /\ \A i \in 1..b : Taken(t, n)[i] = s[i]
      /\ Len(SubSeq(s, b + 1, Len(s))) = Len(s) - b
      /\ \A i \in 1..(Len(s) - b) : SubSeq(s, b + 1, Len(s))[i] = s[b + i]
  BY <1>2, SplitRing DEF Taken
<1>4. f \in Frame /\ f.kind = "poll" /\ f.op = None /\ f.batch = Taken(t, n)
  BY <1>3, Frames DEF PollFrame
<1>5. Pushed(t, f)
  BY <1>1, <1>4, PushStack DEF TypeOK
<1>6. queue'[t] = SubSeq(s, b + 1, Len(s)) /\ \A v \in Threads \ {t} : queue'[v] = queue[v]
  BY <1>1 DEF TypeOK
<1> HIDE DEF f, s, b
<1>7. \A p \in Ops : status'[p] =
          IF \E i \in Int : i \in 1..b /\ InRing(queue, t, i, p) THEN "batched" ELSE status[p]
  <2>1. \A p \in Ops : (\E i \in 1..b : Taken(t, n)[i] = p) <=>
            (\E i \in Int : i \in 1..b /\ InRing(queue, t, i, p))
    BY <1>2, <1>3 DEF InRing, s
  <2> QED
    BY <1>1, <2>1
<1>8. \A v \in Threads, i \in Int, p \in Ops : InRing(queue', v, i, p) <=>
          IF v = t THEN i >= 1 /\ InRing(queue, t, b + i, p) ELSE InRing(queue, v, i, p)
  <2>1. \A i \in Int, p \in Ops : InRing(queue', t, i, p) <=> i >= 1 /\ InRing(queue, t, b + i, p)
    <3> TAKE i \in Int, p \in Ops
    <3>1. i \in 1..(Len(s) - b) <=> i >= 1 /\ b + i \in 1..Len(s)
      BY <1>2
    <3> QED
      BY <1>3, <1>6, <3>1 DEF InRing, s
  <2>2. \A v \in Threads \ {t}, i \in Int, p \in Ops :
            InRing(queue', v, i, p) <=> InRing(queue, v, i, p)
    BY <1>6 DEF InRing
  <2> QED
    BY <2>1, <2>2
<1>9. \A v \in Threads, p \in Ops, k, i \in Int : InBatch(stack', v, k, i, p) <=>
          IF v # t THEN InBatch(stack, v, k, i, p)
          ELSE IF k = 1 THEN i \in 1..b /\ InRing(queue, t, i, p)
          ELSE InBatch(stack, t, k - 1, i, p)
  <2>1. \A p \in Ops, i \in Int :
            (i \in 1..Len(f.batch) /\ f.batch[i] = p) <=> (i \in 1..b /\ InRing(queue, t, i, p))
    BY <1>2, <1>3, <1>4 DEF InRing, s
  <2> QED
    BY <1>4, <1>5, <2>1, PushPlaces
<1>10. \A v \in Threads, p \in Ops, k \in Int : Runs(stack', v, k, p) <=>
          IF v # t THEN Runs(stack, v, k, p) ELSE k # 1 /\ Runs(stack, t, k - 1, p)
  BY <1>4, <1>5, PushPlaces, Constants
<1> QED
  BY <1>7, <1>8, <1>9, <1>10 DEF PollMoves, b

LEMMA PollBeginKeeps ==
    ASSUME IInv, TypeOK', NEW t \in Threads, NEW n \in 1..Batch, PollBegin(t, n)
    PROVE  IInv'
<1> USE DEF IInv
<1> DEFINE s == queue[t]
           b == BatchLen(t, n)
           f == PollFrame(Taken(t, n))
<1>1. /\ life' = life /\ sender' = sender /\ target' = target
      /\ tx' = tx /\ rx' = rx /\ slot' = slot
      /\ MayPoll(t) \/ KeepsPolling(t)
      /\ stack' = [stack EXCEPT ![t] = <<f>> \o @]
      /\ queue' = [queue EXCEPT ![t] = SubSeq(s, b + 1, Len(s))]
      /\ status' = [p \in Ops |->
             IF \E i \in 1..b : Taken(t, n)[i] = p THEN "batched" ELSE status[p]]
  BY DEF PollBegin, Push, Left, completionVars
<1>2. s \in Seq(Ops) /\ Len(s) \in Nat /\ b \in 0..Len(s) /\ b \in Nat
  BY DEF TypeOK, BatchLen
<1>3. /\ Taken(t, n) \in Seq(Ops) /\ Len(Taken(t, n)) = b
      /\ \A i \in 1..b : Taken(t, n)[i] = s[i]
      /\ Len(SubSeq(s, b + 1, Len(s))) = Len(s) - b
      /\ \A i \in 1..(Len(s) - b) : SubSeq(s, b + 1, Len(s))[i] = s[b + i]
  BY <1>2, SplitRing DEF Taken
<1>4. f \in Frame /\ f.kind = "poll" /\ f.op = None /\ f.batch = Taken(t, n)
  BY <1>3, Frames DEF PollFrame
<1>5. Pushed(t, f)
  BY <1>1, <1>4, PushStack DEF TypeOK
<1>6. queue'[t] = SubSeq(s, b + 1, Len(s)) /\ \A v \in Threads \ {t} : queue'[v] = queue[v]
  BY <1>1 DEF TypeOK
<1> HIDE DEF f, s, b
<1>7. \A p \in Ops : status'[p] =
          IF \E i \in Int : i \in 1..b /\ InRing(queue, t, i, p) THEN "batched" ELSE status[p]
  BY PollBeginMoves DEF PollMoves, b
<1>8. \A v \in Threads, i \in Int, p \in Ops : InRing(queue', v, i, p) <=>
          IF v = t THEN i >= 1 /\ InRing(queue, t, b + i, p) ELSE InRing(queue, v, i, p)
  BY PollBeginMoves DEF PollMoves, b
<1>9. \A v \in Threads, p \in Ops, k, i \in Int : InBatch(stack', v, k, i, p) <=>
          IF v # t THEN InBatch(stack, v, k, i, p)
          ELSE IF k = 1 THEN i \in 1..b /\ InRing(queue, t, i, p)
          ELSE InBatch(stack, t, k - 1, i, p)
  BY PollBeginMoves DEF PollMoves, b
<1>10. \A v \in Threads, p \in Ops, k \in Int : Runs(stack', v, k, p) <=>
          IF v # t THEN Runs(stack, v, k, p) ELSE k # 1 /\ Runs(stack, t, k - 1, p)
  BY PollBeginMoves DEF PollMoves, b
<1>11. Placed'
  <2>1. RingPlaced'
    <3> SUFFICES ASSUME NEW v \in Threads, NEW p \in Ops, NEW i \in Int, InRing(queue', v, i, p)
        PROVE  /\ status'[p] = "queued" /\ target[p] = v
               /\ \A j \in Int : InRing(queue', v, j, p) => i = j
      BY <1>1 DEF RingPlaced
    <3>1. CASE v = t
      <4>1. i >= 1 /\ b + i \in Int /\ InRing(queue, t, b + i, p)
        BY <3>1, <1>2, <1>8
      <4>2. /\ status[p] = "queued" /\ target[p] = t
            /\ \A j \in Int : InRing(queue, t, j, p) => b + i = j
        BY <4>1 DEF Placed, RingPlaced
      <4>3. ~\E j \in Int : j \in 1..b /\ InRing(queue, t, j, p)
        BY <4>1, <4>2, <1>2
      <4>4. ASSUME NEW j \in Int, InRing(queue', t, j, p) PROVE i = j
        BY <4>2, <4>4, <1>2, <1>8
      <4> QED
        BY <3>1, <4>2, <4>3, <4>4, <1>7
    <3>2. CASE v # t
      <4>1. InRing(queue, v, i, p)
        BY <3>2, <1>8
      <4>2. /\ status[p] = "queued" /\ target[p] = v
            /\ \A j \in Int : InRing(queue, v, j, p) => i = j
        BY <4>1 DEF Placed, RingPlaced
      <4>3. ~\E j \in Int : j \in 1..b /\ InRing(queue, t, j, p)
        BY <3>2, <4>2 DEF Placed, RingPlaced
      <4> QED
        BY <3>2, <4>2, <4>3, <1>7, <1>8
    <3> QED
      BY <3>1, <3>2
  <2>2. BatchPlaced'
    <3> SUFFICES ASSUME NEW v \in Threads, NEW p \in Ops, NEW k \in Int, NEW i \in Int,
                        InBatch(stack', v, k, i, p)
        PROVE  /\ status'[p] = "batched" /\ target'[p] = v
               /\ \A l, j \in Int : InBatch(stack', v, l, j, p) => k = l /\ i = j
      BY DEF BatchPlaced
    <3>1. CASE v = t /\ k = 1
      <4>1. i \in 1..b /\ InRing(queue, t, i, p)
        BY <3>1, <1>9
      <4>2. /\ status[p] = "queued" /\ target[p] = t
            /\ \A j \in Int : InRing(queue, t, j, p) => i = j
        BY <4>1 DEF Placed, RingPlaced
      <4>3. ~\E l, j \in Int : InBatch(stack, t, l, j, p)
        BY <4>2 DEF Placed, BatchPlaced
      <4>4. ASSUME NEW l \in Int, NEW j \in Int, InBatch(stack', t, l, j, p) PROVE l = 1 /\ i = j
        <5>1. l = 1
          BY <4>3, <4>4, <1>9
        <5> QED
          BY <4>2, <4>4, <5>1, <1>9
      <4> QED
        BY <3>1, <4>1, <4>2, <4>4, <1>1, <1>7
    <3>2. CASE ~(v = t /\ k = 1)
      <4> DEFINE m == IF v = t THEN k - 1 ELSE k
      <4>1. m \in Int /\ InBatch(stack, v, m, i, p)
        BY <3>2, <1>9
      <4>2. /\ status[p] = "batched" /\ target[p] = v
            /\ \A l, j \in Int : InBatch(stack, v, l, j, p) => m = l /\ i = j
        BY <4>1 DEF Placed, BatchPlaced
      <4>3. ~\E j \in Int : j \in 1..b /\ InRing(queue, t, j, p)
        BY <4>2 DEF Placed, RingPlaced
      <4>4. ASSUME NEW l \in Int, NEW j \in Int, InBatch(stack', v, l, j, p) PROVE k = l /\ i = j
        <5>1. (IF v = t THEN l - 1 ELSE l) \in Int /\ InBatch(stack, v, IF v = t THEN l - 1 ELSE l, j, p)
          BY <4>3, <4>4, <1>9
        <5> QED
          BY <4>2, <5>1
      <4> QED
        BY <4>2, <4>3, <4>4, <1>1, <1>7
    <3> QED
      BY <3>1, <3>2
  <2>3. RunPlaced'
    <3> SUFFICES ASSUME NEW v \in Threads, NEW p \in Ops, NEW k \in Int, Runs(stack', v, k, p)
        PROVE  /\ status'[p] = "running" /\ target[p] = v
               /\ \A l \in Int : Runs(stack', v, l, p) => k = l
      BY <1>1 DEF RunPlaced
    <3> DEFINE m == IF v = t THEN k - 1 ELSE k
    <3>1. m \in Int /\ Runs(stack, v, m, p)
      BY <1>10
    <3>2. /\ status[p] = "running" /\ target[p] = v
          /\ \A l \in Int : Runs(stack, v, l, p) => m = l
      BY <3>1 DEF Placed, RunPlaced
    <3>3. ~\E j \in Int : j \in 1..b /\ InRing(queue, t, j, p)
      BY <3>2 DEF Placed, RingPlaced
    <3>4. ASSUME NEW l \in Int, Runs(stack', v, l, p) PROVE k = l
      <4>1. (IF v = t THEN l - 1 ELSE l) \in Int /\ Runs(stack, v, IF v = t THEN l - 1 ELSE l, p)
        BY <3>4, <1>10
      <4> QED
        BY <3>2, <4>1
    <3> QED
      BY <3>2, <3>3, <3>4, <1>7
  <2> QED
    BY <2>1, <2>2, <2>3 DEF Placed
<1>12. Tracked'
  <2> SUFFICES ASSUME NEW p \in Ops
      PROVE  /\ status'[p] = "idle" <=> target'[p] = None
             /\ status'[p] = "sending" <=> sender'[p] # None
             /\ status'[p] = "queued" => \E i \in Int : InRing(queue', target'[p], i, p)
             /\ status'[p] = "batched" => \E k, i \in Int : InBatch(stack', target'[p], k, i, p)
             /\ status'[p] = "running" => \E k \in Int : Runs(stack', target'[p], k, p)
    BY DEF Tracked
  <2>1. CASE \E i \in Int : i \in 1..b /\ InRing(queue, t, i, p)
    <3>1. status[p] = "queued" /\ target[p] = t /\ status'[p] = "batched"
      BY <2>1, <1>7 DEF Placed, RingPlaced
    <3>2. \E i \in Int : InBatch(stack', t, 1, i, p)
      BY <2>1, <1>9
    <3> QED
      BY <3>1, <3>2, <1>1 DEF Tracked
  <2>2. CASE ~\E i \in Int : i \in 1..b /\ InRing(queue, t, i, p)
    <3>1. status'[p] = status[p] /\ target'[p] = target[p] /\ sender'[p] = sender[p]
      BY <2>2, <1>1, <1>7
    <3>2. status[p] # "idle" => target[p] \in Threads
      BY DEF Tracked, TypeOK
    <3>3. ASSUME status[p] = "queued" PROVE \E i \in Int : InRing(queue', target[p], i, p)
      <4>1. PICK i \in Int : InRing(queue, target[p], i, p)
        BY <3>3 DEF Tracked
      <4>2. CASE target[p] # t
        BY <4>1, <4>2, <3>2, <3>3, <1>8
      <4>3. CASE target[p] = t
        <5>1. i >= 1 /\ i \notin 1..b
          BY <4>1, <4>3, <2>2 DEF InRing
        <5>2. i - b >= 1 /\ i - b \in Int /\ b + (i - b) = i
          BY <5>1, <1>2
        <5>3. InRing(queue', t, i - b, p)
          BY <4>1, <4>3, <5>2, <1>8
        <5> QED
          BY <4>3, <5>2, <5>3
      <4> QED
        BY <4>2, <4>3
    <3>4. ASSUME status[p] = "batched" PROVE \E k, i \in Int : InBatch(stack', target[p], k, i, p)
      <4>1. PICK k \in Int, i \in Int : InBatch(stack, target[p], k, i, p)
        BY <3>4 DEF Tracked
      <4>2. k >= 1 /\ k + 1 \in Int /\ k + 1 # 1 /\ (k + 1) - 1 = k
        BY <4>1 DEF InBatch
      <4>3. InBatch(stack', target[p], IF target[p] = t THEN k + 1 ELSE k, i, p)
        BY <4>1, <4>2, <3>2, <3>4, <1>9
      <4> QED
        BY <4>2, <4>3
    <3>5. ASSUME status[p] = "running" PROVE \E k \in Int : Runs(stack', target[p], k, p)
      <4>1. PICK k \in Int : Runs(stack, target[p], k, p)
        BY <3>5 DEF Tracked
      <4>2. k >= 1 /\ k + 1 \in Int /\ k + 1 # 1 /\ (k + 1) - 1 = k
        BY <4>1 DEF Runs
      <4>3. Runs(stack', target[p], IF target[p] = t THEN k + 1 ELSE k, p)
        BY <4>1, <4>2, <3>2, <3>5, <1>10
      <4> QED
        BY <4>2, <4>3
    <3> QED
      BY <3>1, <3>3, <3>4, <3>5 DEF Tracked
  <2> QED
    BY <2>1, <2>2
<1>13. ~MidSend(t) /\ (life[t] = "destroyed" => FALSE)
  <2>1. CASE MayPoll(t)
    BY <2>1 DEF MayPoll, InUserCode, InClosure, On, Shape
  <2>2. CASE KeepsPolling(t)
    BY <2>2, NoSender DEF KeepsPolling, InClosure, On, Shape
  <2> QED
    BY <1>1, <2>1, <2>2
<1>14. Shape'
  BY <1>1, <1>4, <1>5, <1>13, PushShape
<1>15. Senders'
  <2>1. \A v \in Threads \ {t} : stack'[v] = stack[v]
    BY <1>5 DEF Pushed
  <2>2. \A p \in Ops : status'[p] = "sending" <=> status[p] = "sending"
    BY <1>7 DEF Placed, RingPlaced
  <2> QED
    BY <2>1, <2>2, <1>1, <1>13, OthersSend
<1>16. Quiet'
  <2>1. ASSUME HandleScope # "any", NEW v \in Threads, life[v] \in {"exited", "destroyed"}
        PROVE  queue'[v] = <<>>
    <3>1. queue[v] = <<>>
      BY <2>1 DEF Quiet
    <3>2. CASE v = t
      <4>1. Len(queue'[t]) = 0
        BY <3>1, <3>2, <1>2, <1>3, <1>6 DEF s
      <4> QED
        BY <4>1, <3>2 DEF TypeOK
    <3> QED
      BY <3>1, <3>2, <1>6
  <2> QED
    BY <1>1, <1>7, <2>1 DEF Quiet
<1>17. Replies'
  BY <1>1, <1>7 DEF Replies, Placed, RingPlaced
<1> QED
  BY <1>11, <1>12, <1>14, <1>15, <1>16, <1>17

(* The first message of a batch starts. *)
RunMoves(t, o) ==
    /\ o \in Ops /\ InBatch(stack, t, 1, 1, o)
    /\ status[o] = "batched" /\ target[o] = t
    /\ \A l, j \in Int : InBatch(stack, t, l, j, o) => 1 = l /\ 1 = j
    /\ status'[o] = "running" /\ \A p \in Ops \ {o} : status'[p] = status[p]
    /\ \A v \in Threads, p \in Ops, k, i \in Int : InBatch(stack', v, k, i, p) <=>
           IF v = t /\ k = 1 THEN i >= 1 /\ InBatch(stack, t, 1, i + 1, p)
           ELSE InBatch(stack, v, k, i, p)
    /\ \A v \in Threads, p \in Ops, k \in Int : Runs(stack', v, k, p) <=>
           IF v = t /\ k = 1 THEN p = o ELSE Runs(stack, v, k, p)

LEMMA RunMsgMoves ==
    ASSUME IInv, TypeOK', NEW t \in Threads, RunMsg(t)
    PROVE  RunMoves(t, Head(Top(t).batch))
<1> USE DEF IInv
<1> DEFINE b == Top(t).batch
           o == Head(b)
           f == [kind |-> "poll", op |-> o, batch |-> Tail(b)]
<1>1. /\ stack[t] # <<>> /\ Top(t).kind = "poll" /\ Top(t).op = None /\ b # <<>>
      /\ life' = life /\ queue' = queue /\ sender' = sender /\ target' = target
      /\ tx' = tx /\ rx' = rx /\ slot' = slot
      /\ status' = [status EXCEPT ![o] = "running"]
      /\ stack' = [stack EXCEPT ![t] = <<f>> \o Tail(@)]
  BY DEF RunMsg, On, completionVars
<1>2. b \in Seq(Ops)
  BY <1>1, TopFrame DEF TypeOK
<1>3. /\ Len(b) \in Nat \ {0} /\ o \in Ops /\ o = b[1]
      /\ Tail(b) \in Seq(Ops) /\ Len(Tail(b)) = Len(b) - 1
      /\ \A i \in 1..Len(b) - 1 : Tail(b)[i] = b[i + 1]
  <2> HIDE DEF b
  <2> QED
    BY <1>1, <1>2
<1>4. f \in Frame /\ f.kind = "poll" /\ f.op = o /\ f.batch = Tail(b)
  BY <1>3 DEF Frame
<1>5. Swapped(t, f)
  BY <1>1, <1>4, SwapStack DEF TypeOK
<1>6. stack[t] # <<>> /\ Len(stack[t]) \in Nat \ {0} /\ b = stack[t][1].batch
  BY <1>1 DEF TypeOK, Top
<1> HIDE DEF f, o, b
<1>7. InBatch(stack, t, 1, 1, o)
  BY <1>3, <1>6 DEF InBatch
<1>8. status[o] = "batched" /\ target[o] = t
      /\ \A l, j \in Int : InBatch(stack, t, l, j, o) => 1 = l /\ 1 = j
  BY <1>3, <1>7 DEF Placed, BatchPlaced
<1>9. status'[o] = "running" /\ \A p \in Ops \ {o} : status'[p] = status[p]
  BY <1>1, <1>3 DEF TypeOK
<1>10. \A v \in Threads, p \in Ops, k, i \in Int : InBatch(stack', v, k, i, p) <=>
           IF v = t /\ k = 1 THEN i >= 1 /\ InBatch(stack, t, 1, i + 1, p)
           ELSE InBatch(stack, v, k, i, p)
  <2>1. \A p \in Ops, i \in Int :
            (i \in 1..Len(f.batch) /\ f.batch[i] = p) <=> (i >= 1 /\ InBatch(stack, t, 1, i + 1, p))
    <3> TAKE p \in Ops, i \in Int
    <3>1. i \in 1..Len(b) - 1 <=> i >= 1 /\ i + 1 \in 1..Len(b)
      BY <1>3
    <3> QED
      BY <3>1, <1>3, <1>4, <1>6 DEF InBatch
  <2>2. \A v \in Threads, p \in Ops, k, i \in Int : InBatch(stack', v, k, i, p) <=>
            IF v # t \/ k # 1 THEN InBatch(stack, v, k, i, p)
            ELSE i \in 1..Len(f.batch) /\ f.batch[i] = p
    <3>1. f \in Frame
      BY <1>4
    <3> QED
      BY <3>1, <1>5, <1>6, SwapPlaces
  <2> QED
    BY <2>1, <2>2
<1>11. \A v \in Threads, p \in Ops, k \in Int : Runs(stack', v, k, p) <=>
           IF v = t /\ k = 1 THEN p = o ELSE Runs(stack, v, k, p)
  BY <1>4, <1>5, <1>6, SwapPlaces
<1> QED
  BY <1>3, <1>7, <1>8, <1>9, <1>10, <1>11 DEF RunMoves, o, b

LEMMA RunMsgKeeps ==
    ASSUME IInv, TypeOK', NEW t \in Threads, RunMsg(t)
    PROVE  IInv'
<1> USE DEF IInv
<1> DEFINE b == Top(t).batch
           o == Head(b)
           f == [kind |-> "poll", op |-> o, batch |-> Tail(b)]
<1>1. /\ stack[t] # <<>> /\ Top(t).kind = "poll" /\ Top(t).op = None /\ b # <<>>
      /\ life' = life /\ queue' = queue /\ sender' = sender /\ target' = target
      /\ tx' = tx /\ rx' = rx /\ slot' = slot
      /\ status' = [status EXCEPT ![o] = "running"]
      /\ stack' = [stack EXCEPT ![t] = <<f>> \o Tail(@)]
  BY DEF RunMsg, On, completionVars
<1>2. b \in Seq(Ops)
  BY <1>1, TopFrame DEF TypeOK
<1>3. /\ Len(b) \in Nat \ {0} /\ o \in Ops /\ o = b[1]
      /\ Tail(b) \in Seq(Ops) /\ Len(Tail(b)) = Len(b) - 1
      /\ \A i \in 1..Len(b) - 1 : Tail(b)[i] = b[i + 1]
  <2> HIDE DEF b
  <2> QED
    BY <1>1, <1>2
<1>4. f \in Frame /\ f.kind = "poll" /\ f.op = o /\ f.batch = Tail(b)
  BY <1>3 DEF Frame
<1>5. Swapped(t, f)
  BY <1>1, <1>4, SwapStack DEF TypeOK
<1>6. stack[t] # <<>> /\ Len(stack[t]) \in Nat \ {0} /\ b = stack[t][1].batch
  BY <1>1 DEF TypeOK, Top
<1> HIDE DEF f, o, b
<1>7. InBatch(stack, t, 1, 1, o)
  BY RunMsgMoves DEF RunMoves, o, b
<1>8. status[o] = "batched" /\ target[o] = t
      /\ \A l, j \in Int : InBatch(stack, t, l, j, o) => 1 = l /\ 1 = j
  BY RunMsgMoves DEF RunMoves, o, b
<1>9. status'[o] = "running" /\ \A p \in Ops \ {o} : status'[p] = status[p]
  BY RunMsgMoves DEF RunMoves, o, b
<1>10. \A v \in Threads, p \in Ops, k, i \in Int : InBatch(stack', v, k, i, p) <=>
           IF v = t /\ k = 1 THEN i >= 1 /\ InBatch(stack, t, 1, i + 1, p)
           ELSE InBatch(stack, v, k, i, p)
  BY RunMsgMoves DEF RunMoves, o, b
<1>11. \A v \in Threads, p \in Ops, k \in Int : Runs(stack', v, k, p) <=>
           IF v = t /\ k = 1 THEN p = o ELSE Runs(stack, v, k, p)
  BY RunMsgMoves DEF RunMoves, o, b
<1>12. \A k, i \in Int : ~InBatch(stack', t, k, i, o)
  BY <1>3, <1>8, <1>10
<1>13. Placed'
  <2>1. RingPlaced'
    BY <1>1, <1>8, <1>9 DEF Placed, RingPlaced
  <2>2. BatchPlaced'
    <3> SUFFICES ASSUME NEW v \in Threads, NEW p \in Ops, NEW k \in Int, NEW i \in Int,
                        InBatch(stack', v, k, i, p)
        PROVE  /\ status'[p] = "batched" /\ target'[p] = v
               /\ \A l, j \in Int : InBatch(stack', v, l, j, p) => k = l /\ i = j
      BY DEF BatchPlaced
    <3> DEFINE at(l, j) == IF v = t /\ l = 1 THEN j + 1 ELSE j
    <3>1. \A l, j \in Int : at(l, j) \in Int
              /\ (InBatch(stack', v, l, j, p) => InBatch(stack, v, l, at(l, j), p))
      BY <1>10
    <3>2. at(k, i) \in Int /\ InBatch(stack, v, k, at(k, i), p)
      BY <3>1
    <3>3. /\ status[p] = "batched" /\ target[p] = v
          /\ \A l, j \in Int : InBatch(stack, v, l, j, p) => k = l /\ at(k, i) = j
      BY <3>2 DEF Placed, BatchPlaced
    <3>4. p # o
      BY <3>3, <1>8, <1>12
    <3>5. ASSUME NEW l \in Int, NEW j \in Int, InBatch(stack', v, l, j, p) PROVE k = l /\ i = j
      <4>1. at(l, j) \in Int /\ InBatch(stack, v, l, at(l, j), p)
        BY <3>1, <3>5
      <4>2. k = l /\ at(k, i) = at(l, j)
        BY <3>3, <4>1
      <4> QED
        BY <4>2
    <3> QED
      BY <3>3, <3>4, <3>5, <1>1, <1>9
  <2>3. RunPlaced'
    <3> SUFFICES ASSUME NEW v \in Threads, NEW p \in Ops, NEW k \in Int, Runs(stack', v, k, p)
        PROVE  /\ status'[p] = "running" /\ target'[p] = v
               /\ \A l \in Int : Runs(stack', v, l, p) => k = l
      BY DEF RunPlaced
    <3>1. \A l \in Int : ~Runs(stack, v, l, o)
      BY <1>3, <1>8 DEF Placed, RunPlaced
    <3>2. CASE p = o
      BY <3>1, <3>2, <1>1, <1>3, <1>8, <1>9, <1>11
    <3>3. CASE p # o
      <4>1. \A l \in Int : Runs(stack', v, l, p) => Runs(stack, v, l, p)
        BY <3>3, <1>11
      <4>2. Runs(stack, v, k, p)
        BY <4>1
      <4>3. /\ status[p] = "running" /\ target[p] = v
            /\ \A l \in Int : Runs(stack, v, l, p) => k = l
        BY <4>2 DEF Placed, RunPlaced
      <4> QED
        BY <3>3, <4>1, <4>3, <1>1, <1>9
    <3> QED
      BY <3>2, <3>3
  <2> QED
    BY <2>1, <2>2, <2>3 DEF Placed
<1>14. Tracked'
  <2> SUFFICES ASSUME NEW p \in Ops
      PROVE  /\ status'[p] = "idle" <=> target'[p] = None
             /\ status'[p] = "sending" <=> sender'[p] # None
             /\ status'[p] = "queued" => \E i \in Int : InRing(queue', target'[p], i, p)
             /\ status'[p] = "batched" => \E k, i \in Int : InBatch(stack', target'[p], k, i, p)
             /\ status'[p] = "running" => \E k \in Int : Runs(stack', target'[p], k, p)
    BY DEF Tracked
  <2>1. CASE p = o
    <3>1. target'[o] = t /\ status'[o] = "running" /\ sender'[o] = None /\ t # None
      BY <1>1, <1>3, <1>8, <1>9, Constants DEF Tracked
    <3>2. Runs(stack', t, 1, o)
      BY <1>3, <1>11
    <3> QED
      BY <2>1, <3>1, <3>2
  <2>2. CASE p # o
    <3>1. status'[p] = status[p] /\ target'[p] = target[p] /\ sender'[p] = sender[p]
      BY <2>2, <1>1, <1>9
    <3>2. status[p] # "idle" => target[p] \in Threads
      BY DEF Tracked, TypeOK
    <3>3. ASSUME status[p] = "batched" PROVE \E k, i \in Int : InBatch(stack', target[p], k, i, p)
      <4>1. PICK k \in Int, i \in Int : InBatch(stack, target[p], k, i, p)
        BY <3>3 DEF Tracked
      <4>2. CASE target[p] = t /\ k = 1
        <5>1. i \in Int /\ i >= 1 /\ i # 1
          BY <4>1, <4>2, <2>2, <1>3, <1>6 DEF InBatch
        <5>2. i - 1 \in Int /\ i - 1 >= 1 /\ (i - 1) + 1 = i
          BY <5>1
        <5>3. InBatch(stack', t, 1, i - 1, p)
          BY <4>1, <4>2, <5>2, <1>10
        <5> QED
          BY <4>2, <5>2, <5>3
      <4>3. CASE ~(target[p] = t /\ k = 1)
        BY <4>1, <4>3, <3>2, <3>3, <1>10
      <4> QED
        BY <4>2, <4>3
    <3>4. ASSUME status[p] = "running" PROVE \E k \in Int : Runs(stack', target[p], k, p)
      <4>1. PICK k \in Int : Runs(stack, target[p], k, p)
        BY <3>4 DEF Tracked
      <4>2. ~(target[p] = t /\ k = 1)
        BY <4>1, <1>1, Constants DEF Runs, Top
      <4> QED
        BY <4>1, <4>2, <3>2, <3>4, <1>11
    <3> QED
      BY <3>1, <3>3, <3>4, <1>1 DEF Tracked
  <2> QED
    BY <2>1, <2>2
<1>15. Shape'
  BY <1>1, <1>4, <1>5, SwapShape
<1>16. Senders'
  <2>1. \A v \in Threads \ {t} : stack'[v] = stack[v]
    BY <1>5 DEF Swapped
  <2>2. \A p \in Ops : status'[p] = "sending" <=> status[p] = "sending"
    BY <1>8, <1>9
  <2>3. ~MidSend(t)
    BY <1>1, NoSender DEF InClosure
  <2> QED
    BY <2>1, <2>2, <2>3, <1>1, OthersSend
<1>17. Quiet'
  BY <1>1, <1>9 DEF Quiet
<1>18. Replies'
  BY <1>1, <1>8, <1>9 DEF Replies
<1> QED
  BY <1>13, <1>14, <1>15, <1>16, <1>17, <1>18

(* A closure ends. *)
FinishMoves(t, o) ==
    /\ o \in Ops /\ Runs(stack, t, 1, o)
    /\ status[o] = "running" /\ target[o] = t
    /\ \A l \in Int : Runs(stack, t, l, o) => 1 = l
    /\ status'[o] = "done" /\ \A p \in Ops \ {o} : status'[p] = status[p]
    /\ \A v \in Threads, p \in Ops, k, i \in Int :
           InBatch(stack', v, k, i, p) <=> InBatch(stack, v, k, i, p)
    /\ \A v \in Threads, p \in Ops, k \in Int : Runs(stack', v, k, p) <=>
           Runs(stack, v, k, p) /\ ~(v = t /\ k = 1)

LEMMA FinishMsgMoves ==
    ASSUME IInv, TypeOK', NEW t \in Threads, FinishMsg(t)
    PROVE  FinishMoves(t, Top(t).op)
<1> USE DEF IInv
<1> DEFINE b == Top(t).batch
           o == Top(t).op
           f == PollFrame(b)
<1>1. /\ InClosure(t) /\ ~MidSend(t) /\ stack[t] # <<>> /\ Top(t).kind = "poll" /\ o # None
      /\ life' = life /\ queue' = queue /\ sender' = sender /\ target' = target
      /\ status' = [status EXCEPT ![o] = "done"]
      /\ stack' = [stack EXCEPT ![t] = <<f>> \o Tail(@)]
  BY DEF FinishMsg, InClosure, On
<1>2. o \in Ops /\ b \in Seq(Ops)
  BY <1>1, TopFrame DEF TypeOK
<1>3. f \in Frame
  BY <1>2, Frames
<1>4. f.kind = "poll" /\ f.op = None /\ f.batch = b
  BY DEF PollFrame
<1>5. Swapped(t, f)
  BY <1>1, <1>3, SwapStack DEF TypeOK
<1>6. /\ stack[t] # <<>> /\ Len(stack[t]) \in Nat \ {0}
      /\ b = stack[t][1].batch /\ o = stack[t][1].op /\ stack[t][1].kind = "poll"
  BY <1>1 DEF TypeOK, Top
<1> HIDE DEF f, o, b
<1>7. Runs(stack, t, 1, o)
  BY <1>6 DEF Runs
<1>8. status[o] = "running" /\ target[o] = t /\ \A l \in Int : Runs(stack, t, l, o) => 1 = l
  BY <1>2, <1>7 DEF Placed, RunPlaced
<1>9. status'[o] = "done" /\ \A p \in Ops \ {o} : status'[p] = status[p]
  BY <1>1, <1>2 DEF TypeOK
<1>10. \A v \in Threads, p \in Ops, k, i \in Int :
           InBatch(stack', v, k, i, p) <=> InBatch(stack, v, k, i, p)
  <2>1. \A v \in Threads, p \in Ops, k, i \in Int : InBatch(stack', v, k, i, p) <=>
            IF v # t \/ k # 1 THEN InBatch(stack, v, k, i, p)
            ELSE i \in 1..Len(f.batch) /\ f.batch[i] = p
    <3>1. stack[t] # <<>>
      BY <1>6
    <3> QED
      BY <3>1, <1>3, <1>5, SwapPlaces
  <2>2. \A p \in Ops, i \in Int :
            (i \in 1..Len(f.batch) /\ f.batch[i] = p) <=> InBatch(stack, t, 1, i, p)
    BY <1>4, <1>6 DEF InBatch
  <2> QED
    BY <2>1, <2>2
<1>11. \A v \in Threads, p \in Ops, k \in Int : Runs(stack', v, k, p) <=>
           Runs(stack, v, k, p) /\ ~(v = t /\ k = 1)
  <2>1. \A v \in Threads, p \in Ops, k \in Int : Runs(stack', v, k, p) <=>
            IF v # t \/ k # 1 THEN Runs(stack, v, k, p) ELSE f.kind = "poll" /\ f.op = p
    BY <1>3, <1>5, <1>6, SwapPlaces
  <2> QED
    BY <2>1, <1>4, Constants
<1> QED
  BY <1>2, <1>7, <1>8, <1>9, <1>10, <1>11 DEF FinishMoves, o

LEMMA FinishMsgKeeps ==
    ASSUME IInv, TypeOK', NEW t \in Threads, FinishMsg(t)
    PROVE  IInv'
<1> USE DEF IInv
<1> DEFINE b == Top(t).batch
           o == Top(t).op
           f == PollFrame(b)
<1>1. /\ InClosure(t) /\ ~MidSend(t) /\ stack[t] # <<>> /\ Top(t).kind = "poll" /\ o # None
      /\ life' = life /\ queue' = queue /\ sender' = sender /\ target' = target
      /\ status' = [status EXCEPT ![o] = "done"]
      /\ stack' = [stack EXCEPT ![t] = <<f>> \o Tail(@)]
  BY DEF FinishMsg, InClosure, On
<1>2. o \in Ops /\ b \in Seq(Ops)
  BY <1>1, TopFrame DEF TypeOK
<1>3. f \in Frame
  BY <1>2, Frames
<1>4. f.kind = "poll" /\ f.op = None /\ f.batch = b
  BY DEF PollFrame
<1>5. Swapped(t, f)
  BY <1>1, <1>3, SwapStack DEF TypeOK
<1>6. /\ stack[t] # <<>> /\ Len(stack[t]) \in Nat \ {0}
      /\ b = stack[t][1].batch /\ o = stack[t][1].op /\ stack[t][1].kind = "poll"
  BY <1>1 DEF TypeOK, Top
<1> HIDE DEF f, o, b
<1>7. Runs(stack, t, 1, o)
  BY FinishMsgMoves DEF FinishMoves, o
<1>8. status[o] = "running" /\ target[o] = t /\ \A l \in Int : Runs(stack, t, l, o) => 1 = l
  BY FinishMsgMoves DEF FinishMoves, o
<1>9. status'[o] = "done" /\ \A p \in Ops \ {o} : status'[p] = status[p]
  BY FinishMsgMoves DEF FinishMoves, o
<1>10. \A v \in Threads, p \in Ops, k, i \in Int :
           InBatch(stack', v, k, i, p) <=> InBatch(stack, v, k, i, p)
  BY FinishMsgMoves DEF FinishMoves, o
<1>11. \A v \in Threads, p \in Ops, k \in Int : Runs(stack', v, k, p) <=>
           Runs(stack, v, k, p) /\ ~(v = t /\ k = 1)
  BY FinishMsgMoves DEF FinishMoves, o
<1>12. \A v \in Threads, k \in Int : ~Runs(stack', v, k, o)
  BY <1>2, <1>8, <1>11 DEF Placed, RunPlaced
<1>13. Placed'
  <2>1. RingPlaced'
    BY <1>1, <1>8, <1>9 DEF Placed, RingPlaced
  <2>2. BatchPlaced'
    <3> SUFFICES ASSUME NEW v \in Threads, NEW p \in Ops, NEW k \in Int, NEW i \in Int,
                        InBatch(stack', v, k, i, p)
        PROVE  /\ status'[p] = "batched" /\ target'[p] = v
               /\ \A l, j \in Int : InBatch(stack', v, l, j, p) => k = l /\ i = j
      BY DEF BatchPlaced
    <3>1. InBatch(stack, v, k, i, p)
      BY <1>10
    <3>2. /\ status[p] = "batched" /\ target[p] = v
          /\ \A l, j \in Int : InBatch(stack, v, l, j, p) => k = l /\ i = j
      BY <3>1 DEF Placed, BatchPlaced
    <3> QED
      BY <3>2, <1>1, <1>8, <1>9, <1>10
  <2>3. RunPlaced'
    <3> SUFFICES ASSUME NEW v \in Threads, NEW p \in Ops, NEW k \in Int, Runs(stack', v, k, p)
        PROVE  /\ status'[p] = "running" /\ target'[p] = v
               /\ \A l \in Int : Runs(stack', v, l, p) => k = l
      BY DEF RunPlaced
    <3>1. Runs(stack, v, k, p) /\ p # o
      BY <1>11, <1>12
    <3>2. /\ status[p] = "running" /\ target[p] = v
          /\ \A l \in Int : Runs(stack, v, l, p) => k = l
      BY <3>1 DEF Placed, RunPlaced
    <3> QED
      BY <3>1, <3>2, <1>1, <1>9, <1>11
  <2> QED
    BY <2>1, <2>2, <2>3 DEF Placed
<1>14. Tracked'
  <2> SUFFICES ASSUME NEW p \in Ops
      PROVE  /\ status'[p] = "idle" <=> target'[p] = None
             /\ status'[p] = "sending" <=> sender'[p] # None
             /\ status'[p] = "queued" => \E i \in Int : InRing(queue', target'[p], i, p)
             /\ status'[p] = "batched" => \E k, i \in Int : InBatch(stack', target'[p], k, i, p)
             /\ status'[p] = "running" => \E k \in Int : Runs(stack', target'[p], k, p)
    BY DEF Tracked
  <2>1. CASE p = o
    BY <2>1, <1>1, <1>2, <1>8, <1>9, Constants DEF Tracked
  <2>2. CASE p # o
    <3>1. status'[p] = status[p] /\ target'[p] = target[p] /\ sender'[p] = sender[p]
      BY <2>2, <1>1, <1>9
    <3>2. status[p] # "idle" => target[p] \in Threads
      BY DEF Tracked, TypeOK
    <3>3. ASSUME status[p] = "batched" PROVE \E k, i \in Int : InBatch(stack', target[p], k, i, p)
      BY <3>2, <3>3, <1>10 DEF Tracked
    <3>4. ASSUME status[p] = "running" PROVE \E k \in Int : Runs(stack', target[p], k, p)
      <4>1. PICK k \in Int : Runs(stack, target[p], k, p)
        BY <3>4 DEF Tracked
      <4>2. ~(target[p] = t /\ k = 1)
        BY <4>1, <2>2, <1>6 DEF Runs
      <4> QED
        BY <4>1, <4>2, <3>2, <3>4, <1>11
    <3> QED
      BY <3>1, <3>3, <3>4, <1>1 DEF Tracked
  <2> QED
    BY <2>1, <2>2
<1>15. Shape'
  BY <1>1, <1>3, <1>4, <1>5, SwapShape
<1>16. Senders'
  <2>1. \A v \in Threads \ {t} : stack'[v] = stack[v]
    BY <1>5 DEF Swapped
  <2>2. \A p \in Ops : status'[p] = "sending" <=> status[p] = "sending"
    BY <1>8, <1>9
  <2> QED
    BY <2>1, <2>2, <1>1, OthersSend
<1>17. Quiet'
  BY <1>1, <1>9 DEF Quiet
<1>18. Replies'
  <2>1. /\ rx' = [p \in Ops |-> IF rx[p] = "waiting" /\ holder[p] = o THEN "dropped" ELSE rx[p]]
        /\ IF tx[o] = "owned" THEN Deliver(o, "ok") ELSE tx' = tx /\ slot' = slot
    BY DEF FinishMsg, o
  <2>2. \A p \in Ops : /\ rx'[p] = "none" <=> rx[p] = "none"
                       /\ rx'[p] = "waiting" => rx[p] = "waiting"
                       /\ rx'[p] = "resolved" <=> rx[p] = "resolved"
    BY <2>1 DEF TypeOK, CompletionType
  <2>3. CASE tx[o] = "owned"
    <3>1. /\ tx' = [tx EXCEPT ![o] = "gone"]
          /\ slot' = [slot EXCEPT ![o] = IF rx[o] = "waiting" THEN "ok" ELSE @]
      BY <2>1, <2>3 DEF Deliver
    <3>2. /\ tx'[o] = "gone" /\ slot'[o] = (IF rx[o] = "waiting" THEN "ok" ELSE slot[o])
          /\ \A p \in Ops \ {o} : tx'[p] = tx[p] /\ slot'[p] = slot[p]
      BY <3>1, <1>2 DEF TypeOK, CompletionType
    <3> QED
      BY <3>2, <2>2, <2>3, <1>2, <1>8, <1>9 DEF Replies
  <2>4. CASE tx[o] # "owned"
    <3>1. tx' = tx /\ slot' = slot
      BY <2>1, <2>4
    <3> QED
      BY <3>1, <2>2, <2>4, <1>2, <1>8, <1>9 DEF Replies
  <2> QED
    BY <2>3, <2>4
<1> QED
  BY <1>13, <1>14, <1>15, <1>16, <1>17, <1>18

LEMMA PollEndKeeps ==
    ASSUME IInv, TypeOK', NEW t \in Threads, PollEnd(t)
    PROVE  IInv'
<1> USE DEF IInv
<1>1. /\ stack[t] # <<>> /\ Top(t).kind = "poll" /\ Top(t).op = None /\ Top(t).batch = <<>>
      /\ stack' = [stack EXCEPT ![t] = Tail(@)]
      /\ life' = [life EXCEPT ![t] = IF MayExit(t) THEN "exited" ELSE @]
      /\ queue' = queue /\ status' = status /\ sender' = sender /\ target' = target
      /\ tx' = tx /\ rx' = rx /\ slot' = slot
  BY DEF PollEnd, On, Pop, opVars, completionVars
<1>2. Popped(t)
  BY <1>1, PopStack DEF TypeOK
<1>3. ~InClosure(t) /\ ~MidSend(t)
  BY <1>1, NoSender DEF InClosure
<1>4. /\ life'[t] = life[t] \/ (life[t] = "exiting" /\ life'[t] = "exited" /\ queue[t] = <<>>)
      /\ \A v \in Threads \ {t} : life'[v] = life[v]
  BY <1>1 DEF MayExit, TypeOK
<1>5. Placed' /\ Tracked'
  BY <1>1, <1>2, <1>3, PopNothing
<1>6. Shape'
  <2>1. life'[t] # "destroyed"
    BY <1>1, <1>4 DEF Shape
  <2> QED
    BY <2>1, <1>1, <1>2, <1>4, PopShape
<1>7. Senders'
  <2>1. \A v \in Threads \ {t} : stack'[v] = stack[v]
    BY <1>2 DEF Popped
  <2>2. ASSUME HandleScope # "any", NEW p \in Ops, status[p] = "sending"
        PROVE  life'[target[p]] = life[target[p]]
    <3>1. target[p] \in Threads /\ sender[p] # t
      BY <2>2, <1>3 DEF Tracked, TypeOK, MidSend
    <3>2. target[p] = t => life[t] = "running"
      BY <2>2, <3>1 DEF Senders
    <3> QED
      BY <3>1, <3>2, <1>4
  <2> QED
    BY <2>1, <2>2, <1>1, <1>3, OthersSend
<1>8. Quiet'
  BY <1>1, <1>4 DEF Quiet
<1>9. Replies'
  BY <1>1 DEF Replies
<1> QED
  BY <1>5, <1>6, <1>7, <1>8, <1>9

LEMMA BlockOnKeeps ==
    ASSUME IInv, TypeOK', NEW t \in Threads, NEW o \in Ops, BlockOn(t, o)
    PROVE  IInv'
<1> USE DEF IInv
<1> DEFINE f == BlockOnFrame(o)
<1>1. /\ MayPoll(t) /\ stack' = [stack EXCEPT ![t] = <<f>> \o @]
      /\ life' = life /\ queue' = queue /\ status' = status
      /\ sender' = sender /\ target' = target
      /\ tx' = tx /\ rx' = rx /\ slot' = slot
  BY DEF BlockOn, Push, completionVars
<1>2. f \in Frame
  BY Frames
<1>3. f.kind = "block_on" /\ f.op = o /\ f.batch = <<>>
  BY DEF BlockOnFrame
<1>4. Pushed(t, f)
  BY <1>1, <1>2, PushStack DEF TypeOK
<1> HIDE DEF f
<1>5. ~MidSend(t) /\ life[t] # "destroyed"
  BY <1>1 DEF MayPoll, InUserCode, InClosure, On, Shape
<1>6. Placed' /\ Tracked'
  BY <1>1, <1>2, <1>3, <1>4, PushNothing
<1>7. Shape'
  BY <1>1, <1>2, <1>3, <1>4, <1>5, PushShape
<1>8. Senders'
  <2>1. \A v \in Threads \ {t} : stack'[v] = stack[v]
    BY <1>4 DEF Pushed
  <2> QED
    BY <2>1, <1>1, <1>5, OthersSend
<1>9. Quiet' /\ Replies'
  BY <1>1 DEF Quiet, Replies
<1> QED
  BY <1>6, <1>7, <1>8, <1>9

LEMMA BlockOnReturnKeeps ==
    ASSUME IInv, TypeOK', NEW t \in Threads, BlockOnReturn(t)
    PROVE  IInv'
<1> USE DEF IInv
<1> DEFINE o == Top(t).op
<1>1. /\ stack[t] # <<>> /\ Top(t).kind = "block_on"
      /\ stack' = [stack EXCEPT ![t] = Tail(@)]
      /\ life' = life /\ queue' = queue /\ status' = status
      /\ sender' = sender /\ target' = target
      /\ Ready(o) /\ rx' = [rx EXCEPT ![o] = "resolved"] /\ tx' = tx /\ slot' = slot
  BY DEF BlockOnReturn, On, Pop, Resolve, opVars
<1>2. Popped(t)
  BY <1>1, PopStack DEF TypeOK
<1>3. Top(t).batch = <<>> /\ o \in Ops /\ ~InClosure(t)
  <2>1. Top(t) = stack[t][1] /\ 1 \in 1..Len(stack[t])
    BY <1>1 DEF Top, TypeOK
  <2> QED
    BY <2>1, <1>1 DEF Shape, InClosure, On
<1>4. ~MidSend(t)
  BY <1>1, <1>3, NoSender
<1>5. Placed' /\ Tracked'
  BY <1>1, <1>2, <1>3, PopNothing
<1>6. Shape'
  <2>1. life'[t] # "destroyed"
    BY <1>1 DEF Shape
  <2> QED
    BY <2>1, <1>1, <1>2, PopShape
<1>7. Senders'
  <2>1. \A v \in Threads \ {t} : stack'[v] = stack[v]
    BY <1>2 DEF Popped
  <2> QED
    BY <2>1, <1>1, <1>4, OthersSend
<1>8. Quiet'
  BY <1>1 DEF Quiet
<1>9. Replies'
  <2>1. slot[o] = "ok"
    BY <1>1, <1>3 DEF Ready, Replies
  <2>2. rx'[o] = "resolved" /\ rx[o] = "waiting" /\ \A p \in Ops \ {o} : rx'[p] = rx[p]
    BY <1>1, <1>3 DEF Ready, TypeOK, CompletionType
  <2> HIDE DEF o
  <2> QED
    BY <2>1, <2>2, <1>1, <1>3 DEF Replies
<1> QED
  BY <1>5, <1>6, <1>7, <1>8, <1>9

LEMMA ForgetCallKeeps ==
    ASSUME IInv, TypeOK', NEW t \in Threads, NEW o \in Ops, ForgetCall(t, o)
    PROVE  IInv'
<1> USE DEF IInv
<1>1. /\ life' = life /\ queue' = queue /\ stack' = stack
      /\ status' = status /\ sender' = sender /\ target' = target
      /\ rx[o] = "waiting" /\ rx' = [rx EXCEPT ![o] = "dropped"] /\ tx' = tx /\ slot' = slot
  BY DEF ForgetCall, DropReceiver, threadVars
<1>2. Placed' /\ Shape' /\ Tracked'
  <2>1. Placed'
    BY <1>1 DEF Placed, RingPlaced, BatchPlaced, RunPlaced
  <2>2. Shape'
    BY <1>1 DEF Shape
  <2>3. Tracked'
    BY <1>1 DEF Tracked
  <2> QED
    BY <2>1, <2>2, <2>3
<1>3. Senders' /\ Quiet'
  BY <1>1 DEF Senders, Quiet, InClosure, On, Top
<1>4. Replies'
  BY <1>1 DEF Replies, TypeOK, CompletionType
<1> QED
  BY <1>2, <1>3, <1>4

LEMMA DropBeginKeeps ==
    ASSUME IInv, TypeOK', NEW t \in Threads, DropBegin(t)
    PROVE  IInv'
<1> USE DEF IInv
<1> DEFINE f == DropFrame
<1>1. /\ stack[t] = <<>> /\ life[t] = "running" /\ ~MidSend(t)
      /\ HandleScope # "any" => ~\E o \in Ops : status[o] = "sending" /\ target[o] = t
      /\ stack' = [stack EXCEPT ![t] = <<f>> \o @]
      /\ life' = [life EXCEPT ![t] = "exiting"]
      /\ queue' = queue /\ status' = status /\ sender' = sender /\ target' = target
      /\ tx' = tx /\ rx' = rx /\ slot' = slot
  BY DEF DropBegin, RequestExit, Push, opVars, completionVars
<1>2. f \in Frame
  BY Frames
<1>3. f.kind = "drop" /\ f.batch = <<>>
  BY DEF DropFrame
<1>4. Pushed(t, f)
  BY <1>1, <1>2, PushStack DEF TypeOK
<1> HIDE DEF f
<1>5. life'[t] = "exiting" /\ \A v \in Threads \ {t} : life'[v] = life[v]
  BY <1>1 DEF TypeOK
<1>6. Placed' /\ Tracked'
  BY <1>1, <1>2, <1>3, <1>4, PushNothing
<1>7. Shape'
  BY <1>1, <1>2, <1>3, <1>4, <1>5, PushShape
<1>8. Senders'
  <2>1. \A v \in Threads \ {t} : stack'[v] = stack[v]
    BY <1>4 DEF Pushed
  <2>2. HandleScope # "any" => \A p \in Ops : status[p] = "sending" =>
            life'[target[p]] = life[target[p]]
    BY <1>1, <1>5 DEF Tracked, TypeOK
  <2> QED
    BY <2>1, <2>2, <1>1, OthersSend
<1>9. Quiet'
  BY <1>1, <1>5 DEF Quiet
<1>10. Replies'
  BY <1>1 DEF Replies
<1> QED
  BY <1>6, <1>7, <1>8, <1>9, <1>10

LEMMA DropEndKeeps ==
    ASSUME IInv, TypeOK', NEW t \in Threads, DropEnd(t)
    PROVE  IInv'
<1> USE DEF IInv
<1>1. /\ stack[t] # <<>> /\ Top(t).kind = "drop" /\ life[t] = "exited"
      /\ stack' = [stack EXCEPT ![t] = Tail(@)]
      /\ life' = [life EXCEPT ![t] = "destroyed"]
      /\ queue' = queue /\ status' = status /\ sender' = sender /\ target' = target
      /\ tx' = tx /\ rx' = rx /\ slot' = slot
  BY DEF DropEnd, Exited, On, Pop, opVars, completionVars
<1>2. Popped(t)
  BY <1>1, PopStack DEF TypeOK
<1>3. Top(t).batch = <<>> /\ ~InClosure(t)
  <2>1. Top(t) = stack[t][1] /\ 1 \in 1..Len(stack[t])
    BY <1>1 DEF Top, TypeOK
  <2> QED
    BY <2>1, <1>1 DEF Shape, InClosure, On
<1>4. ~MidSend(t)
  BY <1>1, <1>3, NoSender
<1>5. life'[t] = "destroyed" /\ \A v \in Threads \ {t} : life'[v] = life[v]
  BY <1>1 DEF TypeOK
<1>6. Placed' /\ Tracked'
  BY <1>1, <1>2, <1>3, PopNothing
<1>7. Shape'
  BY <1>1, <1>2, <1>5, PopShape
<1>8. Senders'
  <2>1. \A v \in Threads \ {t} : stack'[v] = stack[v]
    BY <1>2 DEF Popped
  <2>2. HandleScope # "any" => \A p \in Ops : status[p] = "sending" =>
            life'[target[p]] = life[target[p]]
    BY <1>1, <1>5 DEF Senders, Tracked, TypeOK
  <2> QED
    BY <2>1, <2>2, <1>1, <1>4, OthersSend
<1>9. Quiet'
  BY <1>1, <1>5 DEF Quiet
<1>10. Replies'
  BY <1>1 DEF Replies
<1> QED
  BY <1>6, <1>7, <1>8, <1>9, <1>10

-------------------------------------------------------------------------------
LEMMA InitInv == Init => IInv
<1> SUFFICES ASSUME Init PROVE IInv
  OBVIOUS
<1>1. TypeOK
  BY InitType
<1>2. /\ \A t \in Threads : life[t] = "running" /\ queue[t] = <<>> /\ stack[t] = <<>>
      /\ \A o \in Ops : status[o] = "idle" /\ sender[o] = None /\ target[o] = None
      /\ \A o \in Ops : tx[o] = "none" /\ rx[o] = "none" /\ slot[o] = None
  BY DEF Init, CompletionInit
<1>3. Placed
  BY <1>2 DEF Placed, RingPlaced, BatchPlaced, RunPlaced, InRing, InBatch, Runs
<1>4. Shape
  BY <1>2 DEF Shape
<1>5. Tracked /\ Senders /\ Quiet /\ Replies
  BY <1>2 DEF Tracked, Senders, Quiet, Replies
<1> QED
  BY <1>1, <1>3, <1>4, <1>5 DEF IInv

LEMMA StutterInv == IInv /\ UNCHANGED vars => IInv'
<1> SUFFICES ASSUME IInv, UNCHANGED vars PROVE IInv'
  OBVIOUS
<1> USE DEF IInv, vars, threadVars, opVars, completionVars
<1>1. TypeOK'
  BY NextType
<1>2. Placed'
  BY DEF Placed, RingPlaced, BatchPlaced, RunPlaced
<1>3. Shape' /\ Quiet'
  BY DEF Shape, Quiet
<1>4. Tracked' /\ Replies'
  BY DEF Tracked, Replies
<1>5. Senders'
  BY DEF Senders, InClosure, On, Top
<1> QED
  BY <1>1, <1>2, <1>3, <1>4, <1>5

LEMMA NextInv == IInv /\ [Next]_vars => IInv'
<1> SUFFICES ASSUME IInv, [Next]_vars PROVE IInv'
  OBVIOUS
<1>1. TypeOK'
  BY NextType DEF IInv
<1>2. CASE UNCHANGED vars
  BY <1>2, StutterInv
<1>3. CASE \E t, u \in Threads, o \in Ops, isCall \in BOOLEAN, carried \in Ops \cup {None} :
               SendBegin(t, u, o, isCall, carried)
  BY <1>1, <1>3, SendBeginKeeps
<1>4. CASE \E o \in Ops : SendEnd(o)
  BY <1>1, <1>4, SendEndKeeps
<1>5. CASE \E t \in Threads, n \in 1..Batch : PollBegin(t, n)
  BY <1>1, <1>5, PollBeginKeeps
<1>6. CASE \E t \in Threads : RunMsg(t) \/ FinishMsg(t) \/ PollEnd(t)
  BY <1>1, <1>6, RunMsgKeeps, FinishMsgKeeps, PollEndKeeps
<1>7. CASE \E t \in Threads, o \in Ops : BlockOn(t, o) \/ ForgetCall(t, o)
  BY <1>1, <1>7, BlockOnKeeps, ForgetCallKeeps
<1>8. CASE \E t \in Threads : BlockOnReturn(t) \/ DropBegin(t) \/ DropEnd(t)
  BY <1>1, <1>8, BlockOnReturnKeeps, DropBeginKeeps, DropEndKeeps
<1> QED
  BY <1>2, <1>3, <1>4, <1>5, <1>6, <1>7, <1>8 DEF Next, Terminated

(* thread.rs and complete.rs: the invariant of sends, polls, waits and     *)
(* drops is inductive, and so holds in every reachable state.              *)
THEOREM InvHolds == Spec => []IInv
BY InitInv, NextInv, PTL DEF Spec

(* A message, and so the box whose pointer it carries (thread.rs:611-616), *)
(* is in one place, and that place belongs to its target thread.           *)
THEOREM OnePlaceHolds == Spec => []OnePlace
<1>1. IInv => OnePlace
  BY PlacedOnce DEF IInv
<1> QED
  BY <1>1, InvHolds, PTL

(* SpdkThread::drop (thread.rs:420-443) with callers that keep a thread    *)
(* alive while they use its handles: what a destroyed thread accepted ran. *)
THEOREM DrainedHolds == HandleScope # "any" => (Spec => []DrainedOnDrop)
<1> SUFFICES ASSUME HandleScope # "any" PROVE Spec => []DrainedOnDrop
  OBVIOUS
<1>1. IInv => DrainedOnDrop
  <2> SUFFICES ASSUME IInv, NEW o \in Ops, target[o] # None, life[target[o]] = "destroyed"
      PROVE  status[o] \in {"done", "leaked"}
    BY DEF DrainedOnDrop
  <2> USE DEF IInv
  <2>1. target[o] \in Threads /\ status[o] \in OpStates /\ status[o] # "idle"
    BY DEF Tracked, TypeOK
  <2>2. status[o] # "sending"
    BY DEF Senders
  <2>3. status[o] # "queued"
    <3>1. queue[target[o]] = <<>>
      BY <2>1 DEF Quiet
    <3> QED
      BY <3>1 DEF Tracked, InRing
  <2>4. status[o] # "batched" /\ status[o] # "running"
    <3>1. stack[target[o]] = <<>>
      BY <2>1 DEF Shape
    <3> QED
      BY <3>1 DEF Tracked, InBatch, Runs
  <2>5. status[o] # "dangling"
    BY DEF Quiet
  <2> QED
    BY <2>1, <2>2, <2>3, <2>4, <2>5 DEF OpStates
<1> QED
  BY <1>1, InvHolds, PTL

(* ThreadHandle::call (thread.rs:576-597): a resolved call has the value   *)
(* of a closure that ran to its end, and is never cancelled.               *)
THEOREM ReplyHolds == Spec => []ReplyMeansRan
<1>1. IInv => ReplyMeansRan
  BY DEF IInv, Replies, ReplyMeansRan, TypeOK, CompletionType, SenderStates, ReceiverStates
<1> QED
  BY <1>1, InvHolds, PTL

(* msg_callback (thread.rs:611-616) reclaims a box at most once: no step   *)
(* starts a closure again, or starts one that was refused.                 *)
LEMMA NextReclaims ==
    ASSUME IInv, [Next]_vars, NEW o \in Ops
    PROVE  /\ status[o] = "running" => status'[o] \in {"running", "done"}
           /\ status[o] \in {"done", "leaked", "dangling"} => status'[o] = status[o]
<1> USE DEF IInv, TypeOK
<1>1. ASSUME NEW t \in Threads, NEW u \in Threads, NEW p \in Ops, NEW isCall \in BOOLEAN,
             NEW carried \in Ops \cup {None}, SendBegin(t, u, p, isCall, carried)
      PROVE  status[p] = "idle" /\ \A q \in Ops \ {p} : status'[q] = status[q]
  BY <1>1 DEF SendBegin
<1>2. ASSUME NEW p \in Ops, SendEnd(p)
      PROVE  status[p] = "sending" /\ \A q \in Ops \ {p} : status'[q] = status[q]
  BY <1>2 DEF SendEnd
<1>3. ASSUME NEW t \in Threads, NEW n \in 1..Batch, PollBegin(t, n)
      PROVE  status[o] # "queued" => status'[o] = status[o]
  <2>1. queue[t] \in Seq(Ops) /\ BatchLen(t, n) \in 0..Len(queue[t])
    BY DEF BatchLen
  <2>2. \A i \in 1..BatchLen(t, n) : Taken(t, n)[i] = queue[t][i]
    BY <2>1, SplitRing DEF Taken
  <2>3. ASSUME NEW i \in 1..BatchLen(t, n), Taken(t, n)[i] = o PROVE status[o] = "queued"
    <3>1. i \in Int /\ InRing(queue, t, i, o)
      BY <2>1, <2>2, <2>3 DEF InRing
    <3> QED
      BY <3>1 DEF Placed, RingPlaced
  <2>4. status'[o] = IF \E i \in 1..BatchLen(t, n) : Taken(t, n)[i] = o
                     THEN "batched" ELSE status[o]
    BY <1>3 DEF PollBegin
  <2> QED
    BY <2>3, <2>4
<1>4. ASSUME NEW t \in Threads, RunMsg(t)
      PROVE  status[o] # "batched" => status'[o] = status[o]
  <2> DEFINE b == Top(t).batch
  <2>1. stack[t] # <<>> /\ b # <<>> /\ status' = [status EXCEPT ![Head(b)] = "running"]
    BY <1>4 DEF RunMsg, On
  <2>2. b \in Seq(Ops)
    BY <2>1, TopFrame
  <2>3. Len(stack[t]) \in Nat \ {0} /\ b = stack[t][1].batch
    BY <2>1 DEF Top
  <2> HIDE DEF b
  <2>4. Head(b) \in Ops /\ Len(b) \in Nat \ {0} /\ b[1] = Head(b)
    BY <2>1, <2>2
  <2>5. InBatch(stack, t, 1, 1, Head(b))
    BY <2>3, <2>4 DEF InBatch
  <2>6. status[Head(b)] = "batched"
    BY <2>4, <2>5 DEF Placed, BatchPlaced
  <2> QED
    BY <2>1, <2>6
<1>5. ASSUME NEW t \in Threads, FinishMsg(t)
      PROVE  status'[o] = status[o] \/ (status[o] = "running" /\ status'[o] = "done")
  <2> DEFINE p == Top(t).op
  <2>1. /\ stack[t] # <<>> /\ Top(t).kind = "poll" /\ p # None
        /\ status' = [status EXCEPT ![p] = "done"]
    BY <1>5 DEF FinishMsg, InClosure, On
  <2>2. p \in Ops /\ 1 \in 1..Len(stack[t]) /\ Top(t) = stack[t][1]
    BY <2>1, TopFrame DEF Top
  <2>3. Runs(stack, t, 1, p)
    BY <2>1, <2>2 DEF Runs
  <2>4. status[p] = "running"
    BY <2>2, <2>3 DEF Placed, RunPlaced
  <2> QED
    BY <2>1, <2>4
<1>6. ASSUME NEW t \in Threads,
             \/ PollEnd(t) \/ BlockOnReturn(t) \/ DropBegin(t) \/ DropEnd(t)
             \/ \E p \in Ops : BlockOn(t, p) \/ ForgetCall(t, p)
      PROVE  status' = status
  BY <1>6 DEF PollEnd, BlockOnReturn, DropBegin, DropEnd, BlockOn, ForgetCall, opVars
<1>7. CASE UNCHANGED vars
  BY <1>7 DEF vars, opVars
<1> HIDE DEF IInv, TypeOK
<1> QED
  BY <1>1, <1>2, <1>3, <1>4, <1>5, <1>6, <1>7 DEF Next, Terminated

(* Box::from_raw in msg_callback (thread.rs:611-616) is reached at most    *)
(* once for each closure that send and call leak.                          *)
THEOREM ReclaimedHolds == Spec => ReclaimedOnce
<1>1. IInv /\ [Next]_vars =>
          [\A o \in Ops :
             /\ status[o] = "running" => status'[o] \in {"running", "done"}
             /\ status[o] \in {"done", "leaked", "dangling"} => status'[o] = status[o]]_vars
  BY NextReclaims
<1> QED
  BY <1>1, InvHolds, PTL DEF Spec, ReclaimedOnce
-------------------------------------------------------------------------------
(* The order of messages.  Before says that a ring took o, and not p yet,  *)
(* or took o first.                                                        *)
Before(o, p) == \A i, j \in 1..Len(accepted) : accepted[i] = o /\ accepted[j] = p => i < j

Received == {"queued", "batched", "running", "done"}

Recorded ==
    /\ \A i, j \in 1..Len(accepted) : accepted[i] = accepted[j] => i = j
    /\ \A i \in 1..Len(accepted) : status[accepted[i]] \in Received
    /\ \A o \in Ops : status[o] \in Received => \E i \in 1..Len(accepted) : accepted[i] = o

(* Rings and batches are in that order, and polls have taken what is       *)
(* before the ring.                                                        *)
RingOrder ==
    \A u \in Threads, o, p \in Ops, i, j \in Int :
        InRing(queue, u, i, o) /\ InRing(queue, u, j, p) /\ i < j => Before(o, p)

BatchOrder ==
    \A u \in Threads, o, p \in Ops, k, i, j \in Int :
        InBatch(stack, u, k, i, o) /\ InBatch(stack, u, k, j, p) /\ i < j => Before(o, p)

QueuedLast ==
    \A o, p \in Ops :
        status[o] \in {"batched", "running", "done"} /\ status[p] = "queued" /\ target[o] = target[p]
            => Before(o, p)

(* Without closures that poll, a thread has one poll at most, innermost.   *)
Flat == \A u \in Threads : \A k \in 1..Len(stack[u]) : stack[u][k].kind = "poll" => k = 1

BatchedLast ==
    \A o, p \in Ops :
        Started(o) /\ status[p] = "batched" /\ target[o] = target[p] => Before(o, p)

Unnested == ClosuresPoll = "never" => Flat /\ BatchedLast

(* Who waits, for what: without receivers that travel a closure holds the  *)
(* receivers of calls it made itself, after all that the activations below *)
(* it had dequeued; and so has a block_on.                                 *)
Has(st, u, k, o) == Runs(st, u, k, o) \/ \E i \in Int : InBatch(st, u, k, i, o)
Waits(st, u, k, o) == k \in 1..Len(st[u]) /\ st[u][k].kind = "block_on" /\ st[u][k].op = o

HolderRuns == \A p \in Ops : holder[p] \in Ops => status[holder[p]] = "running"

HeldLater ==
    \A u \in Threads, o, p \in Ops, k, l \in Int :
        holder[p] \in Ops /\ Runs(stack, u, k, holder[p]) /\ k <= l /\ Has(stack, u, l, o)
            => Before(o, p)

AwaitedLater ==
    \A u \in Threads, o, p \in Ops, k, l \in Int :
        Waits(stack, u, k, p) /\ k < l /\ Has(stack, u, l, o) => Before(o, p)

OwnCalls == ~CarryReceivers => HolderRuns /\ HeldLater /\ AwaitedLater

Order == Recorded /\ RingOrder /\ BatchOrder /\ QueuedLast /\ Unnested /\ OwnCalls
-------------------------------------------------------------------------------
(* How the order grows: at its end. *)
LEMMA SameOrder ==
    ASSUME accepted' = accepted
    PROVE  \A o, p \in Ops : Before(o, p)' <=> Before(o, p)
BY DEF Before

LEMMA OrderGrows ==
    ASSUME IInv, Recorded, NEW q \in Ops, status[q] = "sending", accepted' = Append(accepted, q)
    PROVE  /\ \A o \in Ops \ {q} : Before(o, q)'
           /\ \A o \in Ops \ {q}, p \in Ops : Before(o, p) => Before(o, p)'
<1> DEFINE n == Len(accepted)
<1>1. accepted \in Seq(Ops) /\ n \in Nat
  BY DEF IInv, TypeOK
<1>2. Len(Append(accepted, q)) = n + 1 /\ Append(accepted, q)[n + 1] = q
      /\ \A i \in 1..n : Append(accepted, q)[i] = accepted[i]
  BY <1>1
<1>3. \A i \in 1..n : accepted[i] # q
  BY DEF Recorded, Received
<1>4. ASSUME NEW o \in Ops, o # q, NEW i \in 1..n + 1, accepted'[i] = o
      PROVE  i \in 1..n /\ accepted[i] = o
  BY <1>1, <1>2, <1>4
<1>5. Len(accepted') = n + 1 /\ \A j \in 1..n + 1 : accepted'[j] = q => j = n + 1
  BY <1>1, <1>2, <1>3
<1> HIDE DEF n
<1>6. ASSUME NEW o \in Ops \ {q} PROVE Before(o, q)'
  BY <1>1, <1>4, <1>5, <1>6 DEF Before
<1>7. ASSUME NEW o \in Ops \ {q}, NEW p \in Ops, Before(o, p) PROVE Before(o, p)'
  <2>1. CASE p = q
    BY <2>1, <1>6
  <2>2. CASE p # q
    <3> SUFFICES ASSUME NEW i \in 1..n + 1, NEW j \in 1..n + 1,
                        accepted'[i] = o, accepted'[j] = p
        PROVE  i < j
      BY <1>5 DEF Before
    <3>1. i \in 1..n /\ accepted[i] = o /\ j \in 1..n /\ accepted[j] = p
      BY <2>2, <1>4
    <3> QED
      BY <3>1, <1>7 DEF Before, n
  <2> QED
    BY <2>1, <2>2
<1> QED
  BY <1>6, <1>7

(* A message that is not accepted yet comes after every other. *)
LEMMA NotYet ==
    ASSUME Recorded, NEW p \in Ops, status[p] \notin Received
    PROVE  \A o \in Ops : Before(o, p)
BY DEF Recorded, Before

(* What Recorded needs of a step that leaves the history alone. *)
LEMMA RecordedKept ==
    ASSUME Recorded, accepted' = accepted, accepted \in Seq(Ops),
           \A o \in Ops : status'[o] \in Received <=> status[o] \in Received
    PROVE  Recorded'
<1>1. \A i \in 1..Len(accepted) : accepted[i] \in Ops
  OBVIOUS
<1> QED
  BY <1>1 DEF Recorded

-------------------------------------------------------------------------------
(* A step moves the activations of one thread up or down, or none: d is    *)
(* how much deeper the one now at k was.                                   *)
At(t, d, u, k) == IF u = t THEN k + d ELSE k
Fresh(t, d, u, k) == u = t /\ k + d = 0

BatchesFrom(t, d) ==
    \A u \in Threads, o \in Ops, k, i \in Int :
        InBatch(stack', u, k, i, o) => InBatch(stack, u, At(t, d, u, k), i, o)

MessagesFrom(t, d) ==
    \A u \in Threads, o \in Ops, k \in Int :
        Has(stack', u, k, o) => Fresh(t, d, u, k) \/ Has(stack, u, At(t, d, u, k), o)

RunsFrom(t, d) ==
    \A u \in Threads, o \in Ops, k \in Int :
        Runs(stack', u, k, o) => Runs(stack, u, At(t, d, u, k), o) \/ status[o] = "batched"

WaitsFrom(t, d) ==
    \A u \in Threads, o \in Ops, k \in Int :
        Waits(stack', u, k, o) => Waits(stack, u, At(t, d, u, k), o)

LEMMA BatchOrderKept ==
    ASSUME NEW t, NEW d \in Int, BatchOrder, accepted' = accepted, BatchesFrom(t, d)
    PROVE  BatchOrder'
<1> SUFFICES ASSUME NEW u \in Threads, NEW o \in Ops, NEW p \in Ops, NEW k \in Int,
                    NEW i \in Int, NEW j \in Int,
                    InBatch(stack', u, k, i, o), InBatch(stack', u, k, j, p), i < j
    PROVE  Before(o, p)
  BY SameOrder DEF BatchOrder
<1> DEFINE m == At(t, d, u, k)
<1>1. m \in Int
  BY DEF At
<1>2. InBatch(stack, u, m, i, o) /\ InBatch(stack, u, m, j, p)
  BY DEF BatchesFrom
<1> HIDE DEF m
<1> QED
  BY <1>1, <1>2 DEF BatchOrder

LEMMA HeldLaterKept ==
    ASSUME NEW t, NEW d \in Int, HolderRuns, HeldLater, accepted' = accepted,
           MessagesFrom(t, d), RunsFrom(t, d),
           \A p \in Ops : holder'[p] \in Ops =>
               holder'[p] = holder[p] \/ \A o \in Ops : Before(o, p)
    PROVE  HeldLater'
<1> SUFFICES ASSUME NEW u \in Threads, NEW o \in Ops, NEW p \in Ops, NEW k \in Int, NEW l \in Int,
                    holder'[p] \in Ops, Runs(stack', u, k, holder'[p]), k <= l,
                    Has(stack', u, l, o)
    PROVE  Before(o, p)
  BY SameOrder DEF HeldLater
<1>1. CASE holder'[p] = holder[p]
  <2> DEFINE m == At(t, d, u, k)
             n == At(t, d, u, l)
  <2>1. m \in Int /\ n \in Int /\ m <= n /\ (Fresh(t, d, u, l) => m <= 0)
    BY DEF At, Fresh
  <2>2. Runs(stack, u, m, holder[p])
    BY <1>1 DEF RunsFrom, HolderRuns
  <2>3. Has(stack, u, n, o)
    BY <2>1, <2>2 DEF MessagesFrom, Runs
  <2> HIDE DEF m, n
  <2> QED
    BY <1>1, <2>1, <2>2, <2>3 DEF HeldLater
<1> QED
  BY <1>1

LEMMA AwaitedLaterKept ==
    ASSUME NEW t, NEW d \in Int, AwaitedLater, accepted' = accepted,
           MessagesFrom(t, d), WaitsFrom(t, d)
    PROVE  AwaitedLater'
<1> SUFFICES ASSUME NEW u \in Threads, NEW o \in Ops, NEW p \in Ops, NEW k \in Int, NEW l \in Int,
                    Waits(stack', u, k, p), k < l, Has(stack', u, l, o)
    PROVE  Before(o, p)
  BY SameOrder DEF AwaitedLater
<1> DEFINE m == At(t, d, u, k)
           n == At(t, d, u, l)
<1>1. m \in Int /\ n \in Int /\ m < n /\ (Fresh(t, d, u, l) => m < 0)
  BY DEF At, Fresh
<1>2. Waits(stack, u, m, p)
  BY DEF WaitsFrom
<1>3. Has(stack, u, n, o)
  BY <1>1, <1>2 DEF MessagesFrom, Waits
<1> HIDE DEF m, n
<1> QED
  BY <1>1, <1>2, <1>3 DEF AwaitedLater

-------------------------------------------------------------------------------
(* Where the activations come from in each kind of step. *)
LEMMA SameFrames ==
    ASSUME stack' = stack
    PROVE  BatchesFrom(None, 0) /\ MessagesFrom(None, 0) /\ RunsFrom(None, 0) /\ WaitsFrom(None, 0)
<1>1. \A u \in Threads, k \in Int : At(None, 0, u, k) = k
  BY DEF At
<1> QED
  BY <1>1 DEF BatchesFrom, MessagesFrom, RunsFrom, WaitsFrom, Has, Waits

LEMMA LoweredFrames ==
    ASSUME TypeOK, NEW t \in Threads, Lowered(t), Popped(t)
    PROVE  BatchesFrom(t, 1) /\ MessagesFrom(t, 1) /\ RunsFrom(t, 1) /\ WaitsFrom(t, 1)
<1>1. ASSUME NEW u \in Threads, NEW o \in Ops, NEW k \in Int, NEW i \in Int
      PROVE  InBatch(stack', u, k, i, o) => InBatch(stack, u, At(t, 1, u, k), i, o)
  <2> DEFINE m == At(t, 1, u, k)
  <2>1. m \in Int /\ (IF u = t THEN m - 1 ELSE m) = k
    BY DEF At
  <2>2. InBatch(stack, u, m, i, o) <=> InBatch(stack', u, IF u = t THEN m - 1 ELSE m, i, o)
    BY <2>1, Zenon DEF Lowered
  <2> HIDE DEF m
  <2> QED
    BY <2>1, <2>2, Zenon DEF m
<1>2. ASSUME NEW u \in Threads, NEW o \in Ops, NEW k \in Int
      PROVE  Runs(stack', u, k, o) => Runs(stack, u, At(t, 1, u, k), o)
  <2> DEFINE m == At(t, 1, u, k)
  <2>1. m \in Int /\ (IF u = t THEN m - 1 ELSE m) = k
    BY DEF At
  <2>2. Runs(stack, u, m, o) <=> Runs(stack', u, IF u = t THEN m - 1 ELSE m, o)
    BY <2>1, Zenon DEF Lowered
  <2> HIDE DEF m
  <2> QED
    BY <2>1, <2>2, Zenon DEF m
<1>3. ASSUME NEW u \in Threads, NEW o \in Ops, NEW k \in Int, Waits(stack', u, k, o)
      PROVE  Waits(stack, u, At(t, 1, u, k), o)
  <2>1. CASE u # t
    BY <2>1, <1>3 DEF Waits, At, Popped
  <2>2. CASE u = t
    <3>1. Len(stack[t]) \in Nat /\ k \in 1..Len(stack'[t])
      BY <2>2, <1>3 DEF TypeOK, Waits
    <3>2. k + 1 \in 1..Len(stack[t]) /\ stack'[t][k] = stack[t][k + 1]
      BY <3>1 DEF Popped
    <3> QED
      BY <3>2, <2>2, <1>3 DEF Waits, At
  <2> QED
    BY <2>1, <2>2
<1> QED
  BY <1>1, <1>2, <1>3 DEF BatchesFrom, MessagesFrom, RunsFrom, WaitsFrom, Has

LEMMA RaisedFrames ==
    ASSUME NEW t \in Threads, Raised(t)
    PROVE  BatchesFrom(t, -1) /\ MessagesFrom(t, -1) /\ RunsFrom(t, -1)
<1>1. \A u \in Threads, k \in Int : At(t, -1, u, k) = IF u = t THEN k - 1 ELSE k
  BY DEF At
<1> QED
  BY <1>1 DEF Raised, BatchesFrom, MessagesFrom, RunsFrom, Has

LEMMA PushedWaits ==
    ASSUME TypeOK, NEW t \in Threads, NEW f \in Frame, Pushed(t, f)
    PROVE  \A u \in Threads, o \in Ops, k \in Int : Waits(stack', u, k, o) =>
              \/ u = t /\ k = 1 /\ f.kind = "block_on" /\ f.op = o
              \/ Waits(stack, u, At(t, -1, u, k), o)
<1> SUFFICES ASSUME NEW u \in Threads, NEW o \in Ops, NEW k \in Int, Waits(stack', u, k, o),
                    ~(u = t /\ k = 1)
    PROVE  Waits(stack, u, At(t, -1, u, k), o)
  BY DEF Pushed, Waits
<1>1. CASE u # t
  BY <1>1 DEF Waits, At, Pushed
<1>2. CASE u = t
  <2>1. Len(stack[t]) \in Nat /\ k \in 2..Len(stack'[t])
    BY <1>2 DEF TypeOK, Waits
  <2>2. k - 1 \in 1..Len(stack[t]) /\ stack'[t][k] = stack[t][k - 1]
    BY <2>1 DEF Pushed
  <2>3. At(t, -1, u, k) = k - 1
    BY <1>2 DEF At
  <2> QED
    BY <2>2, <2>3, <1>2 DEF Waits
<1> QED
  BY <1>1, <1>2

LEMMA SwappedWaits ==
    ASSUME TypeOK, NEW t \in Threads, stack[t] # <<>>, NEW f \in Frame, f.kind = "poll",
           Swapped(t, f)
    PROVE  WaitsFrom(t, 0)
<1>1. Len(stack[t]) \in Nat \ {0}
  BY DEF TypeOK
<1>2. \A u \in Threads, k \in Int : At(t, 0, u, k) = k
  BY DEF At
<1>3. ASSUME NEW u \in Threads, NEW o \in Ops, NEW k \in Int, Waits(stack', u, k, o)
      PROVE  Waits(stack, u, k, o)
  <2>1. CASE u # t
    BY <2>1, <1>3 DEF Waits, Swapped
  <2>2. CASE u = t
    <3>1. k # 1 /\ k \in 1..Len(stack[t])
      BY <2>2, <1>3 DEF Waits, Swapped
    <3>2. k \in 2..Len(stack[t])
      BY <3>1, <1>1
    <3> QED
      BY <2>2, <3>1, <3>2, <1>3 DEF Waits, Swapped
  <2> QED
    BY <2>1, <2>2
<1> QED
  BY <1>2, <1>3 DEF WaitsFrom

LEMMA FinishFrames ==
    ASSUME NEW t \in Threads, NEW o \in Ops, FinishMoves(t, o)
    PROVE  BatchesFrom(t, 0) /\ MessagesFrom(t, 0) /\ RunsFrom(t, 0)
<1>1. \A u \in Threads, k \in Int : At(t, 0, u, k) = k
  BY DEF At
<1>2. \A u \in Threads, p \in Ops, k, i \in Int :
          InBatch(stack', u, k, i, p) => InBatch(stack, u, k, i, p)
  BY DEF FinishMoves
<1>3. \A u \in Threads, p \in Ops, k \in Int : Runs(stack', u, k, p) => Runs(stack, u, k, p)
  BY DEF FinishMoves
<1> QED
  BY <1>1, <1>2, <1>3 DEF BatchesFrom, MessagesFrom, RunsFrom, Has

LEMMA RunFrames ==
    ASSUME NEW t \in Threads, NEW o \in Ops, RunMoves(t, o)
    PROVE  MessagesFrom(t, 0) /\ RunsFrom(t, 0)
<1>1. \A u \in Threads, k \in Int : At(t, 0, u, k) = k
  BY DEF At
<1>2. ASSUME NEW u \in Threads, NEW p \in Ops, NEW k \in Int, NEW i \in Int,
             InBatch(stack', u, k, i, p)
      PROVE  \E j \in Int : InBatch(stack, u, k, j, p)
  <2>1. i + 1 \in Int
    OBVIOUS
  <2> QED
    BY <2>1, <1>2 DEF RunMoves
<1>3. ASSUME NEW u \in Threads, NEW p \in Ops, NEW k \in Int, Runs(stack', u, k, p)
      PROVE  Runs(stack, u, k, p) \/ (u = t /\ k = 1 /\ p = o)
  BY <1>3 DEF RunMoves
<1>4. InBatch(stack, t, 1, 1, o) /\ status[o] = "batched"
  BY DEF RunMoves
<1> QED
  BY <1>1, <1>2, <1>3, <1>4 DEF MessagesFrom, RunsFrom, Has

LEMMA PollFrames ==
    ASSUME NEW t \in Threads, NEW n \in 1..Batch, PollMoves(t, n)
    PROVE  MessagesFrom(t, -1) /\ RunsFrom(t, -1)
<1>1. \A u \in Threads, k \in Int : At(t, -1, u, k) = IF u = t THEN k - 1 ELSE k
  BY DEF At
<1>2. \A u \in Threads, k \in Int : Fresh(t, -1, u, k) <=> u = t /\ k = 1
  BY DEF Fresh
<1>3. \A u \in Threads, p \in Ops, k, i \in Int : InBatch(stack', u, k, i, p) =>
          (u = t /\ k = 1) \/ InBatch(stack, u, At(t, -1, u, k), i, p)
  BY <1>1 DEF PollMoves
<1>4. \A u \in Threads, p \in Ops, k \in Int : Runs(stack', u, k, p) =>
          Runs(stack, u, At(t, -1, u, k), p)
  BY <1>1 DEF PollMoves
<1> HIDE DEF PollMoves
<1> QED
  BY <1>2, <1>3, <1>4 DEF MessagesFrom, RunsFrom, Has

(* A stack stays flat under all but the poll of a closure. *)
LEMMA FlatKept ==
    ASSUME TypeOK, Flat, NEW t \in Threads,
           \/ Popped(t)
           \/ stack[t] # <<>> /\ \E f \in Frame : Swapped(t, f)
           \/ /\ \E f \in Frame : Pushed(t, f)
              /\ \A k \in 1..Len(stack[t]) : stack[t][k].kind # "poll"
    PROVE  Flat'
<1>1. Len(stack[t]) \in Nat
  BY DEF TypeOK
<1>2. \A u \in Threads \ {t} : stack'[u] = stack[u]
  BY DEF Popped, Swapped, Pushed
<1>3. ASSUME NEW k \in 1..Len(stack'[t]), stack'[t][k].kind = "poll" PROVE k = 1
  <2>1. CASE Popped(t)
    <3>1. k + 1 \in 2..Len(stack[t]) /\ stack'[t][k] = stack[t][k + 1]
      BY <2>1 DEF Popped
    <3>2. k + 1 \in 1..Len(stack[t]) /\ k + 1 # 1
      BY <3>1, <1>1
    <3> QED
      BY <3>1, <3>2, <1>3 DEF Flat
  <2>2. CASE stack[t] # <<>> /\ \E f \in Frame : Swapped(t, f)
    <3>1. Len(stack'[t]) = Len(stack[t])
      BY <2>2 DEF Swapped
    <3>2. k # 1 => k \in 2..Len(stack[t]) /\ k \in 1..Len(stack[t])
      BY <3>1, <1>1
    <3> QED
      BY <2>2, <3>2, <1>3 DEF Swapped, Flat
  <2>3. CASE /\ \E f \in Frame : Pushed(t, f)
             /\ \A j \in 1..Len(stack[t]) : stack[t][j].kind # "poll"
    <3>1. Len(stack'[t]) = Len(stack[t]) + 1
      BY <2>3 DEF Pushed
    <3>2. k # 1 => k \in 2..Len(stack'[t])
      BY <3>1, <1>1
    <3>3. k # 1 => k - 1 \in 1..Len(stack[t]) /\ stack'[t][k] = stack[t][k - 1]
      BY <2>3, <3>2 DEF Pushed
    <3> QED
      BY <2>3, <3>3, <1>3
  <2> QED
    BY <2>1, <2>2, <2>3
<1> QED
  BY <1>2, <1>3 DEF Flat
-------------------------------------------------------------------------------
(* What the parts of Order need of a step that moves no message. *)
LEMMA LinesKept ==
    ASSUME QueuedLast, RingOrder, accepted' = accepted, queue' = queue,
           \A o \in Ops : status[o] # "idle" => target'[o] = target[o],
           \A o \in Ops : status'[o] \in {"batched", "running", "done"} =>
               status[o] \in {"batched", "running", "done"},
           \A o \in Ops : status'[o] = "queued" => status[o] = "queued"
    PROVE  RingOrder' /\ QueuedLast'
<1>1. RingOrder'
  BY SameOrder DEF RingOrder, InRing
<1>2. QueuedLast'
  BY SameOrder DEF QueuedLast
<1> QED
  BY <1>1, <1>2

LEMMA UnnestedKept ==
    ASSUME Unnested, accepted' = accepted, ClosuresPoll = "never" => Flat',
           \A o \in Ops : status[o] # "idle" => target'[o] = target[o],
           \A o \in Ops : Started(o)' => Started(o),
           \A o \in Ops : status'[o] = "batched" => status[o] = "batched"
    PROVE  Unnested'
<1> SUFFICES ASSUME ClosuresPoll = "never" PROVE BatchedLast'
  BY DEF Unnested
<1>1. \A o \in Ops : Started(o) => status[o] # "idle"
  BY DEF Started
<1> QED
  BY <1>1, SameOrder DEF Unnested, BatchedLast

LEMMA OwnCallsKept ==
    ASSUME NEW t, NEW d \in Int, OwnCalls, accepted' = accepted,
           MessagesFrom(t, d), RunsFrom(t, d), WaitsFrom(t, d),
           \A p \in Ops : holder'[p] \in Ops => holder'[p] = holder[p],
           \A o \in Ops : status[o] = "running" =>
               status'[o] = "running" \/ \A p \in Ops : holder'[p] # o
    PROVE  OwnCalls'
<1> SUFFICES ASSUME ~CarryReceivers PROVE HolderRuns' /\ HeldLater' /\ AwaitedLater'
  BY DEF OwnCalls
<1>1. HolderRuns /\ HeldLater /\ AwaitedLater
  BY DEF OwnCalls
<1>2. HolderRuns'
  BY <1>1 DEF HolderRuns
<1>3. HeldLater' /\ AwaitedLater'
  BY <1>1, HeldLaterKept, AwaitedLaterKept
<1> QED
  BY <1>2, <1>3

(* A poll, a block_on or a drop returns. *)
LEMMA PopOrder ==
    ASSUME IInv, Order, NEW t \in Threads, Lowered(t), Popped(t), queue' = queue,
           status' = status, target' = target, holder' = holder, accepted' = accepted
    PROVE  Order'
<1> USE DEF Order
<1>1. TypeOK /\ accepted \in Seq(Ops)
  BY DEF IInv, TypeOK
<1>2. BatchesFrom(t, 1) /\ MessagesFrom(t, 1) /\ RunsFrom(t, 1) /\ WaitsFrom(t, 1)
  BY <1>1, LoweredFrames
<1>3. Recorded'
  BY <1>1, RecordedKept
<1>4. BatchOrder'
  BY <1>2, BatchOrderKept
<1>5. RingOrder' /\ QueuedLast'
  BY LinesKept
<1>6. Unnested'
  <2>1. ClosuresPoll = "never" => Flat'
    BY <1>1, FlatKept DEF Unnested
  <2> QED
    BY <2>1, UnnestedKept DEF Started
<1>7. OwnCalls'
  BY <1>2, OwnCallsKept
<1> QED
  BY <1>3, <1>4, <1>5, <1>6, <1>7

LEMMA PollEndOrder ==
    ASSUME IInv, TypeOK', Order, NEW t \in Threads, PollEnd(t)
    PROVE  Order'
<1>1. /\ stack[t] # <<>> /\ Top(t).op = None /\ Top(t).batch = <<>>
      /\ stack' = [stack EXCEPT ![t] = Tail(@)] /\ queue' = queue
      /\ status' = status /\ target' = target /\ holder' = holder /\ accepted' = accepted
  BY DEF PollEnd, On, Pop, opVars
<1>2. Popped(t)
  BY <1>1, PopStack DEF IInv, TypeOK
<1>3. Lowered(t)
  BY <1>1, <1>2, PopMoves DEF InClosure
<1> QED
  BY <1>1, <1>2, <1>3, PopOrder

LEMMA WaitEndOrder ==
    ASSUME IInv, TypeOK', Order, NEW t \in Threads, BlockOnReturn(t) \/ DropEnd(t)
    PROVE  Order'
<1>1. /\ stack[t] # <<>> /\ Top(t).kind # "poll"
      /\ stack' = [stack EXCEPT ![t] = Tail(@)] /\ queue' = queue
      /\ status' = status /\ target' = target /\ holder' = holder /\ accepted' = accepted
  BY DEF BlockOnReturn, DropEnd, On, Pop, opVars
<1>2. Popped(t)
  BY <1>1, PopStack DEF IInv, TypeOK
<1>3. Top(t).batch = <<>> /\ ~InClosure(t)
  <2>1. Top(t) = stack[t][1] /\ 1 \in 1..Len(stack[t])
    BY <1>1 DEF Top, IInv, TypeOK
  <2> QED
    BY <2>1, <1>1 DEF IInv, Shape, InClosure, On
<1>4. Lowered(t)
  BY <1>1, <1>2, <1>3, PopMoves
<1> QED
  BY <1>1, <1>2, <1>4, PopOrder

(* A drop begins: at the base, without messages. *)
LEMMA DropBeginOrder ==
    ASSUME IInv, TypeOK', Order, NEW t \in Threads, DropBegin(t)
    PROVE  Order'
<1> USE DEF Order
<1> DEFINE f == DropFrame
<1>1. /\ stack[t] = <<>> /\ stack' = [stack EXCEPT ![t] = <<f>> \o @] /\ queue' = queue
      /\ status' = status /\ target' = target /\ holder' = holder /\ accepted' = accepted
  BY DEF DropBegin, Push, opVars
<1>2. f \in Frame /\ f.kind = "drop" /\ f.batch = <<>>
  BY Frames DEF DropFrame
<1>3. TypeOK /\ accepted \in Seq(Ops) /\ Pushed(t, f)
  BY <1>1, <1>2, PushStack DEF IInv, TypeOK
<1> HIDE DEF f
<1>4. Raised(t)
  BY <1>2, <1>3, PushMoves
<1>5. BatchesFrom(t, -1) /\ MessagesFrom(t, -1) /\ RunsFrom(t, -1)
  BY <1>4, RaisedFrames
<1>6. WaitsFrom(t, -1)
  BY <1>2, <1>3, PushedWaits DEF WaitsFrom
<1>7. Recorded'
  BY <1>1, <1>3, RecordedKept
<1>8. BatchOrder'
  BY <1>1, <1>5, BatchOrderKept
<1>9. RingOrder' /\ QueuedLast'
  BY <1>1, LinesKept
<1>10. Unnested'
  <2>1. ClosuresPoll = "never" => Flat'
    BY <1>1, <1>2, <1>3, FlatKept DEF Unnested
  <2> QED
    BY <2>1, <1>1, UnnestedKept DEF Started
<1>11. OwnCalls'
  BY <1>1, <1>5, <1>6, OwnCallsKept
<1> QED
  BY <1>7, <1>8, <1>9, <1>10, <1>11

(* A receiver is dropped, or nothing happens. *)
LEMMA ForgetCallOrder ==
    ASSUME IInv, Order, NEW t \in Threads, NEW o \in Ops, ForgetCall(t, o)
    PROVE  Order'
<1> USE DEF Order
<1>1. /\ stack' = stack /\ queue' = queue /\ status' = status /\ target' = target
      /\ holder' = [holder EXCEPT ![o] = None] /\ accepted' = accepted
  BY DEF ForgetCall, threadVars
<1>2. accepted \in Seq(Ops) /\ \A p \in Ops : holder'[p] \in Ops => holder'[p] = holder[p]
  BY <1>1, Constants DEF IInv, TypeOK
<1>3. BatchesFrom(None, 0) /\ MessagesFrom(None, 0) /\ RunsFrom(None, 0) /\ WaitsFrom(None, 0)
  BY <1>1, SameFrames
<1>4. Recorded'
  BY <1>1, <1>2, RecordedKept
<1>5. BatchOrder'
  BY <1>1, <1>3, BatchOrderKept
<1>6. RingOrder' /\ QueuedLast'
  BY <1>1, LinesKept
<1>7. Unnested'
  BY <1>1, UnnestedKept DEF Started, Unnested, Flat
<1>8. OwnCalls'
  BY <1>1, <1>2, <1>3, OwnCallsKept
<1> QED
  BY <1>4, <1>5, <1>6, <1>7, <1>8

LEMMA StutterOrder ==
    ASSUME Order, UNCHANGED vars
    PROVE  Order'
BY DEF Order, Recorded, RingOrder, BatchOrder, QueuedLast, Unnested, Flat, BatchedLast, Started,
   OwnCalls, HolderRuns, HeldLater, AwaitedLater, Before, vars, threadVars, opVars

(* A closure ends: its receivers are dropped with it. *)
LEMMA FinishMsgOrder ==
    ASSUME IInv, TypeOK', Order, NEW t \in Threads, FinishMsg(t)
    PROVE  Order'
<1> USE DEF Order
<1> DEFINE o == Top(t).op
           f == PollFrame(Top(t).batch)
<1>1. /\ stack[t] # <<>> /\ stack' = [stack EXCEPT ![t] = <<f>> \o Tail(@)] /\ queue' = queue
      /\ target' = target /\ accepted' = accepted
      /\ holder' = [p \in Ops |-> IF holder[p] = o THEN None ELSE holder[p]]
  BY DEF FinishMsg, InClosure, On
<1>2. TypeOK /\ accepted \in Seq(Ops)
  BY DEF IInv, TypeOK
<1>3. f \in Frame /\ f.kind = "poll"
  BY <1>1, <1>2, TopFrame, Frames DEF TypeOK, PollFrame
<1>4. Swapped(t, f)
  BY <1>1, <1>2, <1>3, SwapStack DEF TypeOK
<1>5. FinishMoves(t, o)
  BY FinishMsgMoves
<1> HIDE DEF o, f
<1>6. o \in Ops /\ status[o] = "running" /\ status'[o] = "done"
      /\ \A p \in Ops \ {o} : status'[p] = status[p]
  BY <1>5 DEF FinishMoves
<1>7. BatchesFrom(t, 0) /\ MessagesFrom(t, 0) /\ RunsFrom(t, 0) /\ WaitsFrom(t, 0)
  BY <1>1, <1>2, <1>3, <1>4, <1>5, <1>6, FinishFrames, SwappedWaits
<1>8. Recorded'
  BY <1>1, <1>2, <1>6, RecordedKept DEF Received
<1>9. BatchOrder'
  BY <1>1, <1>7, BatchOrderKept
<1>10. RingOrder' /\ QueuedLast'
  BY <1>1, <1>6, LinesKept
<1>11. Unnested'
  <2>1. ClosuresPoll = "never" => Flat'
    BY <1>1, <1>2, <1>3, <1>4, FlatKept DEF Unnested
  <2>2. \A p \in Ops : /\ Started(p)' => Started(p)
                       /\ status'[p] = "batched" => status[p] = "batched"
    BY <1>6 DEF Started
  <2> QED
    BY <2>1, <2>2, <1>1, UnnestedKept
<1>12. OwnCalls'
  <2>1. \A p \in Ops : holder'[p] \in Ops => holder'[p] = holder[p] /\ holder'[p] # o
    BY <1>1, Constants
  <2>2. \A p \in Ops : status[p] = "running" =>
            status'[p] = "running" \/ \A q \in Ops : holder'[q] # p
    BY <2>1, <1>6
  <2> QED
    BY <2>1, <2>2, <1>1, <1>7, OwnCallsKept
<1> QED
  BY <1>8, <1>9, <1>10, <1>11, <1>12

(* The first message of a batch starts: if polls do not nest, it is the    *)
(* oldest of all that its thread has dequeued.                             *)
LEMMA RunMsgOrder ==
    ASSUME IInv, TypeOK', Order, NEW t \in Threads, RunMsg(t)
    PROVE  Order'
<1> USE DEF Order
<1> DEFINE b == Top(t).batch
           o == Head(b)
           f == [kind |-> "poll", op |-> o, batch |-> Tail(b)]
<1>1. /\ stack[t] # <<>> /\ b # <<>> /\ stack' = [stack EXCEPT ![t] = <<f>> \o Tail(@)]
      /\ queue' = queue /\ target' = target /\ accepted' = accepted /\ holder' = holder
  BY DEF RunMsg, On
<1>2. TypeOK /\ accepted \in Seq(Ops)
  BY DEF IInv, TypeOK
<1>3. f \in Frame /\ f.kind = "poll"
  <2>1. b \in Seq(Ops)
    BY <1>1, <1>2, TopFrame DEF TypeOK
  <2>2. o \in Ops /\ Tail(b) \in Seq(Ops)
    <3> HIDE DEF b
    <3> QED
      BY <2>1, <1>1
  <2> QED
    BY <2>2 DEF Frame
<1>4. Swapped(t, f)
  BY <1>1, <1>2, <1>3, SwapStack DEF TypeOK
<1>5. RunMoves(t, o)
  BY RunMsgMoves
<1> HIDE DEF o, f, b
<1>6. /\ o \in Ops /\ status[o] = "batched" /\ target[o] = t /\ status'[o] = "running"
      /\ \A p \in Ops \ {o} : status'[p] = status[p]
      /\ InBatch(stack, t, 1, 1, o)
  BY <1>5 DEF RunMoves
<1>7. MessagesFrom(t, 0) /\ RunsFrom(t, 0) /\ WaitsFrom(t, 0)
  BY <1>1, <1>2, <1>3, <1>4, <1>5, <1>6, RunFrames, SwappedWaits
<1>8. Recorded'
  BY <1>1, <1>2, <1>6, RecordedKept DEF Received
<1>9. BatchOrder'
  <2> SUFFICES ASSUME NEW u \in Threads, NEW x \in Ops, NEW p \in Ops, NEW k \in Int,
                      NEW i \in Int, NEW j \in Int,
                      InBatch(stack', u, k, i, x), InBatch(stack', u, k, j, p), i < j
      PROVE  Before(x, p)
    BY <1>1, SameOrder DEF BatchOrder
  <2> DEFINE m == IF u = t /\ k = 1 THEN i + 1 ELSE i
             n == IF u = t /\ k = 1 THEN j + 1 ELSE j
  <2>1. m \in Int /\ n \in Int /\ m < n
    OBVIOUS
  <2>2. InBatch(stack, u, k, m, x) /\ InBatch(stack, u, k, n, p)
    BY <1>5 DEF RunMoves
  <2> HIDE DEF m, n
  <2> QED
    BY <2>1, <2>2 DEF BatchOrder
<1>10. RingOrder' /\ QueuedLast'
  BY <1>1, <1>6, LinesKept
<1>11. Unnested'
  <2> SUFFICES ASSUME ClosuresPoll = "never" PROVE Flat' /\ BatchedLast'
    BY DEF Unnested
  <2>1. Flat /\ BatchedLast
    BY DEF Unnested
  <2>2. Flat'
    BY <2>1, <1>1, <1>2, <1>3, <1>4, FlatKept
  <2>3. ASSUME NEW p \in Ops, p # o, status[p] = "batched", target[p] = t PROVE Before(o, p)
    <3>1. PICK k \in Int, i \in Int : InBatch(stack, t, k, i, p)
      BY <2>3 DEF IInv, Tracked
    <3>2. k \in 1..Len(stack[t]) /\ i \in 1..Len(stack[t][k].batch)
      BY <3>1 DEF InBatch
    <3>3. stack[t][k].kind = "poll"
      BY <3>2 DEF IInv, Shape
    <3>4. k = 1
      BY <3>2, <3>3, <2>1 DEF Flat
    <3>5. i # 1
      BY <3>1, <3>4, <2>3, <1>6 DEF InBatch
    <3>6. 1 < i
      BY <3>2, <3>5
    <3> QED
      BY <3>1, <3>4, <3>6, <1>6 DEF BatchOrder
  <2>4. ASSUME NEW x \in Ops, NEW p \in Ops, Started(x)', status'[p] = "batched",
               target[x] = target[p]
        PROVE  Before(x, p)
    <3>1. p # o /\ status[p] = "batched"
      BY <2>4, <1>6
    <3>2. CASE x = o
      BY <3>1, <3>2, <2>3, <2>4, <1>6
    <3>3. CASE x # o
      BY <3>1, <3>3, <2>1, <2>4, <1>6 DEF BatchedLast, Started
    <3> QED
      BY <3>2, <3>3
  <2>5. BatchedLast'
    BY <2>4, <1>1, SameOrder DEF BatchedLast
  <2> QED
    BY <2>2, <2>5
<1>12. OwnCalls'
  BY <1>1, <1>6, <1>7, OwnCallsKept
<1> QED
  BY <1>8, <1>9, <1>10, <1>11, <1>12

(* A poll takes the oldest messages of its ring. *)
LEMMA PollBeginOrder ==
    ASSUME IInv, TypeOK', Order, NEW t \in Threads, NEW n \in 1..Batch, PollBegin(t, n)
    PROVE  Order'
<1> USE DEF Order
<1> DEFINE b == BatchLen(t, n)
           f == PollFrame(Taken(t, n))
           New(p) == \E i \in Int : i \in 1..b /\ InRing(queue, t, i, p)
<1>1. /\ MayPoll(t) \/ KeepsPolling(t)
      /\ stack' = [stack EXCEPT ![t] = <<f>> \o @]
      /\ target' = target /\ accepted' = accepted /\ holder' = holder
  BY DEF PollBegin, Push
<1>2. TypeOK /\ accepted \in Seq(Ops)
  BY DEF IInv, TypeOK
<1>3. b \in Nat /\ b \in 0..Len(queue[t]) /\ queue[t] \in Seq(Ops)
  BY <1>2 DEF TypeOK, BatchLen
<1>4. f \in Frame /\ f.kind = "poll"
  BY <1>3, SplitRing, Frames DEF Taken, PollFrame
<1>5. Pushed(t, f)
  BY <1>1, <1>2, <1>4, PushStack DEF TypeOK
<1>6. PollMoves(t, n)
  BY PollBeginMoves
<1> HIDE DEF f
<1>7. \A p \in Ops : status'[p] = IF New(p) THEN "batched" ELSE status[p]
  BY <1>6 DEF PollMoves
<1>8. \A p \in Ops : New(p) => status[p] = "queued" /\ target[p] = t
  BY DEF IInv, Placed, RingPlaced
<1>9. MessagesFrom(t, -1) /\ RunsFrom(t, -1)
  BY <1>6, PollFrames
<1>10. WaitsFrom(t, -1)
  BY <1>2, <1>4, <1>5, PushedWaits DEF WaitsFrom
<1>11. ASSUME NEW x \in Ops, NEW p \in Ops, New(x), ~New(p), status[p] = "queued", target[p] = t
       PROVE  Before(x, p)
  <2>1. PICK i \in Int : i \in 1..b /\ InRing(queue, t, i, x)
    BY <1>11
  <2>2. PICK j \in Int : InRing(queue, t, j, p)
    BY <1>11 DEF IInv, Tracked
  <2>3. j \notin 1..b /\ j >= 1
    BY <2>2, <1>11 DEF InRing
  <2>4. i < j
    BY <2>1, <2>3, <1>3
  <2> QED
    BY <2>1, <2>2, <2>4 DEF RingOrder
<1>12. Recorded'
  <2>1. \A p \in Ops : status'[p] \in Received <=> status[p] \in Received
    BY <1>7, <1>8 DEF Received
  <2> QED
    BY <2>1, <1>1, <1>2, RecordedKept
<1>13. RingOrder'
  <2> SUFFICES ASSUME NEW u \in Threads, NEW x \in Ops, NEW p \in Ops, NEW i \in Int, NEW j \in Int,
                      InRing(queue', u, i, x), InRing(queue', u, j, p), i < j
      PROVE  Before(x, p)
    BY <1>1, SameOrder DEF RingOrder
  <2> DEFINE k == IF u = t THEN b + i ELSE i
             l == IF u = t THEN b + j ELSE j
  <2>1. k \in Int /\ l \in Int /\ k < l
    BY <1>3
  <2>2. InRing(queue, u, k, x) /\ InRing(queue, u, l, p)
    BY <1>6 DEF PollMoves
  <2> HIDE DEF k, l
  <2> QED
    BY <2>1, <2>2 DEF RingOrder
<1>14. BatchOrder'
  <2> SUFFICES ASSUME NEW u \in Threads, NEW x \in Ops, NEW p \in Ops, NEW k \in Int,
                      NEW i \in Int, NEW j \in Int,
                      InBatch(stack', u, k, i, x), InBatch(stack', u, k, j, p), i < j
      PROVE  Before(x, p)
    BY <1>1, SameOrder DEF BatchOrder
  <2>1. CASE u = t /\ k = 1
    <3>1. InRing(queue, t, i, x) /\ InRing(queue, t, j, p)
      BY <2>1, <1>6 DEF PollMoves
    <3> QED
      BY <3>1 DEF RingOrder
  <2>2. CASE ~(u = t /\ k = 1)
    <3> DEFINE m == IF u = t THEN k - 1 ELSE k
    <3>1. m \in Int /\ InBatch(stack, u, m, i, x) /\ InBatch(stack, u, m, j, p)
      BY <2>2, <1>6 DEF PollMoves
    <3> HIDE DEF m
    <3> QED
      BY <3>1 DEF BatchOrder
  <2> QED
    BY <2>1, <2>2
<1> HIDE DEF b, New
<1>15. QueuedLast'
  <2> SUFFICES ASSUME NEW x \in Ops, NEW p \in Ops, status'[x] \in {"batched", "running", "done"},
                      status'[p] = "queued", target[x] = target[p]
      PROVE  Before(x, p)
    BY <1>1, SameOrder DEF QueuedLast
  <2>1. ~New(p) /\ status[p] = "queued"
    BY <1>7
  <2>2. CASE New(x)
    BY <2>1, <2>2, <1>8, <1>11
  <2>3. CASE ~New(x)
    BY <2>1, <2>3, <1>7 DEF QueuedLast
  <2> QED
    BY <2>2, <2>3
<1>16. Unnested'
  <2> SUFFICES ASSUME ClosuresPoll = "never" PROVE Flat' /\ BatchedLast'
    BY DEF Unnested
  <2>1. Flat /\ BatchedLast
    BY DEF Unnested
  <2>2. \A k \in 1..Len(stack[t]) : stack[t][k].kind # "poll"
    <3>1. stack[t] = <<>> \/ (stack[t] # <<>> /\ stack[t][1].kind # "poll")
      BY <1>1 DEF MayPoll, InUserCode, KeepsPolling, On, Top
    <3> QED
      BY <3>1, <2>1 DEF Flat
  <2>3. Flat'
    BY <2>1, <2>2, <1>2, <1>4, <1>5, FlatKept
  <2>4. ASSUME NEW x \in Ops, NEW p \in Ops, Started(x)', status'[p] = "batched",
               target[x] = target[p]
        PROVE  Before(x, p)
    <3>1. status[x] \in {"running", "done"} /\ Started(x)
      BY <2>4, <1>7 DEF Started
    <3>2. CASE New(p)
      BY <3>1, <3>2, <2>4, <1>8 DEF QueuedLast
    <3>3. CASE ~New(p)
      BY <3>1, <3>3, <2>1, <2>4, <1>7 DEF BatchedLast
    <3> QED
      BY <3>2, <3>3
  <2>5. BatchedLast'
    BY <2>4, <1>1, SameOrder DEF BatchedLast
  <2> QED
    BY <2>3, <2>5
<1>17. OwnCalls'
  <2>1. \A p \in Ops : status[p] = "running" => status'[p] = "running"
    BY <1>7, <1>8
  <2> QED
    BY <2>1, <1>1, <1>9, <1>10, OwnCallsKept
<1> QED
  BY <1>12, <1>13, <1>14, <1>15, <1>16, <1>17

(* A block_on waits for a call of the closure it is in, or of the base,    *)
(* where no message is under it.                                           *)
LEMMA BlockOnOrder ==
    ASSUME IInv, TypeOK', Order, NEW t \in Threads, NEW o \in Ops, BlockOn(t, o)
    PROVE  Order'
<1> USE DEF Order
<1> DEFINE f == BlockOnFrame(o)
<1>1. /\ MayPoll(t) /\ holder[o] = Running(t)
      /\ stack' = [stack EXCEPT ![t] = <<f>> \o @] /\ queue' = queue
      /\ status' = status /\ target' = target /\ accepted' = accepted
      /\ holder' = [holder EXCEPT ![o] = None]
  BY DEF BlockOn, HoldsReceiver, Push
<1>2. f \in Frame /\ f.kind = "block_on" /\ f.batch = <<>> /\ f.op = o
  BY Frames DEF BlockOnFrame
<1>3. TypeOK /\ accepted \in Seq(Ops) /\ Pushed(t, f)
  BY <1>1, <1>2, PushStack DEF IInv, TypeOK
<1> HIDE DEF f
<1>4. Raised(t)
  BY <1>2, <1>3, PushMoves
<1>5. BatchesFrom(t, -1) /\ MessagesFrom(t, -1) /\ RunsFrom(t, -1)
  BY <1>4, RaisedFrames
<1>6. stack[t] = <<>> \/ InClosure(t)
  BY <1>1 DEF MayPoll, InUserCode
<1>7. Recorded'
  BY <1>1, <1>3, RecordedKept
<1>8. BatchOrder'
  BY <1>1, <1>5, BatchOrderKept
<1>9. RingOrder' /\ QueuedLast'
  BY <1>1, LinesKept
<1>10. Unnested'
  <2>1. ClosuresPoll = "never" => Flat'
    <3> SUFFICES ASSUME ClosuresPoll = "never" PROVE Flat'
      OBVIOUS
    <3>1. stack[t] = <<>>
      BY <1>1 DEF MayPoll, InUserCode
    <3>2. \A k \in 1..Len(stack[t]) : stack[t][k].kind # "poll"
      BY <3>1
    <3> QED
      BY <3>2, <1>2, <1>3, FlatKept DEF Unnested
  <2> QED
    BY <2>1, <1>1, UnnestedKept DEF Started
<1>11. OwnCalls'
  <2> SUFFICES ASSUME ~CarryReceivers PROVE HolderRuns' /\ HeldLater' /\ AwaitedLater'
    BY DEF OwnCalls
  <2>1. HolderRuns /\ HeldLater /\ AwaitedLater
    BY DEF OwnCalls
  <2>2. \A p \in Ops : holder'[p] \in Ops => holder'[p] = holder[p]
    BY <1>1, <1>3, Constants DEF TypeOK
  <2>3. HolderRuns'
    BY <2>1, <2>2, <1>1 DEF HolderRuns
  <2>4. HeldLater'
    BY <2>1, <2>2, <1>1, <1>5, HeldLaterKept
  <2>5. AwaitedLater'
    <3> SUFFICES ASSUME NEW u \in Threads, NEW x \in Ops, NEW p \in Ops, NEW k \in Int,
                        NEW l \in Int, Waits(stack', u, k, p), k < l, Has(stack', u, l, x)
        PROVE  Before(x, p)
      BY <1>1, SameOrder DEF AwaitedLater
    <3> DEFINE m == At(t, -1, u, k)
               n == At(t, -1, u, l)
    <3>1. m \in Int /\ n \in Int /\ m < n /\ k >= 1
      BY DEF At, Waits
    <3>2. ~Fresh(t, -1, u, l)
      BY <3>1 DEF Fresh
    <3>3. Has(stack, u, n, x)
      BY <3>2, <1>5 DEF MessagesFrom
    <3>4. CASE Waits(stack, u, m, p)
      <4> HIDE DEF m, n
      <4> QED
        BY <3>1, <3>3, <3>4, <2>1 DEF AwaitedLater
    <3>5. CASE u = t /\ k = 1 /\ p = o
      <4>1. n = l - 1 /\ n >= 1
        BY <3>5 DEF At
      <4> HIDE DEF n
      <4>2. stack[t] # <<>>
        BY <3>3, <3>5 DEF Has, Runs, InBatch
      <4>3. InClosure(t)
        BY <4>2, <1>6
      <4>4. holder[o] = Top(t).op /\ holder[o] \in Ops
        BY <4>3, <1>1, <1>3, TopFrame DEF Running, InClosure, On, TypeOK
      <4>5. Runs(stack, t, 1, holder[o])
        BY <4>3, <4>4, <1>3 DEF Runs, InClosure, On, Top, TypeOK
      <4> QED
        BY <4>1, <4>4, <4>5, <3>1, <3>3, <3>5, <2>1 DEF HeldLater
    <3> QED
      BY <3>4, <3>5, <1>2, <1>3, PushedWaits
  <2> QED
    BY <2>3, <2>4, <2>5
<1> QED
  BY <1>7, <1>8, <1>9, <1>10, <1>11

(* A send begins: its message is not accepted yet, and the receiver of its *)
(* call belongs to a closure that runs.                                    *)
LEMMA SendBeginOrder ==
    ASSUME IInv, TypeOK', Order, NEW t \in Threads, NEW u \in Threads, NEW o \in Ops,
           NEW isCall \in BOOLEAN, NEW carried \in Ops \cup {None},
           SendBegin(t, u, o, isCall, carried)
    PROVE  Order'
<1> USE DEF Order
<1>1. /\ status[o] = "idle" /\ stack' = stack /\ queue' = queue /\ accepted' = accepted
      /\ status' = [status EXCEPT ![o] =
              CASE life[u] = "destroyed" -> "dangling"
                [] life[u] = "exited" -> "leaked"
                [] OTHER -> "sending"]
      /\ target' = [target EXCEPT ![o] = u]
      /\ ~CarryReceivers => carried = None
  BY DEF SendBegin, threadVars
<1>2. TypeOK /\ accepted \in Seq(Ops)
  BY DEF IInv, TypeOK
<1>3. /\ status'[o] \in {"dangling", "leaked", "sending"}
      /\ \A p \in Ops \ {o} : status'[p] = status[p] /\ target'[p] = target[p]
  BY <1>1, <1>2 DEF TypeOK
<1>4. BatchesFrom(None, 0) /\ MessagesFrom(None, 0) /\ RunsFrom(None, 0) /\ WaitsFrom(None, 0)
  BY <1>1, SameFrames
<1>5. Recorded'
  BY <1>1, <1>2, <1>3, RecordedKept DEF Received
<1>6. BatchOrder'
  BY <1>1, <1>4, BatchOrderKept
<1>7. RingOrder' /\ QueuedLast'
  BY <1>1, <1>3, LinesKept
<1>8. Unnested'
  BY <1>1, <1>3, UnnestedKept DEF Started, Unnested, Flat
<1>9. OwnCalls'
  <2> SUFFICES ASSUME ~CarryReceivers PROVE HolderRuns' /\ HeldLater' /\ AwaitedLater'
    BY DEF OwnCalls
  <2>1. HolderRuns /\ HeldLater /\ AwaitedLater
    BY DEF OwnCalls
  <2>2. /\ \A p \in Ops \ {o} : holder'[p] \in Ops => holder'[p] = holder[p]
        /\ holder'[o] = Running(t) \/ holder'[o] \notin Ops \/ holder'[o] = holder[o]
    BY <1>1, Constants DEF SendBegin
  <2>3. Running(t) \in Ops => status[Running(t)] = "running"
    <3>1. Running(t) \in Ops => InClosure(t) /\ Running(t) = Top(t).op
      BY Constants DEF Running
    <3>2. InClosure(t) => 1 \in 1..Len(stack[t]) /\ Top(t) = stack[t][1] /\ Top(t).kind = "poll"
      BY <1>2 DEF InClosure, On, Top, TypeOK
    <3>3. Running(t) \in Ops => Runs(stack, t, 1, Running(t))
      BY <3>1, <3>2 DEF Runs
    <3> QED
      BY <3>3 DEF IInv, Placed, RunPlaced
  <2>4. HolderRuns'
    BY <2>1, <2>2, <2>3, <1>1, <1>3 DEF HolderRuns
  <2>5. \A x \in Ops : Before(x, o)
    BY <1>1, NotYet DEF Received
  <2>6. HeldLater'
    BY <2>1, <2>2, <2>5, <1>1, <1>4, HeldLaterKept
  <2>7. AwaitedLater'
    BY <2>1, <1>1, <1>4, AwaitedLaterKept
  <2> QED
    BY <2>4, <2>6, <2>7
<1> QED
  BY <1>5, <1>6, <1>7, <1>8, <1>9

(* The ring takes a message: it comes after all that were accepted.        *)
LEMMA SendEndOrder ==
    ASSUME IInv, TypeOK', Order, NEW o \in Ops, SendEnd(o)
    PROVE  Order'
<1> USE DEF Order
<1> DEFINE n == Len(queue[target[o]]) + 1
           Accepted == status'[o] = "queued"
<1>1. stack' = stack /\ target' = target /\ holder' = holder
  BY DEF SendEnd
<1>2. /\ status[o] = "sending" /\ target[o] \in Threads
      /\ status'[o] \in {"dangling", "leaked", "queued"}
      /\ ~Accepted => queue' = queue /\ accepted' = accepted
      /\ Accepted => accepted' = Append(accepted, o)
      /\ \A p \in Ops \ {o} : status'[p] = status[p]
      /\ \A v \in Threads, i \in Int, p \in Ops : InRing(queue', v, i, p) <=>
            \/ InRing(queue, v, i, p)
            \/ Accepted /\ v = target[o] /\ p = o /\ i = n
  BY SendEndMoves
<1>3. TypeOK /\ accepted \in Seq(Ops)
  BY DEF IInv, TypeOK
<1>4. \A p \in Ops : Started(p)' => Started(p)
  BY <1>2 DEF Started
<1>5. CASE ~Accepted
  <2>1. BatchesFrom(None, 0) /\ MessagesFrom(None, 0) /\ RunsFrom(None, 0) /\ WaitsFrom(None, 0)
    BY <1>1, SameFrames
  <2>2. status'[o] \in {"dangling", "leaked"}
    BY <1>2, <1>5
  <2> HIDE DEF Accepted, n
  <2>3. Recorded'
    BY <1>2, <1>3, <1>5, <2>2, RecordedKept DEF Received
  <2>4. BatchOrder'
    BY <1>2, <1>5, <2>1, BatchOrderKept
  <2>5. RingOrder' /\ QueuedLast'
    BY <1>1, <1>2, <1>5, <2>2, LinesKept
  <2>6. Unnested'
    <3>1. ClosuresPoll = "never" => Flat'
      BY <1>1 DEF Unnested, Flat
    <3>2. \A p \in Ops : status'[p] = "batched" => status[p] = "batched"
      BY <1>2, <2>2
    <3> QED
      BY <3>1, <3>2, <1>1, <1>2, <1>4, <1>5, UnnestedKept
  <2>7. OwnCalls'
    <3>1. \A p \in Ops : status[p] = "running" => status'[p] = "running"
      BY <1>2
    <3> QED
      BY <3>1, <1>1, <1>2, <1>5, <2>1, OwnCallsKept
  <2> QED
    BY <2>3, <2>4, <2>5, <2>6, <2>7
<1>6. CASE Accepted
  <2>1. /\ \A p \in Ops \ {o} : Before(p, o)'
        /\ \A p \in Ops \ {o}, q \in Ops : Before(p, q) => Before(p, q)'
    BY <1>2, <1>6, OrderGrows
  <2>2. \A u \in Threads, k, i \in Int, p \in Ops : InBatch(stack, u, k, i, p) => p # o
    BY <1>2 DEF IInv, Placed, BatchPlaced
  <2>3. \A u \in Threads, k \in Int, p \in Ops : Runs(stack, u, k, p) => p # o
    BY <1>2 DEF IInv, Placed, RunPlaced
  <2>4. \A u \in Threads, k \in Int, p \in Ops : Has(stack, u, k, p) => p # o
    BY <2>2, <2>3 DEF Has
  <2>5. \A u \in Threads, i \in Int, p \in Ops : InRing(queue, u, i, p) => p # o
    BY <1>2 DEF IInv, Placed, RingPlaced
  <2>6. Recorded'
    <3> DEFINE a == accepted
               m == Len(accepted)
    <3>1. /\ m \in Nat /\ accepted' = Append(a, o) /\ Len(Append(a, o)) = m + 1
          /\ Append(a, o)[m + 1] = o /\ \A i \in 1..m : Append(a, o)[i] = a[i] /\ a[i] \in Ops
      BY <1>2, <1>3, <1>6
    <3>2. \A i \in 1..m : a[i] # o
      BY <1>2 DEF Recorded, Received
    <3>3. \A i \in 1..m + 1 : i \in 1..m \/ i = m + 1
      BY <3>1
    <3>4. 1..m \subseteq 1..m + 1 /\ m + 1 \in 1..m + 1
      BY <3>1
    <3>5. Recorded <=>
              /\ \A i, j \in 1..m : a[i] = a[j] => i = j
              /\ \A i \in 1..m : status[a[i]] \in Received
              /\ \A p \in Ops : status[p] \in Received => \E i \in 1..m : a[i] = p
      BY DEF Recorded
    <3> HIDE DEF a, m
    <3>6. \A i, j \in 1..m + 1 : accepted'[i] = accepted'[j] => i = j
      BY <3>1, <3>2, <3>3, <3>5
    <3>7. \A i \in 1..m + 1 : status'[accepted'[i]] \in Received
      BY <1>2, <1>6, <3>1, <3>2, <3>3, <3>5 DEF Received
    <3>8. \A p \in Ops : status'[p] \in Received => \E i \in 1..m + 1 : accepted'[i] = p
      <4> SUFFICES ASSUME NEW p \in Ops, status'[p] \in Received
                   PROVE  \E i \in 1..m + 1 : accepted'[i] = p
        OBVIOUS
      <4>1. CASE p = o
        BY <4>1, <3>1, <3>4
      <4>2. CASE p # o
        BY <4>2, <1>2, <3>1, <3>4, <3>5
      <4> QED
        BY <4>1, <4>2
    <3> QED
      BY <3>1, <3>6, <3>7, <3>8 DEF Recorded
  <2>7. RingOrder'
    <3> SUFFICES ASSUME NEW u \in Threads, NEW x \in Ops, NEW p \in Ops, NEW i \in Int,
                        NEW j \in Int, InRing(queue', u, i, x), InRing(queue', u, j, p), i < j
        PROVE  Before(x, p)'
      BY DEF RingOrder
    <3>1. CASE x = o
      <4>1. i = n /\ u = target[o]
        BY <3>1, <1>2, <2>5
      <4>2. n \in Int /\ Len(queue[u]) \in Nat /\ n = Len(queue[u]) + 1
        BY <4>1, <1>3 DEF TypeOK
      <4>3. InRing(queue, u, j, p) \/ j = n
        BY <1>2
      <4> QED
        BY <4>1, <4>2, <4>3 DEF InRing
    <3>2. CASE x # o
      <4>1. InRing(queue, u, i, x)
        BY <3>2, <1>2
      <4>2. CASE p = o
        BY <4>2, <3>2, <2>1
      <4>3. CASE p # o
        <5>1. InRing(queue, u, j, p)
          BY <4>3, <1>2
        <5> QED
          BY <5>1, <4>1, <3>2, <2>1 DEF RingOrder
      <4> QED
        BY <4>2, <4>3
    <3> QED
      BY <3>1, <3>2
  <2>8. BatchOrder'
    BY <1>1, <2>1, <2>2 DEF BatchOrder
  <2>9. QueuedLast'
    <3> SUFFICES ASSUME NEW x \in Ops, NEW p \in Ops, status'[x] \in {"batched", "running", "done"},
                        status'[p] = "queued", target[x] = target[p]
        PROVE  Before(x, p)'
      BY <1>1 DEF QueuedLast
    <3>1. x # o /\ status[x] = status'[x]
      BY <1>2, <1>6
    <3>2. CASE p = o
      BY <3>1, <3>2, <2>1
    <3>3. CASE p # o
      BY <3>1, <3>3, <1>2, <2>1 DEF QueuedLast
    <3> QED
      BY <3>2, <3>3
  <2>10. Unnested'
    <3> SUFFICES ASSUME ClosuresPoll = "never" PROVE Flat' /\ BatchedLast'
      BY DEF Unnested
    <3>1. Flat'
      BY <1>1 DEF Unnested, Flat
    <3>2. ASSUME NEW x \in Ops, NEW p \in Ops, Started(x)', status'[p] = "batched",
                 target[x] = target[p]
          PROVE  Before(x, p)'
      <4>1. x # o /\ p # o /\ Started(x) /\ status[p] = "batched"
        BY <3>2, <1>2, <1>4, <1>6 DEF Started
      <4> QED
        BY <4>1, <3>2, <2>1 DEF Unnested, BatchedLast
    <3>3. BatchedLast'
      BY <3>2, <1>1 DEF BatchedLast
    <3> QED
      BY <3>1, <3>3
  <2>11. OwnCalls'
    <3> SUFFICES ASSUME ~CarryReceivers PROVE HolderRuns' /\ HeldLater' /\ AwaitedLater'
      BY DEF OwnCalls
    <3>1. HolderRuns /\ HeldLater /\ AwaitedLater
      BY DEF OwnCalls
    <3>2. HolderRuns'
      BY <3>1, <1>1, <1>2 DEF HolderRuns
    <3>3. HeldLater'
      BY <3>1, <1>1, <2>1, <2>4 DEF HeldLater
    <3>4. AwaitedLater'
      BY <3>1, <1>1, <2>1, <2>4 DEF AwaitedLater
    <3> QED
      BY <3>2, <3>3, <3>4
  <2> QED
    BY <2>6, <2>7, <2>8, <2>9, <2>10, <2>11
<1> QED
  BY <1>5, <1>6

-------------------------------------------------------------------------------
LEMMA InitOrder == Init => Order
<1> SUFFICES ASSUME Init PROVE Order
  OBVIOUS
<1>1. /\ \A t \in Threads : queue[t] = <<>> /\ stack[t] = <<>>
      /\ \A o \in Ops : status[o] = "idle" /\ holder[o] = None
      /\ accepted = <<>>
  BY DEF Init
<1>2. Recorded
  BY <1>1 DEF Recorded, Received
<1>3. RingOrder /\ BatchOrder /\ QueuedLast
  BY <1>1 DEF RingOrder, BatchOrder, QueuedLast, InRing, InBatch
<1>4. Unnested
  BY <1>1 DEF Unnested, Flat, BatchedLast
<1>5. OwnCalls
  BY <1>1, Constants DEF OwnCalls, HolderRuns, HeldLater, AwaitedLater, Waits
<1> QED
  BY <1>2, <1>3, <1>4, <1>5 DEF Order

LEMMA NextOrder == IInv /\ Order /\ [Next]_vars => Order'
<1> SUFFICES ASSUME IInv, Order, [Next]_vars PROVE Order'
  OBVIOUS
<1>1. TypeOK'
  BY NextType DEF IInv
<1>2. CASE UNCHANGED vars
  BY <1>2, StutterOrder
<1>3. CASE \E t, u \in Threads, o \in Ops, isCall \in BOOLEAN, carried \in Ops \cup {None} :
               SendBegin(t, u, o, isCall, carried)
  BY <1>1, <1>3, SendBeginOrder
<1>4. CASE \E o \in Ops : SendEnd(o)
  BY <1>1, <1>4, SendEndOrder
<1>5. CASE \E t \in Threads, n \in 1..Batch : PollBegin(t, n)
  BY <1>1, <1>5, PollBeginOrder
<1>6. CASE \E t \in Threads : RunMsg(t) \/ FinishMsg(t) \/ PollEnd(t)
  BY <1>1, <1>6, RunMsgOrder, FinishMsgOrder, PollEndOrder
<1>7. CASE \E t \in Threads, o \in Ops : BlockOn(t, o) \/ ForgetCall(t, o)
  BY <1>1, <1>7, BlockOnOrder, ForgetCallOrder
<1>8. CASE \E t \in Threads : BlockOnReturn(t) \/ DropBegin(t) \/ DropEnd(t)
  BY <1>1, <1>8, WaitEndOrder, DropBeginOrder
<1> QED
  BY <1>2, <1>3, <1>4, <1>5, <1>6, <1>7, <1>8 DEF Next, Terminated

(* The bookkeeping of order and waits, for thread.rs:549-597, is inductive *)
(* together with IInv.                                                     *)
THEOREM OrderHolds == Spec => []Order
BY InitInv, NextInv, InitOrder, NextOrder, PTL DEF Spec

(* Only RunMsg starts a closure, the first of the innermost batch. *)
LEMMA StartedIsHead ==
    ASSUME IInv, [Next]_vars, NEW o \in Ops, ~Started(o), status'[o] \in {"running", "done"}
    PROVE  /\ InBatch(stack, target[o], 1, 1, o) /\ target[o] \in Threads
           /\ status[o] = "batched"
<1> USE DEF IInv, TypeOK
<1>1. ASSUME NEW t \in Threads, NEW u \in Threads, NEW p \in Ops, NEW isCall \in BOOLEAN,
             NEW carried \in Ops \cup {None}, SendBegin(t, u, p, isCall, carried)
      PROVE  FALSE
  BY <1>1 DEF SendBegin, Started
<1>2. ASSUME NEW p \in Ops, SendEnd(p) PROVE FALSE
  BY <1>2 DEF SendEnd, Started
<1>3. ASSUME NEW t \in Threads, NEW n \in 1..Batch, PollBegin(t, n) PROVE FALSE
  <2>1. status'[o] = IF \E i \in 1..BatchLen(t, n) : Taken(t, n)[i] = o
                     THEN "batched" ELSE status[o]
    BY <1>3 DEF PollBegin
  <2> QED
    BY <2>1 DEF Started
<1>4. ASSUME NEW t \in Threads, RunMsg(t)
      PROVE  InBatch(stack, t, 1, 1, o)
  <2> DEFINE b == Top(t).batch
  <2>1. stack[t] # <<>> /\ b # <<>> /\ status' = [status EXCEPT ![Head(b)] = "running"]
    BY <1>4 DEF RunMsg, On
  <2>2. b \in Seq(Ops)
    BY <2>1, TopFrame
  <2>3. Len(stack[t]) \in Nat \ {0} /\ b = stack[t][1].batch
    BY <2>1 DEF Top
  <2> HIDE DEF b
  <2>4. Head(b) \in Ops /\ Len(b) \in Nat \ {0} /\ b[1] = Head(b)
    BY <2>1, <2>2
  <2>5. Head(b) = o
    BY <2>1, <2>4 DEF Started
  <2> QED
    BY <2>3, <2>4, <2>5 DEF InBatch
<1>5. ASSUME NEW t \in Threads, FinishMsg(t) PROVE FALSE
  <2> DEFINE p == Top(t).op
  <2>1. /\ stack[t] # <<>> /\ Top(t).kind = "poll" /\ p # None
        /\ status' = [status EXCEPT ![p] = "done"]
    BY <1>5 DEF FinishMsg, InClosure, On
  <2>2. p \in Ops /\ 1 \in 1..Len(stack[t]) /\ Top(t) = stack[t][1]
    BY <2>1, TopFrame DEF Top
  <2>3. Runs(stack, t, 1, p)
    BY <2>1, <2>2 DEF Runs
  <2>4. status[p] = "running"
    BY <2>2, <2>3 DEF Placed, RunPlaced
  <2> QED
    BY <2>1, <2>4 DEF Started
<1>6. ASSUME NEW t \in Threads,
             \/ PollEnd(t) \/ BlockOnReturn(t) \/ DropBegin(t) \/ DropEnd(t)
             \/ \E p \in Ops : BlockOn(t, p) \/ ForgetCall(t, p)
      PROVE  FALSE
  BY <1>6 DEF PollEnd, BlockOnReturn, DropBegin, DropEnd, BlockOn, ForgetCall, opVars, Started
<1>7. CASE UNCHANGED vars
  BY <1>7 DEF vars, opVars, Started
<1>8. PICK t \in Threads : InBatch(stack, t, 1, 1, o)
  <2> HIDE DEF IInv, TypeOK
  <2> QED
    BY <1>1, <1>2, <1>3, <1>4, <1>5, <1>6, <1>7 DEF Next, Terminated
<1>9. target[o] = t /\ status[o] = "batched"
  BY <1>8 DEF Placed, BatchPlaced
<1> QED
  BY <1>8, <1>9

(* What is behind in the history of one target, and has started, or is     *)
(* about to, leaves an earlier message in a batch only.                    *)
LEMMA LeftInBatch ==
    ASSUME IInv, Order, NEW i \in 1..Len(accepted), NEW j \in 1..Len(accepted), i < j,
           target[accepted[i]] = target[accepted[j]],
           Started(accepted[j]) \/ status[accepted[j]] = "batched", ~Started(accepted[i])
    PROVE  /\ accepted[i] \in Ops /\ accepted[j] \in Ops /\ ~Before(accepted[j], accepted[i])
           /\ status[accepted[i]] = "batched"
<1> DEFINE o == accepted[i]
           p == accepted[j]
<1>1. o \in Ops /\ p \in Ops
  BY DEF IInv, TypeOK
<1>2. ~Before(p, o)
  BY DEF Before
<1>3. status[o] \in {"queued", "batched"}
  BY DEF Order, Recorded, Received, Started
<1> HIDE DEF o, p
<1>4. status[o] # "queued"
  BY <1>1, <1>2 DEF Order, QueuedLast, Started, o, p
<1> QED
  BY <1>1, <1>2, <1>3, <1>4 DEF o, p

(* thread.rs:558-573: what is sent to a thread starts in the order its     *)
(* ring took it, from any number of senders and however sends interleave   *)
(* with polls; only a closure that polls lets a message overtake those     *)
(* that a poll under it has dequeued and not started.                      *)
THEOREM InOrderHolds == Spec => InOrderUnlessNested
<1>1. ASSUME IInv, Order, [Next]_vars, NEW i \in 1..Len(accepted), NEW j \in 1..Len(accepted),
             i < j, target[accepted[i]] = target[accepted[j]],
             ~Started(accepted[j]), status'[accepted[j]] \in {"running", "done"},
             ~Started(accepted[i])
      PROVE  Overtaken(accepted[i])
  <2> DEFINE o == accepted[i]
             p == accepted[j]
             t == target[o]
  <2>1. o \in Ops /\ p \in Ops /\ target[p] = t
    BY <1>1 DEF IInv, TypeOK
  <2>2. InBatch(stack, t, 1, 1, p) /\ t \in Threads /\ status[p] = "batched"
    BY <1>1, <2>1, StartedIsHead
  <2>3. ~Before(p, o) /\ status[o] = "batched"
    BY <1>1, <2>2, LeftInBatch
  <2>4. o # p
    BY <1>1, <2>1 DEF Order, Recorded
  <2> HIDE DEF o, p, t
  <2>5. PICK k \in Int, m \in Int : InBatch(stack, t, k, m, o)
    BY <1>1, <2>1, <2>3 DEF IInv, Tracked, t
  <2>6. k \in 1..Len(stack[t]) /\ m \in 1..Len(stack[t][k].batch) /\ stack[t][k].batch[m] = o
    BY <2>5 DEF InBatch
  <2>7. k # 1
    <3> SUFFICES ASSUME k = 1 PROVE FALSE
      OBVIOUS
    <3>1. m # 1
      BY <2>2, <2>4, <2>6 DEF InBatch
    <3>2. 1 < m
      BY <2>6, <3>1
    <3> QED
      BY <1>1, <2>1, <2>2, <2>3, <2>5, <3>2 DEF Order, BatchOrder
  <2>8. k \in 2..Len(stack[t])
    BY <2>6, <2>7
  <2> QED
    BY <2>6, <2>8 DEF Overtaken, o, t
<1>2. IInv /\ Order /\ [Next]_vars =>
          [\A i, j \in 1..Len(accepted) :
             (/\ i < j /\ target[accepted[i]] = target[accepted[j]]
              /\ ~Started(accepted[j]) /\ status'[accepted[j]] \in {"running", "done"})
                 => Started(accepted[i]) \/ Overtaken(accepted[i])]_vars
  BY <1>1
<1> QED
  BY <1>2, InvHolds, OrderHolds, PTL DEF Spec, InOrderUnlessNested

(* thread.rs:558-573, when closures do not poll: messages to one thread    *)
(* start in the order its ring took them, without exception.               *)
InOrder ==
    \A i, j \in 1..Len(accepted) :
        (i < j /\ target[accepted[i]] = target[accepted[j]] /\ Started(accepted[j])) =>
            Started(accepted[i])

THEOREM InOrderWithoutPolls == ClosuresPoll = "never" => (Spec => []InOrder)
<1> SUFFICES ASSUME ClosuresPoll = "never" PROVE Spec => []InOrder
  OBVIOUS
<1>1. IInv /\ Order => InOrder
  <2> SUFFICES ASSUME IInv, Order, NEW i \in 1..Len(accepted), NEW j \in 1..Len(accepted), i < j,
                      target[accepted[i]] = target[accepted[j]], Started(accepted[j]),
                      ~Started(accepted[i])
      PROVE  FALSE
    BY DEF InOrder
  <2> QED
    BY LeftInBatch DEF Order, Unnested, BatchedLast
<1> QED
  BY <1>1, InvHolds, OrderHolds, PTL

(* A non-empty set of positions of the history has a last one. *)
LEMMA LastPosition ==
    ASSUME NEW n \in Nat, NEW I \in SUBSET (1..n), I # {}
    PROVE  \E i \in I : \A j \in I : ~(i < j)
<1> DEFINE R == OpToRel(<, Nat)
           T == {n - i : i \in I}
<1>1. IsWellFoundedOn(R, Nat)
  BY NatLessThanWellFounded
<1>2. R = {s \in Nat \X Nat : s[1] < s[2]}
  BY Zenon DEF OpToRel
<1> HIDE DEF R
<1>3. T \subseteq Nat /\ T # {}
  <2>1. \A i \in I : n - i \in Nat
    OBVIOUS
  <2>2. T \subseteq Nat
    BY <2>1
  <2>3. PICK i \in I : TRUE
    OBVIOUS
  <2>4. n - i \in T
    BY <2>3
  <2> QED
    BY <2>2, <2>4
<1>4. \E x \in T : \A y \in T : ~(<<y, x>> \in R)
  <2> HIDE DEF T
  <2> QED
    BY <1>1, <1>3, WFMin
<1>5. PICK i \in I : \A y \in T : ~(<<y, n - i>> \in R)
  BY <1>4
<1>6. ASSUME NEW j \in I, i < j PROVE FALSE
  <2>1. n - j \in T /\ n - j \in Nat /\ n - i \in Nat /\ n - j < n - i
    BY <1>6
  <2> HIDE DEF T
  <2>2. <<n - j, n - i>> \in R
    BY <2>1, <1>2
  <2> QED
    BY <2>1, <2>2, <1>5
<1> QED
  BY <1>6

(* What a buried wait waits for was accepted, before what buries it.       *)
LEMMA BuriedBefore ==
    ASSUME IInv, Order, ~CarryReceivers, NEW t \in Threads, NEW u \in Threads, BuriedIn(t, u)
    PROVE  /\ Top(t).op \in Ops /\ Top(u).op \in Ops
           /\ \E i \in 1..Len(accepted) : accepted[i] = Top(t).op
           /\ Before(Top(t).op, Top(u).op)
<1> USE DEF IInv, Order
<1>1. \A v \in {t, u} : /\ 1 \in 1..Len(stack[v]) /\ Top(v) = stack[v][1]
                        /\ stack[v][1].kind = "block_on"
  BY DEF BuriedIn, On, Top, TypeOK
<1>2. Top(t).op \in Ops /\ Top(u).op \in Ops
  BY <1>1 DEF Shape
<1>3. PICK k \in 1..Len(stack[u]) : Has(stack, u, k, Top(t).op)
  <2>1. PICK k \in 1..Len(stack[u]) :
            \/ stack[u][k].kind = "poll" /\ stack[u][k].op = Top(t).op
            \/ \E i \in 1..Len(stack[u][k].batch) : stack[u][k].batch[i] = Top(t).op
    BY DEF BuriedIn
  <2> QED
    BY <2>1 DEF Has, Runs, InBatch
<1>4. k # 1
  <2>1. ~Runs(stack, u, 1, Top(t).op)
    BY <1>1 DEF Runs
  <2>2. \A i \in Int : ~InBatch(stack, u, 1, i, Top(t).op)
    <3>1. stack[u][1].batch = <<>>
      BY <1>1 DEF Shape
    <3> QED
      BY <3>1 DEF InBatch
  <2> QED
    BY <2>1, <2>2, <1>3 DEF Has
<1>5. 1 < k /\ k \in Int
  BY <1>4
<1>6. Waits(stack, u, 1, Top(u).op)
  BY <1>1 DEF Waits
<1>7. Before(Top(t).op, Top(u).op)
  BY <1>2, <1>3, <1>5, <1>6 DEF OwnCalls, AwaitedLater
<1>8. status[Top(t).op] \in {"batched", "running"}
  BY <1>2, <1>3 DEF Has, Placed, BatchPlaced, RunPlaced
<1> QED
  BY <1>2, <1>7, <1>8 DEF Recorded, Received

(* block_on (complete.rs:113-130) in closures: as long as a closure waits  *)
(* only for calls it made itself, no set of threads, of any size and with  *)
(* any depth of nested waits, is buried in a circle.  Along the circle the *)
(* calls waited for would be younger and younger.                          *)
THEOREM NoWaitCycleHolds == ~CarryReceivers => (Spec => []NoWaitCycle)
<1> SUFFICES ASSUME ~CarryReceivers PROVE Spec => []NoWaitCycle
  OBVIOUS
<1>1. IInv /\ Order => NoWaitCycle
  <2> SUFFICES ASSUME IInv, Order, NEW S \in SUBSET Threads, S # {},
                      \A t \in S : \E u \in S : BuriedIn(t, u)
      PROVE  FALSE
    BY DEF NoWaitCycle
  <2> DEFINE n == Len(accepted)
             I == {i \in 1..n : \E t \in S : accepted[i] = Top(t).op}
  <2>1. n \in Nat
    BY DEF IInv, TypeOK
  <2>2. ASSUME NEW t \in S PROVE \E i \in I : accepted[i] = Top(t).op
    BY <2>2, BuriedBefore
  <2>3. I \in SUBSET (1..n) /\ I # {}
    BY <2>2
  <2>4. ASSUME NEW i \in I PROVE \E j \in I : i < j
    <3>1. PICK t \in S : accepted[i] = Top(t).op
      OBVIOUS
    <3>2. PICK u \in S : BuriedIn(t, u)
      OBVIOUS
    <3>3. PICK j \in I : accepted[j] = Top(u).op
      BY <2>2
    <3>4. Before(Top(t).op, Top(u).op)
      BY <3>2, BuriedBefore
    <3> QED
      BY <3>1, <3>3, <3>4 DEF Before
  <2> HIDE DEF I, n
  <2> QED
    BY <2>1, <2>3, <2>4, LastPosition
<1> QED
  BY <1>1, InvHolds, OrderHolds, PTL
===============================================================================
