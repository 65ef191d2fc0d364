----------------------------- MODULE Event_proofs -----------------------------
(***************************************************************************)
(* What Event guarantees for every number of cores, events and event       *)
(* objects and every batch size, whoever calls, drops, waits or stops.     *)
(***************************************************************************)
EXTENDS Event, SequenceTheorems, TLAPS

Called(o) == ev[o] \in {"called", "running", "done"}

(* The run of the application: the message of stop waits only while it is  *)
(* up; a reactor outside the run, or that left it, has nothing in hand.     *)
Phases ==
    /\ stopSent => app = "up"
    /\ app = "idle" => \A c \in Cores : ~left[c]
    /\ \A c \in Cores :
          /\ app \in {"idle", "returned"} \/ left[c] => running[c] = None /\ batch[c] = <<>>
          /\ app \in {"idle", "returned"} => ring[c] = <<>>

(* An SpdkEvent value still has the closure's box; a box is reclaimed when *)
(* the event starts, is dropped, or was never made.                        *)
Boxes ==
    \A o \in Ops :
        /\ ev[o] = "held" => closure[o] /\ target[o] \in Cores
        /\ frees[o] = IF ev[o] \in {"running", "done", "uncalled", "refused"} THEN 1 ELSE 0

(* An event that runs does so on one core.                                 *)
Runs ==
    \A c \in Cores : running[c] \in Ops =>
        /\ ev[running[c]] = "running"
        /\ \A d \in Cores : running[d] = running[c] => d = c

(* The sender is captured by the closure: it is there until the event is   *)
(* done, and then a receiver that is not dropped has its value.            *)
Pairs ==
    \A o \in Ops :
        /\ tx[o] # "raw"
        /\ tx[o] = "none" => rx[o] = "none" /\ slot[o] = None
        /\ tx[o] = "owned" =>
              ev[o] \in {"called", "running"} /\ slot[o] = None /\ rx[o] \in {"waiting", "dropped"}
        /\ tx[o] = "gone" =>
              ev[o] = "done" /\ (rx[o] = "dropped" \/ slot[o] # None)

(* The line of a core: the events that wait there are called and meant for *)
(* it, each one once; ...                                                  *)
Placed ==
    \A c \in Cores : \A k \in 1 .. Len(Waiting(c)) :
        /\ target[Waiting(c)[k]] = c
        /\ ev[Waiting(c)[k]] = "called"
        /\ \A l \in 1 .. Len(Waiting(c)) : Waiting(c)[k] = Waiting(c)[l] => k = l

(* ... until the rings go, an event that was called and has not started is *)
(* in the line of its core; ...                                            *)
InLine(o) ==
    /\ target[o] \in Cores
    /\ \E k \in 1 .. Len(Waiting(target[o])) : Waiting(target[o])[k] = o

Kept == \A o \in Ops : ev[o] = "called" /\ app # "returned" => InLine(o)

(* ... and a line has the order of the calls.                              *)
History ==
    \A i \in 1 .. Len(order) :
        /\ Called(order[i])
        /\ \A j \in 1 .. Len(order) : order[i] = order[j] => i = j

InStep ==
    \A c \in Cores : \A k, l \in 1 .. Len(Waiting(c)) : \A i, j \in 1 .. Len(order) :
        order[i] = Waiting(c)[k] /\ order[j] = Waiting(c)[l] /\ k < l => i < j

Lines == Placed /\ Kept /\ History /\ InStep

IInv == TypeOK /\ Phases /\ Boxes /\ Runs /\ Pairs /\ Lines /\ StartsInOrder

-------------------------------------------------------------------------------
(* Lines: a call adds to the end of one, taking a batch moves its events   *)
(* within the line, starting one takes it from the front.                  *)

LEMMA WaitingType ==
    ASSUME TypeOK, NEW c \in Cores
    PROVE  Waiting(c) \in Seq(Ops) /\ Len(Waiting(c)) \in Nat
<1>1. batch[c] \in Seq(Ops) /\ ring[c] \in Seq(Ops)
  BY DEF TypeOK
<1> QED
  BY <1>1, ConcatProperties, LenProperties DEF Waiting

(* Taking n events off a ring and putting them after an empty batch.       *)
LEMMA Moved ==
    ASSUME NEW s \in Seq(Ops), NEW n \in Nat, n <= Len(s)
    PROVE  /\ SubSeq(s, 1, n) \in Seq(Ops) /\ SubSeq(s, n + 1, Len(s)) \in Seq(Ops)
           /\ SubSeq(s, 1, n) \o SubSeq(s, n + 1, Len(s)) = s
<1> DEFINE m == Len(s)
<1>1. m \in Nat /\ DOMAIN s = 1 .. m /\ \A i \in 1 .. m : s[i] \in Ops
  BY LenProperties, ElementOfSeq
<1>2. SubSeq(s, 1, n) \o SubSeq(s, n + 1, m) = SubSeq(s, 1, m)
  <2>1. 1 \in 1 .. Len(s) + 1 /\ n \in 1 - 1 .. Len(s) /\ m \in n .. Len(s)
    BY <1>1
  <2> QED
    BY <2>1, ConcatAdjacentSubSeq, Zenon
<1>3. SubSeq(s, 1, m) = s
  BY SubSeqFull
<1>4. SubSeq(s, 1, n) \in Seq(Ops)
  BY <1>1, SubSeqProperties
<1>5. SubSeq(s, n + 1, m) \in Seq(Ops)
  BY <1>1, SubSeqProperties
<1> QED
  BY <1>2, <1>3, <1>4, <1>5

LEMMA EnqueueEffect ==
    ASSUME TypeOK, NEW o \in Ops, NEW d \in Cores, Enqueue(o, d), UNCHANGED batch
    PROVE  /\ ring' \in [Cores -> Seq(Ops)] /\ order' \in Seq(Ops)
           /\ order' = Append(order, o)
           /\ Waiting(d)' = Append(Waiting(d), o)
           /\ \A c \in Cores : c # d => Waiting(c)' = Waiting(c)
<1>1. batch[d] \in Seq(Ops) /\ ring[d] \in Seq(Ops) /\ <<o>> \in Seq(Ops)
  BY DEF TypeOK
<1>2. Append(ring[d], o) \in Seq(Ops) /\ Append(order, o) \in Seq(Ops)
  BY <1>1, AppendProperties DEF TypeOK
<1>3. batch[d] \o Append(ring[d], o) = Append(batch[d] \o ring[d], o)
  <2>1. Append(ring[d], o) = ring[d] \o <<o>>
    BY <1>1, AppendIsConcat
  <2>2. batch[d] \o ring[d] \in Seq(Ops)
    BY <1>1, ConcatProperties
  <2>3. Append(batch[d] \o ring[d], o) = (batch[d] \o ring[d]) \o <<o>>
    BY <2>2, AppendIsConcat
  <2>4. (batch[d] \o ring[d]) \o <<o>> = batch[d] \o (ring[d] \o <<o>>)
    <3> DEFINE b == batch[d]
               r == ring[d]
               e == <<o>>
    <3>1. b \in Seq(Ops) /\ r \in Seq(Ops) /\ e \in Seq(Ops)
      BY <1>1
    <3> HIDE DEF b, r, e
    <3>2. (b \o r) \o e = b \o (r \o e)
      BY <3>1, ConcatAssociative
    <3> QED
      BY <3>2 DEF b, r, e
  <2> QED
    BY <2>1, <2>3, <2>4
<1>4. ring'[d] = Append(ring[d], o) /\ \A c \in Cores : c # d => ring'[c] = ring[c]
  BY DEF Enqueue, TypeOK
<1> QED
  BY <1>2, <1>3, <1>4 DEF Enqueue, Ordered, Waiting, TypeOK

LEMMA TakeEffect ==
    ASSUME TypeOK, NEW c \in Cores, TakeBatch(c)
    PROVE  /\ ring' \in [Cores -> Seq(Ops)] /\ batch' \in [Cores -> Seq(Ops)]
           /\ \A d \in Cores : Waiting(d)' = Waiting(d)
<1> DEFINE n == IF Len(ring[c]) < Batch THEN Len(ring[c]) ELSE Batch
<1>1. ring[c] \in Seq(Ops) /\ Len(ring[c]) \in Nat /\ batch[c] = <<>>
  BY LenProperties DEF TypeOK, TakeBatch
<1>2. n \in Nat /\ n <= Len(ring[c])
  BY <1>1, BoundsAssumption
<1>3. /\ batch' = [batch EXCEPT ![c] = SubSeq(ring[c], 1, n)]
      /\ ring' = [ring EXCEPT ![c] = SubSeq(@, n + 1, Len(@))]
  BY DEF TakeBatch
<1> HIDE DEF n
<1>4. /\ SubSeq(ring[c], 1, n) \in Seq(Ops) /\ SubSeq(ring[c], n + 1, Len(ring[c])) \in Seq(Ops)
      /\ SubSeq(ring[c], 1, n) \o SubSeq(ring[c], n + 1, Len(ring[c])) = ring[c]
  BY <1>1, <1>2, Moved
<1>5. batch'[c] = SubSeq(ring[c], 1, n) /\ ring'[c] = SubSeq(ring[c], n + 1, Len(ring[c]))
  BY <1>3 DEF TypeOK
<1>6. ring' \in [Cores -> Seq(Ops)] /\ batch' \in [Cores -> Seq(Ops)]
  BY <1>3, <1>4 DEF TypeOK
<1>7. Waiting(c)' = Waiting(c)
  <2>1. Waiting(c)' = ring[c]
    BY <1>4, <1>5 DEF Waiting
  <2>2. Waiting(c) = ring[c]
    BY <1>1, ConcatEmptySeq DEF Waiting
  <2> QED
    BY <2>1, <2>2
<1>8. \A d \in Cores : d # c => Waiting(d)' = Waiting(d)
  BY <1>3 DEF TypeOK, Waiting
<1> QED
  BY <1>6, <1>7, <1>8

LEMMA RunEffect ==
    ASSUME TypeOK, NEW c \in Cores, RunEvent(c)
    PROVE  /\ batch' \in [Cores -> Seq(Ops)]
           /\ Waiting(c) # <<>> /\ Head(batch[c]) = Waiting(c)[1] /\ Head(batch[c]) \in Ops
           /\ Waiting(c)' = Tail(Waiting(c))
           /\ \A d \in Cores : d # c => Waiting(d)' = Waiting(d)
<1> DEFINE b == batch[c]
           r == ring[c]
<1>1. b \in Seq(Ops) /\ r \in Seq(Ops) /\ b # <<>>
  BY DEF TypeOK, RunEvent
<1>2. batch' = [batch EXCEPT ![c] = Tail(b)] /\ UNCHANGED ring
  BY DEF RunEvent
<1>3. Waiting(c) = b \o r
  BY DEF Waiting
<1>4. batch'[c] = Tail(b)
  BY <1>2 DEF TypeOK
<1>5. Waiting(c)' = Tail(b) \o r
  BY <1>2, <1>4 DEF Waiting
<1> HIDE DEF b, r
<1>6. Head(b) \in Ops /\ Tail(b) \in Seq(Ops) /\ Head(b) = b[1]
  BY <1>1, HeadTailProperties
<1>7. Len(b) \in Nat /\ Len(b) > 0 /\ Len(r) \in Nat
  BY <1>1, LenProperties, EmptySeq
<1>8. b \o r # <<>> /\ (b \o r)[1] = b[1]
  BY <1>1, <1>7, ConcatProperties, ConcatEqualIffEmpty
<1>9. Tail(b) \o r = Tail(b \o r)
  <2>1. /\ Len(Tail(b)) = Len(b) - 1 /\ \A i \in 1 .. Len(Tail(b)) : Tail(b)[i] = b[i + 1]
    BY <1>1, HeadTailProperties
  <2>2. /\ b \o r \in Seq(Ops) /\ Len(b \o r) = Len(b) + Len(r)
        /\ \A i \in 1 .. Len(b) + Len(r) : (b \o r)[i] = IF i <= Len(b) THEN b[i] ELSE r[i - Len(b)]
    BY <1>1, ConcatProperties
  <2>3. /\ Tail(b \o r) \in Seq(Ops) /\ Len(Tail(b \o r)) = Len(b \o r) - 1
        /\ \A i \in 1 .. Len(Tail(b \o r)) : Tail(b \o r)[i] = (b \o r)[i + 1]
    BY <2>2, <1>8, HeadTailProperties
  <2>4. /\ Tail(b) \o r \in Seq(Ops) /\ Len(Tail(b) \o r) = Len(Tail(b)) + Len(r)
        /\ \A i \in 1 .. Len(Tail(b)) + Len(r) :
              (Tail(b) \o r)[i] = IF i <= Len(Tail(b)) THEN Tail(b)[i] ELSE r[i - Len(Tail(b))]
    BY <1>1, <1>6, ConcatProperties
  <2> DEFINE m == Len(b)
             n == Len(r)
             s == Tail(b) \o r
             t == Tail(b \o r)
  <2>5. Len(s) = m + n - 1 /\ Len(t) = m + n - 1
    BY <2>1, <2>2, <2>3, <2>4, <1>7
  <2>6. ASSUME NEW i \in 1 .. m + n - 1 PROVE s[i] = t[i]
    <3>1. CASE i <= m - 1
      <4>1. s[i] = b[i + 1]
        BY <3>1, <2>1, <2>4, <1>7
      <4>2. t[i] = b[i + 1]
        BY <3>1, <2>2, <2>3, <1>7
      <4> QED
        BY <4>1, <4>2
    <3>2. CASE i > m - 1
      <4>1. s[i] = r[i - (m - 1)]
        BY <3>2, <2>1, <2>4, <1>7
      <4>2. t[i] = r[i + 1 - m]
        BY <3>2, <2>2, <2>3, <1>7
      <4>3. i - (m - 1) = i + 1 - m
        BY <1>7
      <4> QED
        BY <4>1, <4>2, <4>3
    <3> QED
      BY <3>1, <3>2, <1>7
  <2>7. s \in Seq(Ops) /\ t \in Seq(Ops)
    BY <2>3, <2>4
  <2> HIDE DEF s, t
  <2> QED
    BY <2>5, <2>6, <2>7, SeqEqual DEF s, t
<1>10. batch' \in [Cores -> Seq(Ops)]
  BY <1>2, <1>6 DEF TypeOK, b
<1>11. \A d \in Cores : d # c => Waiting(d)' = Waiting(d)
  BY <1>2 DEF TypeOK, Waiting
<1> QED
  BY <1>3, <1>5, <1>6, <1>8, <1>9, <1>10, <1>11 DEF b

-------------------------------------------------------------------------------
LEMMA InitInv == Init => IInv
<1> SUFFICES ASSUME Init PROVE IInv
  OBVIOUS
<1>1. TypeOK
  <2>1. <<>> \in Seq(Ops)
    BY EmptySeq
  <2>2. ring \in [Cores -> Seq(Ops)] /\ batch \in [Cores -> Seq(Ops)] /\ order \in Seq(Ops)
    BY <2>1, Zenon DEF Init
  <2>3. CompletionType
    BY DEF Init, CompletionInit, CompletionType, SenderStates, ReceiverStates
  <2>4. /\ app \in {"idle", "up", "exiting", "returned"}
        /\ api \in {"none", "run", "run_async"} /\ stopSent \in BOOLEAN
        /\ left \in [Cores -> BOOLEAN] /\ running \in [Cores -> Activities \cup {None}]
        /\ wait \in [Cores -> Ops \cup {None}]
    BY DEF Init, Activities
  <2>5. /\ ev \in [Ops -> EventStates] /\ target \in [Ops -> Cores \cup {None}]
        /\ caller \in [Ops -> Activities \cup {None}] /\ closure \in [Ops -> BOOLEAN]
        /\ frees \in [Ops -> 0 .. 2]
    BY DEF Init, Activities, EventStates
  <2> QED
    BY <2>2, <2>3, <2>4, <2>5 DEF TypeOK
<1>2. Phases /\ Boxes /\ Runs /\ Pairs
  BY NoneAssumption DEF Init, CompletionInit, Phases, Boxes, Runs, Pairs
<1>3. Len(order) = 0 /\ \A c \in Cores : Len(Waiting(c)) = 0
  <2>1. <<>> \o <<>> = <<>> /\ Len(<<>>) = 0
    BY EmptySeq, ConcatEmptySeq
  <2> QED
    BY <2>1 DEF Init, Waiting
<1>4. Placed /\ History /\ InStep
  BY <1>3 DEF Placed, History, InStep
<1>5. Kept
  BY DEF Init, Kept
<1>6. StartsInOrder
  BY DEF Init, StartsInOrder, Started
<1> QED
  BY <1>1, <1>2, <1>4, <1>5, <1>6 DEF IInv, Lines

(* The event at the front of a batch was called, and its box is untouched. *)
LEMMA HeadCalled ==
    ASSUME IInv, NEW c \in Cores, RunEvent(c)
    PROVE  /\ Head(batch[c]) \in Ops
           /\ ev[Head(batch[c])] = "called" /\ target[Head(batch[c])] = c
           /\ frees[Head(batch[c])] = 0
<1>1. /\ Waiting(c) # <<>> /\ Head(batch[c]) = Waiting(c)[1] /\ Head(batch[c]) \in Ops
  BY RunEffect DEF IInv
<1>2. 1 \in 1 .. Len(Waiting(c))
  <2>1. Waiting(c) \in Seq(Ops)
    BY WaitingType DEF IInv
  <2> QED
    BY <1>1, <2>1, EmptySeq
<1> QED
  BY <1>1, <1>2 DEF IInv, Lines, Placed, Boxes

LEMMA NextType == IInv /\ [Next]_vars => TypeOK'
<1> SUFFICES ASSUME IInv, [Next]_vars PROVE TypeOK'
  OBVIOUS
<1>t. TypeOK
  BY DEF IInv
<1> USE DEF TypeOK, CompletionType, SenderStates, ReceiverStates, EventStates, Activities,
        appVars, coreVars, eventVars, completionVars, Active
<1>1. ASSUME NEW c \in Cores, NEW o \in Ops, NEW d \in Cores, New(c, o, d) PROVE TypeOK'
  BY <1>1, <1>t DEF New
<1>2. ASSUME NEW c \in Cores, NEW o \in Ops, NewFails(c, o) PROVE TypeOK'
  <2>1. frees[o] = 0
    BY <1>2 DEF NewFails, IInv, Boxes
  <2> QED
    BY <1>2, <2>1, <1>t DEF NewFails, Free
<1>3. ASSUME NEW c \in Cores, NEW o \in Ops, Call(c, o) PROVE TypeOK'
  <2>1. target[o] \in Cores
    BY <1>3 DEF Call, IInv, Boxes
  <2>2. ring' \in [Cores -> Seq(Ops)] /\ order' \in Seq(Ops)
    BY <1>3, <1>t, <2>1, EnqueueEffect DEF Call
  <2> QED
    BY <1>3, <2>2, <1>t DEF Call
<1>4. ASSUME NEW c \in Cores, NEW o \in Ops, DropUncalled(c, o) PROVE TypeOK'
  <2>1. frees[o] = 0
    BY <1>4 DEF DropUncalled, IInv, Boxes
  <2> QED
    BY <1>4, <2>1, <1>t DEF DropUncalled, Free
<1>5. ASSUME NEW c \in Cores, NEW o \in Ops, NEW d \in Cores, CallOnAsync(c, o, d) PROVE TypeOK'
  <2>1. ring' \in [Cores -> Seq(Ops)] /\ order' \in Seq(Ops)
    BY <1>5, <1>t, EnqueueEffect DEF CallOnAsync
  <2> QED
    BY <1>5, <2>1, <1>t DEF CallOnAsync, NewPair
<1>6. ASSUME NEW c \in Cores, NEW o \in Ops, Wait(c, o) PROVE TypeOK'
  BY <1>6, <1>t DEF Wait
<1>7. ASSUME NEW c \in Cores, WaitReturns(c) PROVE TypeOK'
  BY <1>7, <1>t DEF WaitReturns, Resolve
<1>8. ASSUME NEW c \in Cores, TakeBatch(c) PROVE TypeOK'
  <2>1. ring' \in [Cores -> Seq(Ops)] /\ batch' \in [Cores -> Seq(Ops)]
    BY <1>8, <1>t, TakeEffect
  <2> QED
    BY <1>8, <2>1, <1>t DEF TakeBatch
<1>9. ASSUME NEW c \in Cores, RunEvent(c) PROVE TypeOK'
  <2>1. batch' \in [Cores -> Seq(Ops)]
    BY <1>9, <1>t, RunEffect
  <2>2. PICK o \in Ops : /\ o = Head(batch[c]) /\ frees[o] = 0
    BY <1>9, HeadCalled
  <2> QED
    BY <1>9, <2>1, <2>2, <1>t DEF RunEvent, Free
<1>10. ASSUME NEW c \in Cores, FinishEvent(c) PROVE TypeOK'
  <2>1. tx' \in [Ops -> SenderStates] /\ slot' \in [Ops -> Results \cup {None}]
    BY <1>10, <1>t DEF FinishEvent, Deliver
  <2>2. rx' \in [Ops -> ReceiverStates]
    BY <1>10, <1>t DEF FinishEvent, DropReceiversOf
  <2>3. running' \in [Cores -> Activities \cup {None}] /\ ev' \in [Ops -> EventStates]
    BY <1>10, <1>t DEF FinishEvent
  <2> QED
    BY <1>10, <2>1, <2>2, <2>3, <1>t DEF FinishEvent
<1>11. ASSUME NEW which \in {"run", "run_async"}, RunApp(which) PROVE TypeOK'
  BY <1>11, <1>t DEF RunApp
<1>12. CASE RunFails
  BY <1>12, <1>t DEF RunFails
<1>13. CASE FinishStart
  <2>1. rx' \in [Ops -> ReceiverStates]
    BY <1>13, <1>t DEF FinishStart, DropReceiversOf
  <2>2. stopSent' \in BOOLEAN
    BY <1>13, <1>t DEF FinishStart, StopsLast
  <2> QED
    BY <1>13, <2>1, <2>2, <1>t DEF FinishStart
<1>14. ASSUME NEW c \in Cores, Stop(c) PROVE TypeOK'
  BY <1>14, <1>t DEF Stop
<1>15. CASE StopRuns
  BY <1>15, <1>t DEF StopRuns
<1>16. ASSUME NEW c \in Cores, Leave(c) PROVE TypeOK'
  BY <1>16, <1>t DEF Leave
<1>17. CASE RunReturn
  <2>1. <<>> \in Seq(Ops)
    BY EmptySeq
  <2>2. ring' \in [Cores -> Seq(Ops)]
    BY <1>17, <2>1 DEF RunReturn
  <2> QED
    BY <1>17, <2>2, <1>t DEF RunReturn
<1>18. CASE UNCHANGED vars
  BY <1>18, <1>t DEF vars
<1> QED
  BY <1>1, <1>2, <1>3, <1>4, <1>5, <1>6, <1>7, <1>8, <1>9, <1>10, <1>11, <1>12, <1>13,
     <1>14, <1>15, <1>16, <1>17, <1>18 DEF Next, UserStep, ReactorStep

-------------------------------------------------------------------------------
LEMMA NextPhases == IInv /\ [Next]_vars => Phases'
<1> SUFFICES ASSUME IInv, [Next]_vars PROVE Phases'
  OBVIOUS
<1>i. TypeOK /\ Phases /\ Start \notin Ops \cup {None} /\ Main \in Cores
  BY CoresAssumption DEF IInv
<1>n. None \notin Ops
  BY NoneAssumption
<1> USE DEF TypeOK, Phases, Active, appVars, coreVars
<1>1. ASSUME NEW c \in Cores, NEW o \in Ops, NEW d \in Cores, New(c, o, d) PROVE Phases'
  BY <1>1, <1>i DEF New
<1>2. ASSUME NEW c \in Cores, NEW o \in Ops, NewFails(c, o) PROVE Phases'
  BY <1>2, <1>i DEF NewFails
<1>3. ASSUME NEW c \in Cores, NEW o \in Ops, Call(c, o) PROVE Phases'
  BY <1>3, <1>i DEF Call
<1>4. ASSUME NEW c \in Cores, NEW o \in Ops, DropUncalled(c, o) PROVE Phases'
  BY <1>4, <1>i DEF DropUncalled
<1>5. ASSUME NEW c \in Cores, NEW o \in Ops, NEW d \in Cores, CallOnAsync(c, o, d) PROVE Phases'
  BY <1>5, <1>i DEF CallOnAsync
<1>6. ASSUME NEW c \in Cores, NEW o \in Ops, Wait(c, o) PROVE Phases'
  BY <1>6, <1>i DEF Wait
<1>7. ASSUME NEW c \in Cores, WaitReturns(c) PROVE Phases'
  BY <1>7, <1>i DEF WaitReturns
<1>8. ASSUME NEW c \in Cores, TakeBatch(c) PROVE Phases'
  <2>1. app \notin {"idle", "returned"} /\ ~left[c]
    <3>1. ring[c] # <<>>
      BY <1>8, EmptySeq DEF TakeBatch
    <3> QED
      BY <1>8, <1>i, <3>1 DEF TakeBatch
  <2> QED
    BY <1>8, <1>i, <2>1 DEF TakeBatch
<1>9. ASSUME NEW c \in Cores, RunEvent(c) PROVE Phases'
  BY <1>9, <1>i, HeadCalled DEF RunEvent
<1>10. ASSUME NEW c \in Cores, FinishEvent(c) PROVE Phases'
  BY <1>10, <1>i DEF FinishEvent
<1>11. ASSUME NEW which \in {"run", "run_async"}, RunApp(which) PROVE Phases'
  BY <1>11, <1>i DEF RunApp
<1>12. CASE RunFails
  BY <1>12, <1>i DEF RunFails
<1>13. CASE FinishStart
  BY <1>13, <1>i DEF FinishStart, StopsLast
<1>14. ASSUME NEW c \in Cores, Stop(c) PROVE Phases'
  BY <1>14, <1>i DEF Stop
<1>15. CASE StopRuns
  BY <1>15, <1>i DEF StopRuns
<1>16. ASSUME NEW c \in Cores, Leave(c) PROVE Phases'
  BY <1>16, <1>i DEF Leave
<1>17. CASE RunReturn
  BY <1>17, <1>i DEF RunReturn
<1>18. CASE UNCHANGED vars
  BY <1>18, <1>i DEF vars
<1> QED
  BY <1>1, <1>2, <1>3, <1>4, <1>5, <1>6, <1>7, <1>8, <1>9,
     <1>10, <1>11, <1>12, <1>13, <1>14, <1>15, <1>16, <1>17, <1>18
     DEF Next, UserStep, ReactorStep

LEMMA NextBoxes == IInv /\ [Next]_vars => Boxes'
<1> SUFFICES ASSUME IInv, [Next]_vars PROVE Boxes'
  OBVIOUS
<1>i. TypeOK /\ Boxes /\ Runs
  BY DEF IInv
<1> USE DEF TypeOK, Boxes, eventVars, EventStates
<1>1. ASSUME NEW c \in Cores, NEW o \in Ops, NEW d \in Cores, New(c, o, d) PROVE Boxes'
  BY <1>1, <1>i DEF New
<1>2. ASSUME NEW c \in Cores, NEW o \in Ops, NewFails(c, o) PROVE Boxes'
  BY <1>2, <1>i DEF NewFails, Free
<1>3. ASSUME NEW c \in Cores, NEW o \in Ops, Call(c, o) PROVE Boxes'
  BY <1>3, <1>i DEF Call
<1>4. ASSUME NEW c \in Cores, NEW o \in Ops, DropUncalled(c, o) PROVE Boxes'
  BY <1>4, <1>i DEF DropUncalled, Free
<1>5. ASSUME NEW c \in Cores, NEW o \in Ops, NEW d \in Cores, CallOnAsync(c, o, d) PROVE Boxes'
  BY <1>5, <1>i DEF CallOnAsync
<1>6. ASSUME NEW c \in Cores, NEW o \in Ops, Wait(c, o) PROVE Boxes'
  BY <1>6, <1>i DEF Wait
<1>7. ASSUME NEW c \in Cores, WaitReturns(c) PROVE Boxes'
  BY <1>7, <1>i DEF WaitReturns
<1>8. ASSUME NEW c \in Cores, TakeBatch(c) PROVE Boxes'
  BY <1>8, <1>i DEF TakeBatch
<1>9. ASSUME NEW c \in Cores, RunEvent(c) PROVE Boxes'
  <2>1. PICK o \in Ops : o = Head(batch[c]) /\ ev[o] = "called" /\ frees[o] = 0
    BY <1>9, HeadCalled
  <2> QED
    BY <1>9, <1>i, <2>1 DEF RunEvent, Free
<1>10. ASSUME NEW c \in Cores, FinishEvent(c) PROVE Boxes'
  <2>1. ev[running[c]] = "running" /\ running[c] \in Ops
    BY <1>10, <1>i DEF FinishEvent, Active, Runs, Activities
  <2> QED
    BY <1>10, <1>i, <2>1 DEF FinishEvent
<1>11. ASSUME NEW which \in {"run", "run_async"}, RunApp(which) PROVE Boxes'
  BY <1>11, <1>i DEF RunApp
<1>12. CASE RunFails
  BY <1>12, <1>i DEF RunFails
<1>13. CASE FinishStart
  BY <1>13, <1>i DEF FinishStart
<1>14. ASSUME NEW c \in Cores, Stop(c) PROVE Boxes'
  BY <1>14, <1>i DEF Stop
<1>15. CASE StopRuns
  BY <1>15, <1>i DEF StopRuns
<1>16. ASSUME NEW c \in Cores, Leave(c) PROVE Boxes'
  BY <1>16, <1>i DEF Leave
<1>17. CASE RunReturn
  BY <1>17, <1>i DEF RunReturn
<1>18. CASE UNCHANGED vars
  BY <1>18, <1>i DEF vars
<1> QED
  BY <1>1, <1>2, <1>3, <1>4, <1>5, <1>6, <1>7, <1>8, <1>9,
     <1>10, <1>11, <1>12, <1>13, <1>14, <1>15, <1>16, <1>17, <1>18
     DEF Next, UserStep, ReactorStep

LEMMA NextRuns == IInv /\ [Next]_vars => Runs'
<1> SUFFICES ASSUME IInv, [Next]_vars PROVE Runs'
  OBVIOUS
<1>i. TypeOK /\ Runs /\ Start \notin Ops \cup {None} /\ None \notin Ops
  BY CoresAssumption, NoneAssumption DEF IInv
<1> USE DEF TypeOK, Runs, Active, Activities, EventStates, coreVars, eventVars
<1>1. ASSUME NEW c \in Cores, NEW o \in Ops, NEW d \in Cores, New(c, o, d) PROVE Runs'
  BY <1>1, <1>i DEF New
<1>2. ASSUME NEW c \in Cores, NEW o \in Ops, NewFails(c, o) PROVE Runs'
  BY <1>2, <1>i DEF NewFails
<1>3. ASSUME NEW c \in Cores, NEW o \in Ops, Call(c, o) PROVE Runs'
  BY <1>3, <1>i DEF Call
<1>4. ASSUME NEW c \in Cores, NEW o \in Ops, DropUncalled(c, o) PROVE Runs'
  BY <1>4, <1>i DEF DropUncalled
<1>5. ASSUME NEW c \in Cores, NEW o \in Ops, NEW d \in Cores, CallOnAsync(c, o, d) PROVE Runs'
  BY <1>5, <1>i DEF CallOnAsync
<1>6. ASSUME NEW c \in Cores, NEW o \in Ops, Wait(c, o) PROVE Runs'
  BY <1>6, <1>i DEF Wait
<1>7. ASSUME NEW c \in Cores, WaitReturns(c) PROVE Runs'
  BY <1>7, <1>i DEF WaitReturns
<1>8. ASSUME NEW c \in Cores, TakeBatch(c) PROVE Runs'
  BY <1>8, <1>i DEF TakeBatch
<1>9. ASSUME NEW c \in Cores, RunEvent(c) PROVE Runs'
  <2>1. PICK o \in Ops : o = Head(batch[c]) /\ ev[o] = "called"
    BY <1>9, HeadCalled
  <2> QED
    BY <1>9, <1>i, <2>1 DEF RunEvent
<1>10. ASSUME NEW c \in Cores, FinishEvent(c) PROVE Runs'
  BY <1>10, <1>i DEF FinishEvent
<1>11. ASSUME NEW which \in {"run", "run_async"}, RunApp(which) PROVE Runs'
  BY <1>11, <1>i DEF RunApp
<1>12. CASE RunFails
  BY <1>12, <1>i DEF RunFails
<1>13. CASE FinishStart
  BY <1>13, <1>i DEF FinishStart
<1>14. ASSUME NEW c \in Cores, Stop(c) PROVE Runs'
  BY <1>14, <1>i DEF Stop
<1>15. CASE StopRuns
  BY <1>15, <1>i DEF StopRuns
<1>16. ASSUME NEW c \in Cores, Leave(c) PROVE Runs'
  BY <1>16, <1>i DEF Leave
<1>17. CASE RunReturn
  BY <1>17, <1>i DEF RunReturn
<1>18. CASE UNCHANGED vars
  BY <1>18, <1>i DEF vars
<1> QED
  BY <1>1, <1>2, <1>3, <1>4, <1>5, <1>6, <1>7, <1>8, <1>9,
     <1>10, <1>11, <1>12, <1>13, <1>14, <1>15, <1>16, <1>17, <1>18
     DEF Next, UserStep, ReactorStep

LEMMA NextPairs == IInv /\ [Next]_vars => Pairs'
<1> SUFFICES ASSUME IInv, [Next]_vars PROVE Pairs'
  OBVIOUS
<1>i. TypeOK /\ Pairs /\ Runs /\ None \notin Results
  BY NoneAssumption DEF IInv
<1> USE DEF TypeOK, CompletionType, SenderStates, ReceiverStates, EventStates, Pairs, completionVars,
        coreVars, eventVars
<1>1. ASSUME NEW c \in Cores, NEW o \in Ops, NEW d \in Cores, New(c, o, d) PROVE Pairs'
  BY <1>1, <1>i DEF New
<1>2. ASSUME NEW c \in Cores, NEW o \in Ops, NewFails(c, o) PROVE Pairs'
  BY <1>2, <1>i DEF NewFails
<1>3. ASSUME NEW c \in Cores, NEW o \in Ops, Call(c, o) PROVE Pairs'
  BY <1>3, <1>i DEF Call
<1>4. ASSUME NEW c \in Cores, NEW o \in Ops, DropUncalled(c, o) PROVE Pairs'
  BY <1>4, <1>i DEF DropUncalled
<1>5. ASSUME NEW c \in Cores, NEW o \in Ops, NEW d \in Cores, CallOnAsync(c, o, d) PROVE Pairs'
  BY <1>5, <1>i DEF CallOnAsync, NewPair
<1>6. ASSUME NEW c \in Cores, NEW o \in Ops, Wait(c, o) PROVE Pairs'
  BY <1>6, <1>i DEF Wait
<1>7. ASSUME NEW c \in Cores, WaitReturns(c) PROVE Pairs'
  BY <1>7, <1>i DEF WaitReturns, Resolve, Ready
<1>8. ASSUME NEW c \in Cores, TakeBatch(c) PROVE Pairs'
  BY <1>8, <1>i DEF TakeBatch
<1>9. ASSUME NEW c \in Cores, RunEvent(c) PROVE Pairs'
  <2>1. PICK o \in Ops : o = Head(batch[c]) /\ ev[o] = "called"
    BY <1>9, HeadCalled
  <2> QED
    BY <1>9, <1>i, <2>1 DEF RunEvent
<1>10. ASSUME NEW c \in Cores, FinishEvent(c) PROVE Pairs'
  <2>1. PICK o \in Ops : o = running[c] /\ ev[o] = "running"
    BY <1>10, <1>i DEF FinishEvent, Active, Runs, Activities
  <2>2. ev' = [ev EXCEPT ![o] = "done"]
    BY <1>10, <2>1 DEF FinishEvent
  <2>3. /\ tx[o] # "gone"
        /\ tx[o] = "owned" => tx'[o] = "gone" /\ (rx[o] = "waiting" => slot'[o] # None)
        /\ tx[o] # "owned" => tx'[o] = tx[o] /\ slot'[o] = slot[o]
        /\ \A p \in Ops : p # o => tx'[p] = tx[p] /\ slot'[p] = slot[p]
    BY <1>10, <1>i, <2>1 DEF FinishEvent, Deliver
  <2>4. \A p \in Ops : rx'[p] = rx[p] \/ (rx[p] = "waiting" /\ rx'[p] = "dropped")
    <3>1. DropReceiversOf(o)
      BY <1>10, <2>1 DEF FinishEvent
    <3> QED
      BY <3>1 DEF DropReceiversOf
  <2> QED
    BY <1>i, <2>1, <2>2, <2>3, <2>4
<1>11. ASSUME NEW which \in {"run", "run_async"}, RunApp(which) PROVE Pairs'
  BY <1>11, <1>i DEF RunApp
<1>12. CASE RunFails
  BY <1>12, <1>i DEF RunFails
<1>13. CASE FinishStart
  BY <1>13, <1>i DEF FinishStart, DropReceiversOf
<1>14. ASSUME NEW c \in Cores, Stop(c) PROVE Pairs'
  BY <1>14, <1>i DEF Stop
<1>15. CASE StopRuns
  BY <1>15, <1>i DEF StopRuns
<1>16. ASSUME NEW c \in Cores, Leave(c) PROVE Pairs'
  BY <1>16, <1>i DEF Leave
<1>17. CASE RunReturn
  BY <1>17, <1>i DEF RunReturn
<1>18. CASE UNCHANGED vars
  BY <1>18, <1>i DEF vars
<1> QED
  BY <1>1, <1>2, <1>3, <1>4, <1>5, <1>6, <1>7, <1>8, <1>9,
     <1>10, <1>11, <1>12, <1>13, <1>14, <1>15, <1>16, <1>17, <1>18
     DEF Next, UserStep, ReactorStep
-------------------------------------------------------------------------------
(* A step that calls no event and starts none leaves the lines alone.      *)
Rest ==
    /\ order' = order
    /\ app' # "returned" => app # "returned"
    /\ \A c \in Cores : Waiting(c)' = Waiting(c)
    /\ \A o \in Ops :
          /\ ev[o] = "called" <=> ev'[o] = "called"
          /\ Called(o) => Called(o)' /\ target'[o] = target[o] /\ (Started(o) <=> Started(o)')

LEMMA Positions ==
    ASSUME TypeOK
    PROVE  /\ DOMAIN order = 1 .. Len(order) /\ Len(order) \in Nat
           /\ \A i \in 1 .. Len(order) : order[i] \in Ops
           /\ \A c \in Cores : /\ Len(Waiting(c)) \in Nat
                               /\ \A k \in 1 .. Len(Waiting(c)) : Waiting(c)[k] \in Ops
<1>1. order \in Seq(Ops)
  BY DEF TypeOK
<1>2. DOMAIN order = 1 .. Len(order) /\ Len(order) \in Nat
  BY <1>1, LenProperties
<1>3. \A i \in 1 .. Len(order) : order[i] \in Ops
  BY <1>1, ElementOfSeq
<1>4. ASSUME NEW c \in Cores
      PROVE  /\ Len(Waiting(c)) \in Nat
             /\ \A k \in 1 .. Len(Waiting(c)) : Waiting(c)[k] \in Ops
  BY WaitingType, ElementOfSeq
<1> QED
  BY <1>2, <1>3, <1>4

LEMMA RestKeeps == TypeOK /\ Lines /\ StartsInOrder /\ Rest => Lines' /\ StartsInOrder'
<1> SUFFICES ASSUME TypeOK, Lines, StartsInOrder, Rest PROVE Lines' /\ StartsInOrder'
  OBVIOUS
<1>p. /\ DOMAIN order = 1 .. Len(order) /\ Len(order) \in Nat
      /\ \A i \in 1 .. Len(order) : order[i] \in Ops
      /\ \A c \in Cores : /\ Len(Waiting(c)) \in Nat
                          /\ \A k \in 1 .. Len(Waiting(c)) : Waiting(c)[k] \in Ops
  BY Positions
<1>1. ASSUME NEW c \in Cores PROVE Waiting(c)' = Waiting(c)
  BY DEF Rest
<1>2. Placed'
  <2> SUFFICES ASSUME NEW c \in Cores, NEW k \in 1 .. Len(Waiting(c))
               PROVE  /\ target'[Waiting(c)[k]] = c
                      /\ ev'[Waiting(c)[k]] = "called"
                      /\ \A l \in 1 .. Len(Waiting(c)) : Waiting(c)[k] = Waiting(c)[l] => k = l
    BY <1>1 DEF Placed
  <2> QED
    BY <1>p DEF Rest, Lines, Placed, Called
<1>3. Kept'
  <2> SUFFICES ASSUME NEW o \in Ops, ev'[o] = "called", app' # "returned" PROVE InLine(o)'
    BY DEF Kept
  <2>1. InLine(o) /\ target'[o] = target[o]
    BY DEF Rest, Lines, Kept, Called
  <2> QED
    BY <2>1, <1>1 DEF InLine
<1>4. History'
  BY <1>p DEF Rest, Lines, History
<1>5. InStep'
  <2>1. order' = order
    BY DEF Rest
  <2> QED
    BY <1>1, <2>1 DEF Lines, InStep
<1>6. StartsInOrder'
  <2> SUFFICES ASSUME NEW i \in 1 .. Len(order), NEW j \in 1 .. Len(order),
                      i < j, target'[order[i]] = target'[order[j]], Started(order[j])'
               PROVE  Started(order[i])'
    BY <1>p DEF Rest, StartsInOrder
  <2>1. Called(order[i]) /\ Called(order[j]) /\ order[i] \in Ops /\ order[j] \in Ops
    BY <1>p DEF Lines, History
  <2>2. target[order[i]] = target[order[j]] /\ Started(order[j])
    BY <2>1 DEF Rest, Started
  <2>3. Started(order[i])
    BY <2>2, <1>p DEF StartsInOrder
  <2> QED
    BY <2>1, <2>3 DEF Rest, Started
<1> QED
  BY <1>2, <1>3, <1>4, <1>5, <1>6 DEF Lines

(* Every step that is not a call, a start or the end of the run is one.    *)
LEMMA RestSteps ==
    ASSUME IInv,
           \/ \E c \in Cores, o \in Ops, d \in Cores : New(c, o, d)
           \/ \E c \in Cores, o \in Ops : NewFails(c, o) \/ DropUncalled(c, o) \/ Wait(c, o)
           \/ \E c \in Cores : WaitReturns(c) \/ TakeBatch(c) \/ FinishEvent(c) \/ Stop(c) \/ Leave(c)
           \/ \E which \in {"run", "run_async"} : RunApp(which)
           \/ RunFails \/ FinishStart \/ StopRuns
           \/ UNCHANGED vars
    PROVE  Rest
<1>t. TypeOK /\ Phases /\ Runs
  BY DEF IInv
<1> USE DEF appVars, coreVars, eventVars, completionVars, Called, Started
<1>w. ASSUME UNCHANGED <<batch, ring>> PROVE \A c \in Cores : Waiting(c)' = Waiting(c)
  BY <1>w DEF Waiting
<1>e. ASSUME NEW o \in Ops, NEW s \in EventStates, ev' = [ev EXCEPT ![o] = s],
             \/ ev[o] \in {"none", "held"} /\ s \in {"held", "uncalled", "refused"}
             \/ ev[o] = "running" /\ s = "done",
             \A p \in Ops : p # o => target'[p] = target[p],
             ev[o] = "running" => target'[o] = target[o]
      PROVE  \A p \in Ops :
                 /\ ev[p] = "called" <=> ev'[p] = "called"
                 /\ Called(p) => Called(p)' /\ target'[p] = target[p] /\ (Started(p) <=> Started(p)')
  BY <1>e, <1>t DEF TypeOK
<1>1. ASSUME NEW c \in Cores, NEW o \in Ops, NEW d \in Cores, New(c, o, d) PROVE Rest
  <2>1. /\ UNCHANGED <<batch, ring, order, app>> /\ ev' = [ev EXCEPT ![o] = "held"]
        /\ target' = [target EXCEPT ![o] = d] /\ ev[o] = "none"
    BY <1>1 DEF New
  <2>2. \A p \in Ops : p # o => target'[p] = target[p]
    BY <2>1, <1>t DEF TypeOK
  <2> QED
    BY <2>1, <2>2, <1>w, <1>e DEF Rest, EventStates
<1>2. ASSUME NEW c \in Cores, NEW o \in Ops, NewFails(c, o) \/ DropUncalled(c, o) PROVE Rest
  <2>1. /\ UNCHANGED <<batch, ring, order, app, target>>
        /\ ev[o] \in {"none", "held"}
        /\ ev' = [ev EXCEPT ![o] = "refused"] \/ ev' = [ev EXCEPT ![o] = "uncalled"]
    BY <1>2 DEF NewFails, DropUncalled
  <2> QED
    BY <2>1, <1>w, <1>e DEF Rest, EventStates
<1>3. ASSUME NEW c \in Cores, FinishEvent(c) PROVE Rest
  <2>1. PICK o \in Ops : o = running[c] /\ ev[o] = "running"
    BY <1>3, <1>t DEF FinishEvent, Active, Runs, Activities, TypeOK
  <2>2. UNCHANGED <<batch, ring, order, app, target>> /\ ev' = [ev EXCEPT ![o] = "done"]
    BY <1>3, <2>1 DEF FinishEvent
  <2> QED
    BY <2>1, <2>2, <1>w, <1>e DEF Rest, EventStates
<1>4. ASSUME NEW c \in Cores, TakeBatch(c) PROVE Rest
  BY <1>4, <1>t, TakeEffect DEF TakeBatch, Rest
<1>5. ASSUME NEW c \in Cores, NEW o \in Ops, Wait(c, o) PROVE Rest
  BY <1>5, <1>w DEF Wait, Rest
<1>6. ASSUME NEW c \in Cores, WaitReturns(c) \/ Stop(c) \/ Leave(c) PROVE Rest
  BY <1>6, <1>w DEF WaitReturns, Stop, Leave, Rest
<1>7. ASSUME NEW which \in {"run", "run_async"}, RunApp(which) PROVE Rest
  BY <1>7, <1>w DEF RunApp, Rest
<1>8. ASSUME RunFails \/ FinishStart PROVE Rest
  BY <1>8, <1>w DEF RunFails, FinishStart, Rest
<1>9. ASSUME StopRuns PROVE Rest
  <2>1. app = "up"
    BY <1>9, <1>t DEF StopRuns, Phases
  <2> QED
    BY <1>9, <2>1, <1>w DEF StopRuns, Rest
<1>10. ASSUME UNCHANGED vars PROVE Rest
  BY <1>10, <1>w DEF vars, Rest
<1> QED
  BY <1>1, <1>2, <1>3, <1>4, <1>5, <1>6, <1>7, <1>8, <1>9, <1>10

-------------------------------------------------------------------------------
(* A call: the event is the last one in the line of its core.              *)
LEMMA CallKeeps ==
    ASSUME TypeOK, Phases, Lines, StartsInOrder, NEW c \in Cores, Active(c),
           NEW o \in Ops, NEW d \in Cores, ev[o] \in {"none", "held"},
           Enqueue(o, d), UNCHANGED <<batch, app>>,
           ev' = [ev EXCEPT ![o] = "called"], target' = [target EXCEPT ![o] = d]
    PROVE  Lines' /\ StartsInOrder'
<1>p. /\ DOMAIN order = 1 .. Len(order) /\ Len(order) \in Nat
      /\ \A i \in 1 .. Len(order) : order[i] \in Ops
      /\ \A e \in Cores : /\ Len(Waiting(e)) \in Nat
                          /\ \A k \in 1 .. Len(Waiting(e)) : Waiting(e)[k] \in Ops
  BY Positions
<1>e. /\ ev'[o] = "called" /\ target'[o] = d /\ app' = app
      /\ \A p \in Ops : p # o => ev'[p] = ev[p] /\ target'[p] = target[p]
  BY DEF TypeOK
<1>1. /\ order' = Append(order, o)
      /\ Waiting(d)' = Append(Waiting(d), o)
      /\ \A e \in Cores : e # d => Waiting(e)' = Waiting(e)
  BY EnqueueEffect
<1>2. /\ Len(order') = Len(order) + 1 /\ order'[Len(order) + 1] = o
      /\ \A i \in 1 .. Len(order) : order'[i] = order[i]
      /\ DOMAIN order' = 1 .. Len(order')
  <2>1. order \in Seq(Ops)
    BY DEF TypeOK
  <2>2. order' \in Seq(Ops)
    BY <1>1, <2>1, AppendProperties
  <2> QED
    BY <1>1, <2>1, <2>2, AppendProperties, LenProperties
<1>3. /\ Len(Waiting(d)') = Len(Waiting(d)) + 1 /\ Waiting(d)'[Len(Waiting(d)) + 1] = o
      /\ \A k \in 1 .. Len(Waiting(d)) : Waiting(d)'[k] = Waiting(d)[k]
  <2>1. Waiting(d) \in Seq(Ops)
    BY WaitingType
  <2> QED
    BY <1>1, <2>1, AppendProperties
<1>4. \A e \in Cores : \A k \in 1 .. Len(Waiting(e)) : Waiting(e)[k] # o
  BY DEF Lines, Placed
<1>5. \A i \in 1 .. Len(order) : order[i] # o
  BY DEF Lines, History, Called
<1>6. Placed'
  <2>1. ASSUME NEW e \in Cores, e # d, NEW k \in 1 .. Len(Waiting(e))
        PROVE  /\ target'[Waiting(e)[k]] = e /\ ev'[Waiting(e)[k]] = "called"
               /\ \A l \in 1 .. Len(Waiting(e)) : Waiting(e)[k] = Waiting(e)[l] => k = l
    BY <2>1, <1>p, <1>e, <1>4 DEF Lines, Placed
  <2>2. ASSUME NEW k \in 1 .. Len(Waiting(d))
        PROVE  /\ target'[Waiting(d)[k]] = d /\ ev'[Waiting(d)[k]] = "called"
               /\ Waiting(d)[k] # o
               /\ \A l \in 1 .. Len(Waiting(d)) : Waiting(d)[k] = Waiting(d)[l] => k = l
    BY <2>2, <1>p, <1>e, <1>4 DEF Lines, Placed
  <2> DEFINE w == Waiting(d)
             v == Waiting(d)'
  <2>3. ASSUME NEW k \in 1 .. Len(w) + 1
        PROVE  /\ target'[v[k]] = d /\ ev'[v[k]] = "called"
               /\ \A l \in 1 .. Len(w) + 1 : v[k] = v[l] => k = l
    <3>1. Len(w) \in Nat /\ v[Len(w) + 1] = o /\ \A l \in 1 .. Len(w) : v[l] = w[l]
      BY <1>3, <1>p
    <3>2. \A l \in 1 .. Len(w) : /\ target'[w[l]] = d /\ ev'[w[l]] = "called" /\ w[l] # o
                                 /\ \A m \in 1 .. Len(w) : w[l] = w[m] => l = m
      BY <2>2
    <3> HIDE DEF w, v
    <3>3. k \in 1 .. Len(w) \/ k = Len(w) + 1
      BY <3>1
    <3> QED
      BY <3>1, <3>2, <3>3, <1>e
  <2> SUFFICES ASSUME NEW e \in Cores
               PROVE  \A k \in 1 .. Len(Waiting(e)') :
                          /\ target'[Waiting(e)'[k]] = e
                          /\ ev'[Waiting(e)'[k]] = "called"
                          /\ \A l \in 1 .. Len(Waiting(e)') :
                                Waiting(e)'[k] = Waiting(e)'[l] => k = l
    BY DEF Placed
  <2>4. CASE e = d
    BY <2>3, <2>4, <1>3
  <2>5. CASE e # d
    BY <2>1, <2>5, <1>1
  <2> QED
    BY <2>4, <2>5
<1>7. Kept'
  <2> SUFFICES ASSUME NEW p \in Ops, ev'[p] = "called", app' # "returned" PROVE InLine(p)'
    BY DEF Kept
  <2>1. CASE p = o
    <3>1. Len(Waiting(d)) + 1 \in 1 .. Len(Waiting(d)')
      BY <1>3, <1>p
    <3> QED
      BY <2>1, <3>1, <1>3, <1>e DEF InLine
  <2>2. CASE p # o
    <3>1. InLine(p) /\ target'[p] = target[p]
      BY <2>2, <1>e DEF Lines, Kept
    <3>2. CASE target[p] = d
      <4>1. PICK k \in 1 .. Len(Waiting(d)) : Waiting(d)[k] = p
        BY <3>1, <3>2 DEF InLine
      <4>2. k \in 1 .. Len(Waiting(d)') /\ Waiting(d)'[k] = p
        BY <4>1, <1>3, <1>p
      <4> QED
        BY <4>2, <3>1, <3>2 DEF InLine
    <3>3. CASE target[p] # d
      BY <3>1, <3>3, <1>1 DEF InLine
    <3> QED
      BY <3>2, <3>3
  <2> QED
    BY <2>1, <2>2
<1> DEFINE n == Len(order)
<1>8. History'
  <2>1. ASSUME NEW i \in 1 .. n + 1
        PROVE  /\ ev'[order'[i]] \in {"called", "running", "done"}
               /\ \A j \in 1 .. n + 1 : order'[i] = order'[j] => i = j
    <3>1. ASSUME NEW l \in 1 .. n
          PROVE  /\ ev'[order[l]] \in {"called", "running", "done"}
                 /\ order'[l] = order[l] /\ order[l] # o
                 /\ \A m \in 1 .. n : order[l] = order[m] => l = m
      BY <3>1, <1>2, <1>5, <1>e, <1>p DEF Lines, History, Called
    <3>2. ev'[o] = "called" /\ order'[n + 1] = o /\ n \in Nat
      BY <1>2, <1>e, <1>p
    <3> HIDE DEF n
    <3>3. i \in 1 .. n \/ i = n + 1
      BY <3>2
    <3> QED
      BY <3>1, <3>2, <3>3
  <2> QED
    BY <2>1, <1>2 DEF History, Called
<1>9. InStep'
  <2> SUFFICES ASSUME NEW e \in Cores,
                      NEW k \in 1 .. Len(Waiting(e)'), NEW l \in 1 .. Len(Waiting(e)'),
                      NEW i \in 1 .. n + 1, NEW j \in 1 .. n + 1,
                      order'[i] = Waiting(e)'[k], order'[j] = Waiting(e)'[l], k < l
               PROVE  i < j
    BY <1>2 DEF InStep
  <2>1. /\ n \in Nat /\ order'[n + 1] = o /\ \A m \in 1 .. n : order'[m] = order[m]
        /\ \A m \in 1 .. n : order[m] # o
    BY <1>2, <1>5, <1>p
  <2>2. /\ k \in 1 .. Len(Waiting(e)) /\ Waiting(e)'[k] = Waiting(e)[k]
        /\ \/ l \in 1 .. Len(Waiting(e)) /\ Waiting(e)'[l] = Waiting(e)[l]
           \/ Waiting(e)'[l] = o
    <3>1. CASE e = d
      <4> DEFINE m == Len(Waiting(d))
      <4>1. m \in Nat /\ k \in 1 .. m + 1 /\ l \in 1 .. m + 1
        BY <3>1, <1>3, <1>p
      <4>2. /\ Waiting(d)'[m + 1] = o
            /\ \A h \in 1 .. m : Waiting(d)'[h] = Waiting(d)[h]
        BY <1>3
      <4> HIDE DEF m
      <4>3. k \in 1 .. m /\ (l \in 1 .. m \/ l = m + 1)
        BY <4>1
      <4> QED
        BY <3>1, <4>2, <4>3 DEF m
    <3>2. CASE e # d
      BY <3>2, <1>1
    <3> QED
      BY <3>1, <3>2
  <2>3. Waiting(e)[k] # o
    BY <2>2, <1>4
  <2>4. i \in 1 .. n /\ order[i] = Waiting(e)[k]
    BY <2>1, <2>2, <2>3
  <2>5. CASE j = n + 1
    BY <2>5, <2>4, <2>1
  <2>6. CASE j \in 1 .. n
    <3>1. l \in 1 .. Len(Waiting(e)) /\ order[j] = Waiting(e)[l]
      BY <2>6, <2>1, <2>2
    <3> QED
      BY <2>6, <2>2, <2>4, <3>1 DEF Lines, InStep
  <2> QED
    BY <2>5, <2>6, <2>1
<1>10. StartsInOrder'
  <2> SUFFICES ASSUME NEW i \in 1 .. n + 1, NEW j \in 1 .. n + 1,
                      i < j, target'[order'[i]] = target'[order'[j]],
                      ev'[order'[j]] \in {"running", "done"}
               PROVE  ev'[order'[i]] \in {"running", "done"}
    BY <1>2 DEF StartsInOrder, Started
  <2>1. n \in Nat /\ order'[n + 1] = o /\ ev'[o] = "called"
    BY <1>2, <1>e, <1>p
  <2>2. i \in 1 .. n /\ j \in 1 .. n
    BY <2>1
  <2>3. /\ order'[i] = order[i] /\ order'[j] = order[j] /\ order[i] # o /\ order[j] # o
        /\ order[i] \in Ops /\ order[j] \in Ops
    BY <2>2, <1>2, <1>5, <1>p
  <2>4. target[order[i]] = target[order[j]] /\ Started(order[j])
    BY <2>3, <1>e DEF Started
  <2>5. Started(order[i])
    BY <2>2, <2>4, <1>p DEF StartsInOrder
  <2> QED
    BY <2>3, <2>5, <1>e DEF Started
<1> QED
  BY <1>6, <1>7, <1>8, <1>9, <1>10 DEF Lines

(* A start: the first event of a line leaves it, with all those called     *)
(* before it for the same core already started.                            *)
LEMMA StartKeeps == IInv => \A c \in Cores : RunEvent(c) => Lines' /\ StartsInOrder'
<1> SUFFICES ASSUME IInv, NEW c \in Cores, RunEvent(c) PROVE Lines' /\ StartsInOrder'
  OBVIOUS
<1>t. TypeOK /\ Phases /\ Lines /\ StartsInOrder
  BY DEF IInv
<1>p. /\ DOMAIN order = 1 .. Len(order) /\ Len(order) \in Nat
      /\ \A i \in 1 .. Len(order) : order[i] \in Ops
      /\ \A e \in Cores : /\ Len(Waiting(e)) \in Nat
                          /\ \A k \in 1 .. Len(Waiting(e)) : Waiting(e)[k] \in Ops
  BY <1>t, Positions
<1>1. PICK o \in Ops : o = Head(batch[c]) /\ ev[o] = "called" /\ target[o] = c
  BY HeadCalled
<1>2. /\ UNCHANGED <<order, app, target>> /\ app # "returned"
      /\ ev'[o] = "running" /\ \A p \in Ops : p # o => ev'[p] = ev[p]
  <2>1. UNCHANGED <<order, app, target>> /\ ev' = [ev EXCEPT ![o] = "running"]
    BY <1>1 DEF RunEvent, appVars
  <2>2. app # "returned"
    BY <1>t DEF RunEvent, Phases
  <2> QED
    BY <2>1, <2>2, <1>t DEF TypeOK
<1>3. /\ Waiting(c) # <<>> /\ o = Waiting(c)[1]
      /\ Waiting(c)' = Tail(Waiting(c))
      /\ \A e \in Cores : e # c => Waiting(e)' = Waiting(e)
  BY <1>1, <1>t, RunEffect
<1> DEFINE m == Len(Waiting(c))
           w == Waiting(c)
           v == Waiting(c)'
<1>4. /\ m \in Nat /\ m > 0 /\ w[1] = o /\ Len(v) = m - 1
      /\ \A k \in 1 .. m - 1 : v[k] = w[k + 1]
  <2>1. Waiting(c) \in Seq(Ops)
    BY <1>t, WaitingType
  <2>2. Len(Waiting(c)) \in Nat /\ Len(Waiting(c)) > 0
    BY <2>1, <1>3, EmptySeq
  <2> QED
    BY <2>1, <2>2, <1>3, HeadTailProperties
<1>5. \A k \in 1 .. m : /\ target[w[k]] = c /\ ev[w[k]] = "called" /\ w[k] \in Ops
                        /\ \A l \in 1 .. m : w[k] = w[l] => k = l
  BY <1>t, <1>p DEF Lines, Placed
<1>6. ASSUME NEW e \in Cores, e # c
      PROVE  \A k \in 1 .. Len(Waiting(e)) : Waiting(e)[k] # o
  BY <1>6, <1>1, <1>t DEF Lines, Placed
<1>7. Placed'
  <2> SUFFICES ASSUME NEW e \in Cores
               PROVE  \A k \in 1 .. Len(Waiting(e)') :
                          /\ target[Waiting(e)'[k]] = e
                          /\ ev'[Waiting(e)'[k]] = "called"
                          /\ \A l \in 1 .. Len(Waiting(e)') :
                                Waiting(e)'[k] = Waiting(e)'[l] => k = l
    BY <1>2 DEF Placed
  <2>1. CASE e = c
    <3>1. ASSUME NEW k \in 1 .. m - 1
          PROVE  /\ target[v[k]] = c /\ ev'[v[k]] = "called"
                 /\ \A l \in 1 .. m - 1 : v[k] = v[l] => k = l
      <4> HIDE DEF m, w, v
      <4>1. k + 1 \in 1 .. m /\ k + 1 # 1 /\ 1 \in 1 .. m /\ v[k] = w[k + 1]
        BY <1>4
      <4>2. w[k + 1] # o /\ ev'[w[k + 1]] = ev[w[k + 1]]
        BY <4>1, <1>4, <1>5, <1>2
      <4>3. ASSUME NEW l \in 1 .. m - 1, v[k] = v[l] PROVE k = l
        <5>1. l + 1 \in 1 .. m /\ v[l] = w[l + 1]
          BY <1>4
        <5>2. k + 1 = l + 1
          BY <4>1, <4>3, <5>1, <1>5
        <5> QED
          BY <5>2, <1>4
      <4> QED
        BY <4>1, <4>2, <4>3, <1>5
    <3> QED
      BY <3>1, <2>1, <1>4
  <2>2. CASE e # c
    <3>1. \A k \in 1 .. Len(Waiting(e)) :
              /\ Waiting(e)[k] \in Ops /\ Waiting(e)[k] # o
              /\ target[Waiting(e)[k]] = e /\ ev[Waiting(e)[k]] = "called"
              /\ \A l \in 1 .. Len(Waiting(e)) : Waiting(e)[k] = Waiting(e)[l] => k = l
      BY <2>2, <1>6, <1>p, <1>t DEF Lines, Placed
    <3>2. Waiting(e)' = Waiting(e)
      BY <2>2, <1>3
    <3> QED
      BY <3>1, <3>2, <1>2
  <2> QED
    BY <2>1, <2>2
<1>8. Kept'
  <2> SUFFICES ASSUME NEW p \in Ops, ev'[p] = "called" PROVE InLine(p)'
    BY DEF Kept
  <2>1. p # o /\ ev[p] = "called" /\ InLine(p)
    BY <1>2, <1>t DEF Lines, Kept
  <2>2. CASE target[p] = c
    <3>1. PICK k \in 1 .. m : w[k] = p
      BY <2>1, <2>2 DEF InLine
    <3>2. k - 1 \in 1 .. m - 1 /\ v[k - 1] = p
      <4> HIDE DEF m, w, v
      <4>1. k # 1
        BY <3>1, <2>1, <1>4
      <4>2. k - 1 \in 1 .. m - 1 /\ (k - 1) + 1 = k
        BY <4>1, <1>4
      <4> QED
        BY <4>2, <3>1, <1>4
    <3>3. k - 1 \in 1 .. Len(Waiting(c)') /\ Waiting(c)'[k - 1] = p
      BY <3>2, <1>4
    <3> QED
      BY <3>3, <2>2, <1>2 DEF InLine
  <2>3. CASE target[p] # c
    BY <2>1, <2>3, <1>2, <1>3 DEF InLine
  <2> QED
    BY <2>2, <2>3
<1>9. History'
  <2>1. ASSUME NEW i \in 1 .. Len(order)
        PROVE  /\ ev'[order[i]] \in {"called", "running", "done"}
               /\ \A j \in 1 .. Len(order) : order[i] = order[j] => i = j
    BY <1>t, <1>p, <1>2 DEF Lines, History, Called
  <2> QED
    BY <2>1, <1>2 DEF History, Called
<1>10. InStep'
  <2> SUFFICES ASSUME NEW e \in Cores,
                      NEW k \in 1 .. Len(Waiting(e)'), NEW l \in 1 .. Len(Waiting(e)'),
                      NEW i \in 1 .. Len(order), NEW j \in 1 .. Len(order),
                      order[i] = Waiting(e)'[k], order[j] = Waiting(e)'[l], k < l
               PROVE  i < j
    BY <1>2 DEF InStep
  <2>1. CASE e = c
    <3>1. k \in 1 .. m - 1 /\ l \in 1 .. m - 1
      BY <2>1, <1>4
    <3>2. k + 1 \in 1 .. m /\ l + 1 \in 1 .. m /\ k + 1 < l + 1
      <4> HIDE DEF m
      <4> QED
        BY <3>1, <1>4
    <3>3. order[i] = w[k + 1] /\ order[j] = w[l + 1]
      BY <2>1, <3>1, <1>4
    <3> QED
      BY <3>2, <3>3, <1>t DEF Lines, InStep
  <2>2. CASE e # c
    <3>1. Waiting(e)' = Waiting(e)
      BY <2>2, <1>3
    <3> QED
      BY <3>1, <1>t DEF Lines, InStep
  <2> QED
    BY <2>1, <2>2
<1>11. StartsInOrder'
  <2> SUFFICES ASSUME NEW i \in 1 .. Len(order), NEW j \in 1 .. Len(order),
                      i < j, target[order[i]] = target[order[j]],
                      ev'[order[j]] \in {"running", "done"}
               PROVE  ev'[order[i]] \in {"running", "done"}
    BY <1>2, <1>p DEF StartsInOrder, Started
  <2>1. /\ order[i] \in Ops /\ order[j] \in Ops
        /\ ev[order[i]] \in {"called", "running", "done"}
    BY <1>p, <1>t DEF Lines, History, Called
  <2>2. CASE order[j] # o
    <3>1. ev[order[i]] \in {"running", "done"}
      BY <2>1, <2>2, <1>2, <1>p, <1>t DEF StartsInOrder, Started
    <3> QED
      BY <3>1, <2>1, <1>2
  <2>3. CASE order[j] = o
    <3> SUFFICES ASSUME ev[order[i]] = "called" PROVE order[i] = o
      BY <2>1, <1>2
    <3>1. target[order[i]] = c
      BY <2>3, <1>1
    <3>2. PICK k \in 1 .. m : w[k] = order[i]
      BY <3>1, <2>1, <1>2, <1>t DEF Lines, Kept, InLine
    <3>3. CASE k = 1
      BY <3>2, <3>3, <1>4
    <3>4. CASE k # 1
      <4>1. 1 \in 1 .. m /\ 1 < k
        <5> HIDE DEF m
        <5> QED
          BY <3>4, <1>4
      <4>2. order[j] = w[1]
        BY <2>3, <1>4
      <4>3. j < i
        BY <4>1, <4>2, <3>2, <1>t DEF Lines, InStep
      <4> QED
        BY <4>3, <1>p
    <3> QED
      BY <3>3, <3>4
  <2> QED
    BY <2>2, <2>3
<1> QED
  BY <1>7, <1>8, <1>9, <1>10, <1>11 DEF Lines

(* The end of the run takes the rings away, with every line.               *)
LEMMA ReturnKeeps == IInv /\ RunReturn => Lines' /\ StartsInOrder'
<1> SUFFICES ASSUME IInv, RunReturn PROVE Lines' /\ StartsInOrder'
  OBVIOUS
<1>t. TypeOK /\ Phases /\ Lines /\ StartsInOrder
  BY DEF IInv
<1>1. UNCHANGED <<order, ev, target, batch>> /\ app' = "returned"
  BY DEF RunReturn, eventVars
<1>2. \A c \in Cores : Len(Waiting(c)') = 0
  <2> SUFFICES ASSUME NEW c \in Cores PROVE Len(Waiting(c)') = 0
    OBVIOUS
  <2>1. batch'[c] = <<>> /\ ring'[c] = <<>>
    BY <1>t, <1>1 DEF RunReturn, Phases
  <2>2. <<>> \o <<>> = <<>> /\ Len(<<>>) = 0
    BY EmptySeq, ConcatEmptySeq
  <2> QED
    BY <2>1, <2>2, Zenon DEF Waiting
<1>3. Placed' /\ InStep'
  BY <1>2 DEF Placed, InStep
<1>4. Kept'
  BY <1>1 DEF Kept
<1>5. History'
  BY <1>t, <1>1 DEF Lines, History, Called
<1>6. StartsInOrder'
  BY <1>t, <1>1 DEF StartsInOrder, Started
<1> QED
  BY <1>3, <1>4, <1>5, <1>6 DEF Lines

-------------------------------------------------------------------------------
LEMMA NextLines == IInv /\ [Next]_vars => Lines' /\ StartsInOrder'
<1> SUFFICES ASSUME IInv, [Next]_vars PROVE Lines' /\ StartsInOrder'
  OBVIOUS
<1>t. TypeOK /\ Phases /\ Boxes /\ Lines /\ StartsInOrder
  BY DEF IInv
<1>1. CASE Rest
  BY <1>1, <1>t, RestKeeps
<1>2. ASSUME NEW c \in Cores, NEW o \in Ops, Call(c, o) PROVE Lines' /\ StartsInOrder'
  <2>1. PICK d \in Cores : d = target[o]
    BY <1>2, <1>t DEF Call, Boxes
  <2>2. target' = [target EXCEPT ![o] = d]
    BY <1>2, <2>1, <1>t DEF Call, TypeOK
  <2>3. /\ Active(c) /\ ev[o] \in {"none", "held"} /\ ev' = [ev EXCEPT ![o] = "called"]
        /\ Enqueue(o, d) /\ UNCHANGED <<batch, app>>
    BY <1>2, <2>1 DEF Call, appVars
  <2> QED
    BY <2>2, <2>3, <1>t, CallKeeps
<1>3. ASSUME NEW c \in Cores, NEW o \in Ops, NEW d \in Cores, CallOnAsync(c, o, d)
      PROVE  Lines' /\ StartsInOrder'
  <2>1. /\ Active(c) /\ ev[o] \in {"none", "held"} /\ ev' = [ev EXCEPT ![o] = "called"]
        /\ Enqueue(o, d) /\ UNCHANGED <<batch, app>> /\ target' = [target EXCEPT ![o] = d]
    BY <1>3 DEF CallOnAsync, appVars
  <2> QED
    BY <2>1, <1>t, CallKeeps
<1>4. ASSUME NEW c \in Cores, RunEvent(c) PROVE Lines' /\ StartsInOrder'
  BY <1>4, StartKeeps
<1>5. CASE RunReturn
  BY <1>5, ReturnKeeps
<1>6. \/ Rest
      \/ \E c \in Cores, o \in Ops : Call(c, o)
      \/ \E c \in Cores, o \in Ops, d \in Cores : CallOnAsync(c, o, d)
      \/ \E c \in Cores : RunEvent(c)
      \/ RunReturn
  BY RestSteps DEF Next, UserStep, ReactorStep
<1> QED
  BY <1>1, <1>2, <1>3, <1>4, <1>5, <1>6

(* event.rs and app.rs: the invariant of calls, reactors, drops and stop   *)
(* is inductive, and so holds in every reachable state.                    *)
THEOREM InvHolds == Spec => []IInv
<1>1. IInv /\ [Next]_vars => IInv'
  BY NextType, NextPhases, NextBoxes, NextRuns, NextPairs, NextLines DEF IInv
<1> QED
  BY InitInv, <1>1, PTL DEF Spec

(* The state has its type in every reachable state.                        *)
THEOREM TypeCorrect == Spec => []TypeOK
<1>1. IInv => TypeOK
  BY DEF IInv
<1> QED
  BY <1>1, InvHolds, PTL

(* event.rs:201-209 and 272-282: whoever calls an event, drops it or finds *)
(* the pool empty, its closure's box is reclaimed exactly once, and the    *)
(* events that wait on a core are called, meant for it and there once.     *)
THEOREM BoxReclaimedOnceHolds == Spec => []BoxReclaimedOnce
<1>1. IInv => BoxReclaimedOnce
  <2> SUFFICES ASSUME IInv PROVE BoxReclaimedOnce
    OBVIOUS
  <2>1. \A c \in Cores : DOMAIN Waiting(c) = 1 .. Len(Waiting(c))
    BY WaitingType, LenProperties DEF IInv
  <2> QED
    BY <2>1 DEF IInv, Boxes, Lines, Placed, BoxReclaimedOnce, IsInjective
<1> QED
  BY <1>1, InvHolds, PTL

(* event.rs, the rings of the reactors: the events of a core start in the  *)
(* order of their calls, for any number of cores that call them.           *)
THEOREM StartsInOrderHolds == Spec => []StartsInOrder
<1>1. IInv => StartsInOrder
  BY DEF IInv
<1> QED
  BY <1>1, InvHolds, PTL

(* event.rs:241: an answer of call_on_async means that the closure ran to  *)
(* its end, and is a value it sent: no receiver is ever cancelled.         *)
THEOREM ReplyMeansRanHolds == Spec => []ReplyMeansRan
<1>1. IInv => ReplyMeansRan
  BY DEF IInv, Pairs, ReplyMeansRan, TypeOK, CompletionType, SenderStates, ReceiverStates
<1> QED
  BY <1>1, InvHolds, PTL
===============================================================================
