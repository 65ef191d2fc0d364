------------------------------ MODULE Nvmf_proofs ------------------------------
(***************************************************************************)
(* What Nvmf guarantees for every number of subsystems, transports,        *)
(* addresses, bdevs and calls, whatever SPDK answers, and when.            *)
(***************************************************************************)
EXTENDS Nvmf, TLAPS

(* How far a pair, a call and its future can be apart.  SPDK's word to a   *)
(* future that waits is the one in the channel, and to one that is gone it *)
(* says nothing.                                                           *)
Idle(o) ==
    /\ io[o] = "none" /\ tx[o] = "none" /\ rx[o] = "none"
    /\ slot[o] = None /\ verdict[o] = None

Pairs ==
    \A o \in Ops :
        /\ fut[o] = "none" => args[o] = NoArgs
        /\ fut[o] \in {"none", "lazy"} => Idle(o)
        /\ fut[o] = "awaiting" => io[o] \in {"pending", "completed"} /\ rx[o] = "waiting"
        /\ fut[o] = "returned" =>
              io[o] # "pending" /\ verdict[o] # None /\ result[o] = verdict[o]
        /\ fut[o] = "dropped" => verdict[o] = None
        /\ io[o] = "pending" => tx[o] = "raw" /\ slot[o] = None /\ verdict[o] = None
        /\ io[o] = "completed" /\ fut[o] = "awaiting" => slot[o] = verdict[o] /\ verdict[o] # None

(* A transport that a future or SPDK has is nobody else's. *)
Holds(o) == args[o].kind = "add_transport" /\ (fut[o] = "lazy" \/ io[o] = "pending")

Moves ==
    /\ \A o \in Ops : Holds(o) =>
          transport[args[o].transport] = IF io[o] = "pending" THEN "adding" ELSE "moved"
    /\ \A o, p \in Ops : Holds(o) /\ Holds(p) /\ args[o].transport = args[p].transport => o = p

(* Listeners are added only on addresses that the target listens on.       *)
Listeners ==
    tgt # "gone" =>
        /\ \A s \in Subs : listener[s] \subseteq listening
        /\ \A o \in Ops :
              io[o] = "pending" /\ args[o].kind = "add_listener" => args[o].addr \in listening

(* No call comes before its target and its subsystem, and SPDK works on    *)
(* none that comes after the target.                                       *)
OnSub(o) == args[o].kind \in {"add_listener", "start", "stop"}

Known ==
    /\ \A s \in Subs : handle[s] => sub[s] # "absent"
    /\ \A o \in Ops :
          /\ OnSub(o) => sub[args[o].sub] # "absent"
          /\ fut[o] # "none" => tgt # "none"
          /\ io[o] = "pending" => tgt = "live"

(* The state changes of a subsystem that are under way are pending calls,  *)
(* each once, and the last of them is the last accepted.                   *)
QueuePlace(s) ==
    \A i \in 1 .. Len(changes[s]) :
        /\ io[changes[s][i]] = "pending" /\ IsChange(changes[s][i])
        /\ args[changes[s][i]].sub = s
        /\ \A j \in 1 .. Len(changes[s]) : changes[s][i] = changes[s][j] => i = j

QueueLast(s) == Changing(s) => last[s] = changes[s][Len(changes[s])]

Queued == \A s \in Subs : QueuePlace(s) /\ QueueLast(s)

(* What SPDK said it has done, it has. *)
Holding(o) ==
    /\ args[o].kind = "add_transport" => transport[args[o].transport] = "added"
    /\ args[o].kind = "add_listener" =>
          args[o].addr \in listener[args[o].sub] /\ args[o].addr \in listening
    /\ (IsChange(o) /\ last[args[o].sub] = o) => sub[args[o].sub] = Asked(o)

OkHolds == tgt = "live" => \A o \in Ops : verdict[o] = Ok => Holding(o)

IInv == TypeOK /\ Pairs /\ Moves /\ Listeners /\ Known /\ Queued /\ OkHolds

-------------------------------------------------------------------------------
LEMMA ResultsType ==
    /\ None \notin Results /\ Ok \in Results /\ Cancelled \in Results
    /\ \A e \in Errnos : Os(e) \in Results /\ Os(e) # Ok
BY NoneAssumption, ResultsAssumption, ErrnosAssumption DEF Ok, Os

(* target.rs, subsystem.rs: a status is read as Ok if and only if it is 0, *)
(* and as an error of the crate otherwise.                                 *)
LEMMA DecodeType ==
    ASSUME NEW status \in Statuses \cup {-EAGAIN, -EEXIST, -EINVAL}
    PROVE  Decode(status) \in Results /\ (Decode(status) = Ok <=> status = 0)
<1>1. \A e \in Int : -(-e) = e
  OBVIOUS
<1>2. CASE status = 0
  BY <1>2, ResultsType DEF Decode
<1>3. ASSUME NEW e \in Errnos \cup {EAGAIN, EEXIST, EINVAL}, status = -e
      PROVE  Decode(status) \in Results /\ Decode(status) # Ok /\ status # 0
  <2>1. e \in Nat \ {0}
    BY ErrnosAssumption DEF EAGAIN, EEXIST, EINVAL
  <2>2. Decode(status) = Os(e) /\ status # 0
    BY <1>1, <1>3, <2>1 DEF Decode
  <2> QED
    BY <2>1, <2>2, ResultsAssumption DEF Ok, Os
<1> QED
  BY <1>2, <1>3 DEF Statuses

(* What a call is about. *)
LEMMA Arguments ==
    ASSUME TypeOK, NEW o \in Ops
    PROVE  /\ args[o].kind \in {"none", "add_transport", "add_listener", "start", "stop"}
           /\ args[o].kind = "add_transport" => args[o].transport \in Transports
           /\ args[o].kind = "add_listener" => args[o].sub \in Subs /\ args[o].addr \in Addrs
           /\ IsChange(o) => args[o].sub \in Subs
<1>1. args[o] \in Args
  BY DEF TypeOK
<1>2. CASE args[o] = NoArgs
  BY <1>2 DEF NoArgs, IsChange
<1>3. CASE args[o] \in [kind : {"add_transport"}, transport : Transports]
  BY <1>3 DEF IsChange
<1>4. CASE args[o] \in [kind : {"add_listener"}, sub : Subs, addr : Addrs]
  BY <1>4 DEF IsChange
<1>5. CASE args[o] \in [kind : {"start", "stop"}, sub : Subs]
  BY <1>5 DEF IsChange
<1> QED
  BY <1>1, <1>2, <1>3, <1>4, <1>5 DEF Args

LEMMA InitInv == Init => IInv
<1> SUFFICES ASSUME Init PROVE IInv
  OBVIOUS
<1>1. TypeOK
  BY DEF Init, CompletionInit, TypeOK, CompletionType, SenderStates, ReceiverStates,
     TransportStates, SubStates, FutureStates, Args
<1>2. Pairs
  BY DEF Init, CompletionInit, Pairs, Idle
<1>3. Moves /\ Listeners /\ Known /\ OkHolds
  BY DEF Init, NoArgs, Moves, Holds, Listeners, Known, OnSub, OkHolds
<1>4. Queued
  BY DEF Init, Queued, QueuePlace, QueueLast, Changing
<1> QED
  BY <1>1, <1>2, <1>3, <1>4 DEF IInv

-------------------------------------------------------------------------------
(* What a step is to the calls: nothing, or one of these to one of them.   *)
Answers == Statuses \cup {-EAGAIN, -EEXIST, -EINVAL}

Config ==
    \/ CreateTarget \/ DropTarget \/ Destroyed
    \/ \E t \in Transports : CreateTransport(t) \/ DropTransport(t)
    \/ \E a \in Addrs : Listen(a)
    \/ \E s \in Subs, applied \in BOOLEAN : CreateSubsystem(s, applied)
    \/ \E s \in Subs : FindSubsystem(s)
    \/ \E s \in Subs, b \in Bdevs : AddNamespace(s, b)

OpStep(o) ==
    \/ \E a \in Args \ {NoArgs} : Create(o, a)
    \/ Pend(o)
    \/ \E status \in Answers : AnswerAtOnce(o, status)
    \/ \E status \in Statuses : Callback(o, status)
    \/ \E errno \in Errnos : ChangeStateFails(o, errno)
    \/ Resume(o) \/ Abandon(o)

LEMMA ConfigKeepsCalls == Config => UNCHANGED <<changeVars, opVars, completionVars>>
BY DEF Config, CreateTarget, DropTarget, Destroyed, CreateTransport, DropTransport, Listen,
   CreateSubsystem, FindSubsystem, AddNamespace

LEMMA CreateAddTransportStep ==
    ASSUME NEW o \in Ops, NEW t \in Transports, CreateAddTransport(o, t)
    PROVE  OpStep(o)
<1>1. [kind |-> "add_transport", transport |-> t] \in Args \ {NoArgs}
  BY DEF Args, NoArgs
<1> QED
  BY <1>1, Zenon DEF CreateAddTransport, OpStep

LEMMA CreateAddListenerStep ==
    ASSUME NEW o \in Ops, NEW s \in Subs, NEW a \in Addrs,
           CreateOnSub(o, [kind |-> "add_listener", sub |-> s, addr |-> a])
    PROVE  OpStep(o)
<1>1. [kind |-> "add_listener", sub |-> s, addr |-> a] \in Args \ {NoArgs}
  BY DEF Args, NoArgs
<1> QED
  BY <1>1, Zenon DEF CreateOnSub, OpStep

LEMMA CreateChangeStep ==
    ASSUME NEW o \in Ops, NEW s \in Subs, NEW kind \in {"start", "stop"},
           CreateOnSub(o, [kind |-> kind, sub |-> s])
    PROVE  OpStep(o)
<1>1. [kind |-> kind, sub |-> s] \in Args \ {NoArgs}
  BY DEF Args, NoArgs
<1> QED
  BY <1>1, Zenon DEF CreateOnSub, OpStep

LEMMA SubmitSteps ==
    ASSUME NEW o \in Ops, AddTransport(o) \/ AddListener(o) \/ ChangeState(o)
    PROVE  Pend(o) \/ \E status \in Answers : AnswerAtOnce(o, status)
<1>1. {0, -EAGAIN, -EEXIST, -EINVAL} \subseteq Answers
  BY DEF Answers, Statuses
<1> QED
  BY <1>1, Zenon DEF AddTransport, AddListener, ChangeState

LEMMA ChangeHead ==
    ASSUME IInv, NEW s \in Subs, Changing(s)
    PROVE  Head(changes[s]) \in Ops /\ Head(changes[s]) = changes[s][1]
BY DEF IInv, TypeOK, Changing

LEMMA Steps == IInv /\ [Next]_vars => UNCHANGED <<opVars, completionVars>> \/ \E o \in Ops : OpStep(o)
<1> SUFFICES ASSUME IInv, [Next]_vars
             PROVE  UNCHANGED <<opVars, completionVars>> \/ \E o \in Ops : OpStep(o)
  OBVIOUS
<1>1. CASE Config
  BY <1>1, ConfigKeepsCalls
<1>2. ASSUME NEW o \in Ops, AddTransport(o) \/ AddListener(o) \/ ChangeState(o)
      PROVE  OpStep(o)
  BY <1>2, SubmitSteps, Zenon DEF OpStep
<1>3. ASSUME NEW o \in Ops, Done(o) PROVE OpStep(o)
  BY <1>3, Zenon DEF Done, AddTransportDone, AddListenerDone, OpStep, Answers
<1>4. ASSUME NEW s \in Subs, NEW status \in Statuses, ChangeStateDone(s, status)
      PROVE  \E o \in Ops : OpStep(o)
  BY <1>4, ChangeHead, Zenon DEF ChangeStateDone, OpStep, Answers
<1>5. CASE UNCHANGED vars
  BY <1>5 DEF vars
<1> QED
  <2>1. CASE Next
    <3>1. CASE \E o \in Ops, t \in Transports : CreateAddTransport(o, t)
      BY <3>1, CreateAddTransportStep, Zenon
    <3>2. CASE \E o \in Ops, s \in Subs, a \in Addrs :
                  CreateOnSub(o, [kind |-> "add_listener", sub |-> s, addr |-> a])
      BY <3>2, CreateAddListenerStep, Zenon
    <3>3. CASE \E o \in Ops, s \in Subs, kind \in {"start", "stop"} :
                  CreateOnSub(o, [kind |-> kind, sub |-> s])
      BY <3>3, CreateChangeStep, Zenon
    <3>4. CASE \E o \in Ops : AddTransport(o) \/ AddListener(o) \/ ChangeState(o) \/ Done(o)
      BY <3>4, <1>2, <1>3, Zenon
    <3>5. CASE \/ \E o \in Ops, errno \in Errnos : ChangeStateFails(o, errno)
               \/ \E o \in Ops : Resume(o) \/ Abandon(o)
      BY <3>5, Zenon DEF OpStep
    <3>6. CASE \E s \in Subs, status \in Statuses : ChangeStateDone(s, status)
      BY <3>6, <1>4, Zenon
    <3> QED
      BY <2>1, <1>1, <3>1, <3>2, <3>3, <3>4, <3>5, <3>6, Zenon DEF Next, Config
  <2> QED
    BY <2>1, <1>5

LEMMA NextPairs == IInv /\ [Next]_vars => Pairs'
<1> SUFFICES ASSUME IInv, [Next]_vars PROVE Pairs'
  OBVIOUS
<1> USE DEF IInv, TypeOK, CompletionType, Pairs, Idle, completionVars
<1>1. CASE UNCHANGED <<opVars, completionVars>>
  BY <1>1 DEF opVars
<1>2. ASSUME NEW o \in Ops, NEW a \in Args \ {NoArgs}, Create(o, a) PROVE Pairs'
  BY <1>2 DEF Create
<1>3. ASSUME NEW o \in Ops, Pend(o) PROVE Pairs'
  BY <1>3 DEF Pend, NewPair
<1>4. ASSUME NEW o \in Ops, NEW status \in Answers, AnswerAtOnce(o, status) PROVE Pairs'
  <2>1. Decode(status) # None
    BY DecodeType, ResultsType DEF Answers
  <2> QED
    BY <1>4, <2>1 DEF AnswerAtOnce
<1>5. ASSUME NEW o \in Ops, NEW status \in Statuses, Callback(o, status) PROVE Pairs'
  <2>1. Decode(status) # None
    BY DecodeType, ResultsType DEF Answers
  <2> QED
    BY <1>5, <2>1 DEF Callback, Deliver
<1>6. ASSUME NEW o \in Ops, NEW errno \in Errnos, ChangeStateFails(o, errno) PROVE Pairs'
  <2>1. Os(errno) # None
    BY ResultsType
  <2> QED
    BY <1>6, <2>1 DEF ChangeStateFails
<1>7. ASSUME NEW o \in Ops, Resume(o) PROVE Pairs'
  BY <1>7 DEF Resume, Resolve, Ready, Outcome
<1>8. ASSUME NEW o \in Ops, Abandon(o) PROVE Pairs'
  BY <1>8 DEF Abandon, Alive, DropReceiver
<1> QED
  BY Steps, <1>1, <1>2, <1>3, <1>4, <1>5, <1>6, <1>7, <1>8 DEF OpStep

(* TypeOK is about the calls, and about the target and what it owns.       *)
CallsTyped ==
    /\ CompletionType
    /\ fut \in [Ops -> FutureStates]
    /\ args \in [Ops -> Args]
    /\ io \in [Ops -> {"none", "refused", "pending", "completed"}]
    /\ result \in [Ops -> Results \cup {None}]
    /\ verdict \in [Ops -> Results \cup {None}]

TargetTyped ==
    /\ tgt \in {"none", "live", "closing", "gone"}
    /\ transport \in [Transports -> TransportStates]
    /\ listening \subseteq Addrs
    /\ sub \in [Subs -> SubStates]
    /\ handle \in [Subs -> BOOLEAN]
    /\ ns \in [Subs -> SUBSET Bdevs]
    /\ listener \in [Subs -> SUBSET Addrs]
    /\ changes \in [Subs -> Seq(Ops)]
    /\ last \in [Subs -> Ops \cup {None}]

LEMMA TypeParts == TypeOK <=> CallsTyped /\ TargetTyped
BY Zenon DEF TypeOK, CallsTyped, TargetTyped

LEMMA NextCallsTyped == IInv /\ [Next]_vars => CallsTyped'
<1> SUFFICES ASSUME IInv, [Next]_vars PROVE CallsTyped'
  OBVIOUS
<1>0. CallsTyped
  BY TypeParts DEF IInv
<1> USE DEF CallsTyped, CompletionType, SenderStates, ReceiverStates, FutureStates, completionVars
<1>1. CASE UNCHANGED <<opVars, completionVars>>
  BY <1>0, <1>1 DEF opVars
<1>2. ASSUME NEW o \in Ops, NEW a \in Args \ {NoArgs}, Create(o, a) PROVE CallsTyped'
  BY <1>0, <1>2 DEF Create
<1>3. ASSUME NEW o \in Ops, Pend(o) PROVE CallsTyped'
  BY <1>0, <1>3 DEF Pend, NewPair
<1>4. ASSUME NEW o \in Ops, NEW status \in Answers, AnswerAtOnce(o, status) PROVE CallsTyped'
  <2>1. Decode(status) \in Results
    BY DecodeType DEF Answers
  <2> QED
    BY <1>0, <1>4, <2>1 DEF AnswerAtOnce
<1>5. ASSUME NEW o \in Ops, NEW status \in Statuses, Callback(o, status) PROVE CallsTyped'
  <2>1. Decode(status) \in Results
    BY DecodeType DEF Answers
  <2> QED
    BY <1>0, <1>5, <2>1 DEF Callback, Deliver
<1>6. ASSUME NEW o \in Ops, NEW errno \in Errnos, ChangeStateFails(o, errno) PROVE CallsTyped'
  <2>1. Os(errno) \in Results
    BY ResultsType
  <2> QED
    BY <1>0, <1>6, <2>1 DEF ChangeStateFails
<1>7. ASSUME NEW o \in Ops, Resume(o) PROVE CallsTyped'
  <2>1. Outcome(o, Cancelled) \in Results
    BY <1>0, ResultsType DEF Outcome
  <2> QED
    BY <1>0, <1>7, <2>1 DEF Resume, Resolve
<1>8. ASSUME NEW o \in Ops, Abandon(o) PROVE CallsTyped'
  BY <1>0, <1>8 DEF Abandon, DropReceiver
<1> QED
  BY Steps, <1>1, <1>2, <1>3, <1>4, <1>5, <1>6, <1>7, <1>8 DEF OpStep

LEMMA NextTargetTyped == IInv /\ [Next]_vars => TargetTyped'
<1> SUFFICES ASSUME IInv, [Next]_vars PROVE TargetTyped'
  OBVIOUS
<1>0. TargetTyped
  BY TypeParts DEF IInv
<1> USE DEF TargetTyped, TransportStates, SubStates, changeVars, targetVars
<1>1. CASE Config
  <2>1. CASE CreateTarget \/ DropTarget \/ Destroyed
    BY <1>0, <2>1 DEF CreateTarget, DropTarget, Destroyed
  <2>2. ASSUME NEW t \in Transports, CreateTransport(t) \/ DropTransport(t) PROVE TargetTyped'
    BY <1>0, <2>2 DEF CreateTransport, DropTransport
  <2>3. ASSUME NEW a \in Addrs, Listen(a) PROVE TargetTyped'
    BY <1>0, <2>3 DEF Listen
  <2>4. ASSUME NEW s \in Subs, NEW applied \in BOOLEAN, CreateSubsystem(s, applied)
        PROVE  TargetTyped'
    BY <1>0, <2>4 DEF CreateSubsystem
  <2>5. ASSUME NEW s \in Subs, FindSubsystem(s) PROVE TargetTyped'
    BY <1>0, <2>5 DEF FindSubsystem
  <2>6. ASSUME NEW s \in Subs, NEW b \in Bdevs, AddNamespace(s, b) PROVE TargetTyped'
    BY <1>0, <2>6 DEF AddNamespace
  <2> HIDE DEF TargetTyped
  <2> QED
    BY <1>1, <2>1, <2>2, <2>3, <2>4, <2>5, <2>6 DEF Config
<1>2. ASSUME NEW o \in Ops, NEW t \in Transports, CreateAddTransport(o, t) PROVE TargetTyped'
  BY <1>0, <1>2 DEF CreateAddTransport, Create
<1>3. ASSUME NEW o \in Ops, NEW a, CreateOnSub(o, a) PROVE TargetTyped'
  BY <1>0, <1>3 DEF CreateOnSub, Create
<1>4. ASSUME NEW o \in Ops, AddTransport(o) PROVE TargetTyped'
  BY <1>0, <1>4 DEF AddTransport
<1>5. ASSUME NEW o \in Ops, AddListener(o) PROVE TargetTyped'
  BY <1>0, <1>5 DEF AddListener
<1>6. ASSUME NEW o \in Ops, ChangeState(o) PROVE TargetTyped'
  <2>1. args[o].sub \in Subs
    BY <1>6, Arguments DEF IInv, ChangeState
  <2>2. Append(changes[args[o].sub], o) \in Seq(Ops)
    BY <1>0, <2>1
  <2> QED
    BY <1>0, <1>6, <2>1, <2>2 DEF ChangeState
<1>7. ASSUME NEW o \in Ops, NEW status \in Statuses, AddTransportDone(o, status) PROVE TargetTyped'
  BY <1>0, <1>7 DEF AddTransportDone
<1>8. ASSUME NEW o \in Ops, NEW status \in Statuses, AddListenerDone(o, status) PROVE TargetTyped'
  <2>1. args[o].addr \in Addrs
    BY <1>8, Arguments DEF IInv, AddListenerDone
  <2> QED
    BY <1>0, <1>8, <2>1 DEF AddListenerDone
<1>9. ASSUME NEW s \in Subs, NEW status \in Statuses, ChangeStateDone(s, status) PROVE TargetTyped'
  <2>1. changes[s] \in Seq(Ops) /\ changes[s] # <<>>
    BY <1>0, <1>9 DEF ChangeStateDone, Changing
  <2>2. Tail(changes[s]) \in Seq(Ops)
    BY <2>1
  <2> QED
    BY <1>0, <1>9, <2>2 DEF ChangeStateDone, Asked
<1>10. ASSUME NEW o \in Ops, Resume(o) \/ \E errno \in Errnos : ChangeStateFails(o, errno)
       PROVE  TargetTyped'
  BY <1>0, <1>10 DEF Resume, ChangeStateFails
<1>11. ASSUME NEW o \in Ops, Abandon(o) PROVE TargetTyped'
  BY <1>0, <1>11 DEF Abandon
<1>12. CASE UNCHANGED vars
  BY <1>0, <1>12 DEF vars
<1>13. ASSUME NEW o \in Ops, Done(o) PROVE TargetTyped'
  BY <1>7, <1>8, <1>13, Zenon DEF Done
<1> HIDE DEF TargetTyped
<1> QED
  BY <1>1, <1>2, <1>3, <1>4, <1>5, <1>6, <1>9, <1>10, <1>11, <1>12, <1>13 DEF Next, Config

LEMMA NextType == IInv /\ [Next]_vars => TypeOK'
<1>1. TypeOK' <=> CallsTyped' /\ TargetTyped'
  BY Zenon DEF TypeOK, CallsTyped, TargetTyped
<1> QED
  BY <1>1, NextCallsTyped, NextTargetTyped

-------------------------------------------------------------------------------
(* What one step does to the call it is about, and that it leaves the      *)
(* others alone.                                                           *)
Same(p) ==
    /\ fut'[p] = fut[p] /\ args'[p] = args[p] /\ io'[p] = io[p]
    /\ result'[p] = result[p] /\ verdict'[p] = verdict[p]

LEMMA CreateEffect ==
    ASSUME IInv, NEW o \in Ops, NEW a, Create(o, a)
    PROVE  /\ \A p \in Ops \ {o} : Same(p)
           /\ fut[o] = "none" /\ args[o] = NoArgs /\ io[o] = "none" /\ verdict[o] = None
           /\ fut'[o] = "lazy" /\ args'[o] = a /\ io'[o] = "none" /\ verdict'[o] = None
BY DEF IInv, TypeOK, Pairs, Idle, Create, Same

LEMMA PendEffect ==
    ASSUME IInv, NEW o \in Ops, Pend(o)
    PROVE  /\ \A p \in Ops \ {o} : Same(p)
           /\ fut[o] = "lazy" /\ io[o] = "none" /\ tgt = "live" /\ UNCHANGED args
           /\ fut'[o] = "awaiting" /\ io'[o] = "pending" /\ verdict'[o] = None
BY DEF IInv, TypeOK, Pairs, Idle, Pend, Same

LEMMA AnswerEffect ==
    ASSUME IInv, NEW o \in Ops, NEW status \in Answers, AnswerAtOnce(o, status)
    PROVE  /\ \A p \in Ops \ {o} : Same(p)
           /\ fut[o] = "lazy" /\ io[o] = "none" /\ tgt = "live" /\ UNCHANGED args
           /\ fut'[o] = "returned" /\ io'[o] = "completed" /\ verdict'[o] = Decode(status)
           /\ verdict'[o] = Ok => status = 0
BY DecodeType DEF IInv, TypeOK, Pairs, Idle, AnswerAtOnce, Same, Answers

LEMMA CallbackEffect ==
    ASSUME IInv, NEW o \in Ops, NEW status \in Statuses, Callback(o, status)
    PROVE  /\ \A p \in Ops \ {o} : Same(p)
           /\ fut[o] \in {"awaiting", "dropped"} /\ io[o] = "pending" /\ verdict[o] = None
           /\ io'[o] = "completed" /\ UNCHANGED <<fut, args>>
           /\ verdict'[o] = IF fut[o] = "awaiting" THEN Decode(status) ELSE None
           /\ verdict'[o] = Ok => status = 0
BY DecodeType, ResultsType DEF IInv, TypeOK, FutureStates, Pairs, Idle, Callback, Same

LEMMA FailsEffect ==
    ASSUME IInv, NEW o \in Ops, NEW errno \in Errnos, ChangeStateFails(o, errno)
    PROVE  /\ \A p \in Ops \ {o} : Same(p)
           /\ fut[o] = "lazy" /\ io[o] = "none" /\ UNCHANGED args
           /\ fut'[o] = "returned" /\ io'[o] = "refused" /\ verdict'[o] # Ok
           /\ UNCHANGED <<targetVars, changeVars>> /\ IsChange(o)
BY ResultsType DEF IInv, TypeOK, Pairs, Idle, ChangeStateFails, Same

LEMMA ResumeEffect ==
    ASSUME IInv, NEW o \in Ops, Resume(o)
    PROVE  /\ fut[o] = "awaiting" /\ fut'[o] = "returned"
           /\ \A p \in Ops \ {o} : fut'[p] = fut[p]
           /\ UNCHANGED <<targetVars, changeVars, args, io, verdict>>
BY DEF IInv, TypeOK, Resume

LEMMA AbandonEffect ==
    ASSUME IInv, NEW o \in Ops, Abandon(o)
    PROVE  /\ \A p \in Ops \ {o} : Same(p)
           /\ fut[o] \in {"lazy", "awaiting"} /\ UNCHANGED <<args, io>>
           /\ fut'[o] = "dropped" /\ verdict'[o] = None
           /\ UNCHANGED <<tgt, listening, sub, handle, ns, listener, changeVars>>
BY DEF IInv, TypeOK, Alive, Abandon, Same

LEMMA ChangeDoneEffect ==
    ASSUME IInv, NEW s \in Subs, NEW status \in Statuses, ChangeStateDone(s, status)
    PROVE  \E o \in Ops :
              /\ o = changes[s][1] /\ Callback(o, status)
              /\ IsChange(o) /\ args[o].sub = s
              /\ sub' = IF status = 0 THEN [sub EXCEPT ![s] = Asked(o)] ELSE sub
              /\ changes' = [changes EXCEPT ![s] = Tail(@)]
              /\ UNCHANGED <<tgt, transport, listening, handle, ns, listener, last>>
<1> DEFINE o == Head(changes[s])
<1>1. Changing(s)
  BY DEF ChangeStateDone
<1>2. o \in Ops /\ o = changes[s][1]
  BY <1>1, ChangeHead
<1>3. 1 \in 1 .. Len(changes[s])
  BY <1>1 DEF IInv, TypeOK, Changing
<1>4. IsChange(o) /\ args[o].sub = s
  BY <1>2, <1>3 DEF IInv, Queued, QueuePlace
<1>5. /\ Callback(o, status)
      /\ sub' = IF status = 0 THEN [sub EXCEPT ![s] = Asked(o)] ELSE sub
      /\ changes' = [changes EXCEPT ![s] = Tail(@)]
      /\ UNCHANGED <<tgt, transport, listening, handle, ns, listener, last>>
  BY Zenon DEF ChangeStateDone
<1> HIDE DEF o
<1> QED
  BY <1>2, <1>4, <1>5

LEMMA NextMoves == IInv /\ [Next]_vars => Moves'
<1> SUFFICES ASSUME IInv, [Next]_vars PROVE Moves'
  OBVIOUS
<1> USE DEF Moves, Holds, Same
<1>i. Moves
  BY DEF IInv
<1>t. transport \in [Transports -> TransportStates]
  BY DEF IInv, TypeOK
<1>a. \A o \in Ops : args[o].kind = "add_transport" => args[o].transport \in Transports
  BY Arguments DEF IInv
<1>1. CASE Config
  <2>1. ASSUME NEW t \in Transports, CreateTransport(t) \/ DropTransport(t) PROVE Moves'
    BY <1>i, <1>t, <1>a, <2>1 DEF CreateTransport, DropTransport, opVars
  <2>2. CASE UNCHANGED <<transport, opVars>>
    BY <1>i, <2>2 DEF opVars
  <2>3. \/ \E t \in Transports : CreateTransport(t) \/ DropTransport(t)
        \/ UNCHANGED transport
    BY <1>1 DEF Config, CreateTarget, DropTarget, Destroyed, Listen, CreateSubsystem,
       FindSubsystem, AddNamespace
  <2> QED
    BY <1>1, <2>1, <2>2, <2>3, ConfigKeepsCalls
<1>2. ASSUME NEW o \in Ops, NEW t \in Transports, CreateAddTransport(o, t) PROVE Moves'
  <2> DEFINE new == [kind |-> "add_transport", transport |-> t]
  <2>1. new.kind = "add_transport" /\ new.transport = t
    OBVIOUS
  <2>2. /\ transport[t] = "made" /\ transport' = [transport EXCEPT ![t] = "moved"]
        /\ Create(o, new)
    BY <1>2 DEF CreateAddTransport
  <2> HIDE DEF new
  <2> QED
    BY <1>i, <1>t, <1>a, <2>1, <2>2, CreateEffect DEF NoArgs
<1>3. ASSUME NEW o \in Ops, NEW a, CreateOnSub(o, a), a.kind # "add_transport" PROVE Moves'
  BY <1>i, <1>3, CreateEffect DEF CreateOnSub, NoArgs
<1>4. ASSUME NEW o \in Ops, AddTransport(o) PROVE Moves'
  <2>1. CASE Pend(o) /\ transport' = [transport EXCEPT ![args[o].transport] = "adding"]
    BY <1>i, <1>t, <1>a, <1>4, <2>1, PendEffect DEF AddTransport
  <2>2. ASSUME NEW status \in Answers, AnswerAtOnce(o, status),
               transport' = [transport EXCEPT ![args[o].transport] = "lost"]
        PROVE  Moves'
    BY <1>i, <1>t, <1>a, <1>4, <2>2, AnswerEffect DEF AddTransport
  <2>3. -EEXIST \in Answers
    BY DEF Answers
  <2> QED
    BY <1>4, <2>1, <2>2, <2>3 DEF AddTransport
<1>5. ASSUME NEW o \in Ops, AddListener(o) \/ ChangeState(o) PROVE Moves'
  <2>1. UNCHANGED transport /\ args[o].kind # "add_transport"
    BY <1>5 DEF AddListener, ChangeState, IsChange, targetVars
  <2>2. CASE Pend(o)
    BY <1>i, <2>1, <2>2, PendEffect
  <2>3. ASSUME NEW status \in Answers, AnswerAtOnce(o, status) PROVE Moves'
    BY <1>i, <2>1, <2>3, AnswerEffect
  <2> QED
    BY <1>5, <2>2, <2>3, SubmitSteps
<1>6. ASSUME NEW o \in Ops, NEW status \in Statuses, AddTransportDone(o, status) PROVE Moves'
  BY <1>i, <1>t, <1>a, <1>6, CallbackEffect DEF AddTransportDone
<1>7. ASSUME NEW o \in Ops, NEW status \in Statuses, AddListenerDone(o, status) PROVE Moves'
  BY <1>i, <1>7, CallbackEffect DEF AddListenerDone
<1>8. ASSUME NEW s \in Subs, NEW status \in Statuses, ChangeStateDone(s, status) PROVE Moves'
  <2>1. PICK o \in Ops : Callback(o, status) /\ IsChange(o) /\ UNCHANGED transport
    BY <1>8, ChangeDoneEffect
  <2> QED
    BY <1>i, <2>1, CallbackEffect DEF IsChange
<1>9. ASSUME NEW o \in Ops, NEW errno \in Errnos, ChangeStateFails(o, errno) PROVE Moves'
  BY <1>i, <1>9, FailsEffect DEF IsChange, targetVars
<1>10. ASSUME NEW o \in Ops, Resume(o) PROVE Moves'
  BY <1>i, <1>10, ResumeEffect DEF targetVars
<1>11. ASSUME NEW o \in Ops, Abandon(o) PROVE Moves'
  <2>1. \A t \in Transports : transport'[t] =
           IF fut[o] = "lazy" /\ args[o].kind = "add_transport" /\ args[o].transport = t
              THEN "lost" ELSE transport[t]
    BY <1>11 DEF Abandon
  <2>2. fut[o] = "lazy" => io[o] # "pending"
    BY DEF IInv, Pairs, Idle
  <2> QED
    BY <1>i, <1>a, <1>11, <2>1, <2>2, AbandonEffect
<1>12. CASE UNCHANGED vars
  BY <1>i, <1>12 DEF vars, targetVars, opVars
<1>13. ASSUME NEW o \in Ops, Done(o) PROVE Moves'
  BY <1>6, <1>7, <1>13, Zenon DEF Done
<1> HIDE DEF Moves
<1> QED
  BY <1>1, <1>2, <1>3, <1>4, <1>5, <1>8, <1>9, <1>10, <1>11, <1>12, <1>13 DEF Next, Config

LEMMA NextListeners == IInv /\ [Next]_vars => Listeners'
<1> SUFFICES ASSUME IInv, [Next]_vars PROVE Listeners'
  OBVIOUS
<1> USE DEF Listeners, Same
<1>i. Listeners
  BY DEF IInv
<1>t. listener \in [Subs -> SUBSET Addrs]
  BY DEF IInv, TypeOK
<1>1. CASE Config
  <2>1. \/ Destroyed
        \/ /\ UNCHANGED listener /\ listening \subseteq listening'
           /\ tgt = "gone" => tgt' = "gone"
    BY <1>1 DEF Config, CreateTarget, DropTarget, CreateTransport, DropTransport, Listen,
       CreateSubsystem, FindSubsystem, AddNamespace
  <2>2. UNCHANGED opVars
    BY <1>1, ConfigKeepsCalls
  <2> QED
    BY <1>i, <2>1, <2>2 DEF Destroyed, opVars
<1>2. ASSUME NEW o \in Ops, NEW a, Create(o, a) PROVE Listeners'
  <2>1. UNCHANGED <<tgt, listening, listener>>
    BY <1>2 DEF Create
  <2> QED
    BY <1>i, <1>2, <2>1, CreateEffect
<1>3. ASSUME NEW o \in Ops, AddTransport(o) \/ AddListener(o) \/ ChangeState(o) PROVE Listeners'
  <2>1. UNCHANGED <<tgt, listening, listener>>
    BY <1>3 DEF AddTransport, AddListener, ChangeState, targetVars
  <2>2. CASE Pend(o)
    <3>1. args[o].kind = "add_listener" => args[o].addr \in listening
      <4>1. {0, -EAGAIN, -EINVAL} \subseteq Answers
        BY DEF Answers, Statuses
      <4>2. \A status \in Answers : ~AnswerAtOnce(o, status)
        BY <2>2, PendEffect, AnswerEffect
      <4>3. CASE AddListener(o) /\ args[o].addr \notin listener[args[o].sub]
        BY <4>1, <4>2, <4>3 DEF AddListener
      <4>4. CASE AddListener(o) /\ args[o].addr \in listener[args[o].sub]
        BY <4>1, <4>2, <4>4 DEF AddListener
      <4> QED
        BY <1>3, <4>3, <4>4 DEF AddTransport, ChangeState, IsChange
    <3> QED
      BY <1>i, <2>1, <2>2, <3>1, PendEffect
  <2>3. ASSUME NEW status \in Answers, AnswerAtOnce(o, status) PROVE Listeners'
    BY <1>i, <2>1, <2>3, AnswerEffect
  <2> QED
    BY <1>3, <2>2, <2>3, SubmitSteps
<1>4. ASSUME NEW o \in Ops, NEW status \in Statuses, AddTransportDone(o, status) PROVE Listeners'
  BY <1>i, <1>4, CallbackEffect DEF AddTransportDone
<1>5. ASSUME NEW o \in Ops, NEW status \in Statuses, AddListenerDone(o, status) PROVE Listeners'
  <2>1. \A s \in Subs : listener'[s] \subseteq listener[s] \cup {args[o].addr}
    BY <1>t, <1>5 DEF AddListenerDone
  <2>2. tgt # "gone" => args[o].addr \in listening
    BY <1>i, <1>5, CallbackEffect DEF AddListenerDone
  <2>3. UNCHANGED <<tgt, listening>> /\ Callback(o, status)
    BY <1>5 DEF AddListenerDone
  <2> QED
    BY <1>i, <2>1, <2>2, <2>3, CallbackEffect
<1>6. ASSUME NEW s \in Subs, NEW status \in Statuses, ChangeStateDone(s, status)
      PROVE  Listeners'
  BY <1>i, <1>6, ChangeDoneEffect, CallbackEffect
<1>7. ASSUME NEW o \in Ops, NEW errno \in Errnos, ChangeStateFails(o, errno) PROVE Listeners'
  BY <1>i, <1>7, FailsEffect DEF targetVars
<1>8. ASSUME NEW o \in Ops, Resume(o) PROVE Listeners'
  BY <1>i, <1>8, ResumeEffect DEF targetVars
<1>9. ASSUME NEW o \in Ops, Abandon(o) PROVE Listeners'
  BY <1>i, <1>9, AbandonEffect
<1>10. CASE UNCHANGED vars
  BY <1>i, <1>10 DEF vars, targetVars, opVars
<1>11. ASSUME NEW o \in Ops, Done(o) PROVE Listeners'
  BY <1>4, <1>5, <1>11, Zenon DEF Done
<1> HIDE DEF Listeners
<1> QED
  BY <1>1, <1>2, <1>3, <1>6, <1>7, <1>8, <1>9, <1>10, <1>11
     DEF Next, Config, CreateAddTransport, CreateOnSub

LEMMA NextKnown == IInv /\ [Next]_vars => Known'
<1> SUFFICES ASSUME IInv, [Next]_vars PROVE Known'
  OBVIOUS
<1> USE DEF Known, OnSub, Same
<1>i. Known
  BY DEF IInv
<1>t. handle \in [Subs -> BOOLEAN] /\ sub \in [Subs -> SubStates]
  BY DEF IInv, TypeOK
<1>a. \A o \in Ops : OnSub(o) => args[o].sub \in Subs
  BY Arguments DEF IInv, IsChange
(* A subsystem that exists does not become absent again. *)
<1>s. ASSUME UNCHANGED args,
             \A s \in Subs : sub[s] # "absent" => sub'[s] # "absent",
             \A s \in Subs : handle'[s] => sub'[s] # "absent",
             \A o \in Ops :
                 /\ fut'[o] # "none" => tgt' # "none"
                 /\ io'[o] = "pending" => tgt' = "live"
      PROVE  Known'
  BY <1>i, <1>a, <1>s
<1>1. CASE Config
  <2>1. UNCHANGED opVars
    BY <1>1, ConfigKeepsCalls
  <2>2. CASE CreateTarget \/ DropTarget
    BY <1>i, <2>1, <2>2 DEF CreateTarget, DropTarget, opVars
  <2>3. CASE Destroyed
    <3>1. \A o \in Ops : io[o] # "pending"
      BY <1>i, <2>3 DEF Destroyed
    <3> QED
      BY <1>i, <1>s, <2>1, <2>3, <3>1 DEF Destroyed, opVars
  <2>4. ASSUME NEW s \in Subs, NEW applied \in BOOLEAN, CreateSubsystem(s, applied)
        PROVE  Known'
    BY <1>i, <1>s, <1>t, <2>1, <2>4 DEF CreateSubsystem, opVars
  <2>5. ASSUME NEW s \in Subs, FindSubsystem(s) PROVE Known'
    BY <1>i, <1>s, <1>t, <2>1, <2>5 DEF FindSubsystem, opVars
  <2>6. CASE UNCHANGED <<tgt, sub, handle>>
    BY <1>i, <2>1, <2>6 DEF opVars
  <2>7. \/ CreateTarget \/ DropTarget \/ Destroyed
        \/ \E s \in Subs : FindSubsystem(s) \/ \E applied \in BOOLEAN : CreateSubsystem(s, applied)
        \/ UNCHANGED <<tgt, sub, handle>>
    BY <1>1 DEF Config, CreateTransport, DropTransport, Listen, AddNamespace
  <2> QED
    BY <2>2, <2>3, <2>4, <2>5, <2>6, <2>7
<1>2. ASSUME NEW o \in Ops, NEW t \in Transports, CreateAddTransport(o, t) PROVE Known'
  <2> DEFINE new == [kind |-> "add_transport", transport |-> t]
  <2>1. new.kind = "add_transport"
    OBVIOUS
  <2>2. Create(o, new) /\ tgt = "live" /\ UNCHANGED <<tgt, sub, handle>>
    BY <1>2 DEF CreateAddTransport, Create
  <2> HIDE DEF new
  <2> QED
    BY <1>i, <2>1, <2>2, CreateEffect
<1>3. ASSUME NEW o \in Ops, NEW a, CreateOnSub(o, a), a.sub \in Subs PROVE Known'
  BY <1>i, <1>3, CreateEffect DEF CreateOnSub, Create, Usable
<1>4. ASSUME NEW o \in Ops, AddTransport(o) \/ AddListener(o) \/ ChangeState(o) PROVE Known'
  <2>1. UNCHANGED <<tgt, sub, handle>>
    BY <1>4 DEF AddTransport, AddListener, ChangeState, targetVars
  <2>2. CASE Pend(o)
    BY <1>i, <1>s, <2>1, <2>2, PendEffect
  <2>3. ASSUME NEW status \in Answers, AnswerAtOnce(o, status) PROVE Known'
    BY <1>i, <1>s, <2>1, <2>3, AnswerEffect
  <2> QED
    BY <1>4, <2>2, <2>3, SubmitSteps
<1>5. ASSUME NEW o \in Ops, Done(o) PROVE Known'
  <2>1. PICK status \in Statuses : AddTransportDone(o, status) \/ AddListenerDone(o, status)
    BY <1>5 DEF Done
  <2>2. Callback(o, status) /\ UNCHANGED <<tgt, sub, handle>>
    BY <2>1 DEF AddTransportDone, AddListenerDone
  <2> QED
    BY <1>i, <2>2, CallbackEffect
<1>6. ASSUME NEW s \in Subs, NEW status \in Statuses, ChangeStateDone(s, status) PROVE Known'
  <2>1. PICK o \in Ops : /\ Callback(o, status)
                         /\ sub' = IF status = 0 THEN [sub EXCEPT ![s] = Asked(o)] ELSE sub
                         /\ UNCHANGED <<tgt, handle>>
    BY <1>6, ChangeDoneEffect
  <2>2. \A r \in Subs : sub[r] # "absent" => sub'[r] # "absent"
    BY <1>t, <2>1 DEF Asked
  <2> QED
    BY <1>i, <1>s, <2>1, <2>2, CallbackEffect
<1>7. ASSUME NEW o \in Ops, NEW errno \in Errnos, ChangeStateFails(o, errno) PROVE Known'
  BY <1>i, <1>7, FailsEffect DEF targetVars
<1>8. ASSUME NEW o \in Ops, Resume(o) PROVE Known'
  BY <1>i, <1>8, ResumeEffect DEF targetVars
<1>9. ASSUME NEW o \in Ops, Abandon(o) PROVE Known'
  BY <1>i, <1>9, AbandonEffect
<1>10. CASE UNCHANGED vars
  BY <1>i, <1>10 DEF vars, targetVars, opVars
<1> HIDE DEF Known
<1> QED
  BY <1>1, <1>2, <1>3, <1>4, <1>5, <1>6, <1>7, <1>8, <1>9, <1>10 DEF Next, Config

LEMMA NextQueued == IInv /\ [Next]_vars => Queued'
<1> SUFFICES ASSUME IInv, [Next]_vars PROVE Queued'
  OBVIOUS
<1> USE DEF Same, Changing
<1>i. \A s \in Subs : QueuePlace(s) /\ QueueLast(s)
  BY DEF IInv, Queued
<1>t. \A s \in Subs : changes[s] \in Seq(Ops) /\ Len(changes[s]) \in Nat
                        /\ \A i \in 1 .. Len(changes[s]) : changes[s][i] \in Ops
  BY DEF IInv, TypeOK
<1>f. changes \in [Subs -> Seq(Ops)] /\ last \in [Subs -> Ops \cup {None}]
  BY DEF IInv, TypeOK
(* Only the calls in the queues matter. *)
<1>r. ASSUME NEW s \in Subs, changes'[s] = changes[s], Changing(s) => last'[s] = last[s],
             \A i \in 1 .. Len(changes[s]) :
                 LET o == changes[s][i] IN io'[o] = io[o] /\ args'[o] = args[o]
      PROVE  (QueuePlace(s) /\ QueueLast(s))'
  BY <1>i, <1>r DEF QueuePlace, QueueLast, IsChange
<1>s. ASSUME UNCHANGED changes,
             \A s \in Subs : Changing(s) => last'[s] = last[s],
             \A o \in Ops : io[o] = "pending" /\ IsChange(o) =>
                 io'[o] = "pending" /\ args'[o] = args[o]
      PROVE  Queued'
  <2>1. ASSUME NEW s \in Subs, NEW i \in 1 .. Len(changes[s])
        PROVE  LET o == changes[s][i] IN io'[o] = io[o] /\ args'[o] = args[o]
    BY <1>i, <1>t, <1>s, <2>1 DEF QueuePlace
  <2> QED
    BY <1>r, <1>s, <2>1 DEF Queued
<1>1. CASE Config
  BY <1>s, <1>1, ConfigKeepsCalls DEF changeVars, opVars
<1>2. ASSUME NEW o \in Ops, NEW a, Create(o, a) PROVE Queued'
  <2>1. UNCHANGED changeVars
    BY <1>2 DEF Create
  <2> QED
    BY <1>s, <1>2, <2>1, CreateEffect DEF changeVars
<1>3. ASSUME NEW o \in Ops, AddTransport(o) \/ AddListener(o) PROVE Queued'
  <2>1. UNCHANGED changeVars
    BY <1>3 DEF AddTransport, AddListener
  <2> QED
    BY <1>s, <1>3, <2>1, SubmitSteps, PendEffect, AnswerEffect DEF changeVars
<1>4. ASSUME NEW o \in Ops, ChangeState(o) PROVE Queued'
  <2>s. PICK s \in Subs : s = args[o].sub
    BY <1>4, Arguments DEF ChangeState, IInv
  <2>0. s \in Subs /\ last' = [last EXCEPT ![s] = o] /\ IsChange(o)
    BY <1>4, <2>s DEF ChangeState
  <2>1. CASE ~Changing(s) /\ UNCHANGED changes /\ AnswerAtOnce(o, 0)
    <3>1. 0 \in Answers
      BY DEF Answers, Statuses
    <3> QED
      BY <1>s, <1>f, <2>0, <2>1, <3>1, AnswerEffect
  <2>2. CASE Pend(o) /\ changes' = [changes EXCEPT ![s] = Append(@, o)]
    <3>1. /\ \A p \in Ops \ {o} : Same(p)
          /\ io[o] = "none" /\ io'[o] = "pending" /\ UNCHANGED args
      BY <2>2, PendEffect
    <3>2. ASSUME NEW r \in Subs, NEW i \in 1 .. Len(changes[r]) PROVE changes[r][i] \in Ops \ {o}
      BY <1>i, <1>t, <3>1, <3>2 DEF QueuePlace
    <3> DEFINE n == Len(changes[s])
    <3>4. changes'[s] = Append(changes[s], o) /\ last'[s] = o /\ IsChange(o)'
      BY <1>f, <2>0, <2>2, <3>1 DEF IsChange
    <3>5. ASSUME NEW r \in Subs \ {s} PROVE (QueuePlace(r) /\ QueueLast(r))'
      <4>1. changes'[r] = changes[r] /\ last'[r] = last[r]
        BY <1>f, <2>0, <2>2
      <4> QED
        BY <1>r, <3>1, <3>2, <4>1
    <3>6. /\ n \in Nat /\ Len(changes'[s]) = n + 1 /\ changes'[s][n + 1] = o
          /\ \A i \in 1 .. n : changes'[s][i] = changes[s][i]
          /\ changes'[s] # <<>>
      BY <1>t, <2>0, <3>4
    <3> HIDE DEF n
    <3>7. QueueLast(s)'
      BY <3>4, <3>6 DEF QueueLast
    <3>8. QueuePlace(s)'
      <4>1. ASSUME NEW i \in 1 .. n
            PROVE  /\ io'[changes'[s][i]] = "pending" /\ args'[changes'[s][i]].kind \in {"start", "stop"}
                   /\ args'[changes'[s][i]].sub = s
                   /\ \A j \in 1 .. n : changes'[s][i] = changes'[s][j] => i = j
                   /\ changes'[s][i] # o
        BY <1>i, <2>0, <3>1, <3>2, <3>6 DEF QueuePlace, IsChange, n
      <4> QED
        <5>1. ASSUME NEW i \in 1 .. n + 1, i # n + 1 PROVE i \in 1 .. n
          BY <3>6, <5>1
        <5> QED
          BY <2>s, <3>1, <3>4, <3>6, <4>1, <5>1 DEF QueuePlace, IsChange
    <3> QED
      BY <3>5, <3>7, <3>8 DEF Queued
  <2> QED
    BY <1>4, <2>s, <2>1, <2>2 DEF ChangeState
<1>5. ASSUME NEW o \in Ops, Done(o) PROVE Queued'
  <2>1. PICK status \in Statuses : AddTransportDone(o, status) \/ AddListenerDone(o, status)
    BY <1>5 DEF Done
  <2>2. Callback(o, status) /\ UNCHANGED changeVars /\ ~IsChange(o)
    BY <2>1 DEF AddTransportDone, AddListenerDone, IsChange
  <2> QED
    BY <1>s, <2>2, CallbackEffect DEF changeVars
<1>6. ASSUME NEW s \in Subs, NEW status \in Statuses, ChangeStateDone(s, status) PROVE Queued'
  <2>1. PICK o \in Ops : /\ o = changes[s][1] /\ Callback(o, status)
                         /\ changes' = [changes EXCEPT ![s] = Tail(@)] /\ UNCHANGED last
    BY <1>6, ChangeDoneEffect
  <2>2. /\ \A p \in Ops \ {o} : Same(p)
        /\ UNCHANGED args
    BY <2>1, CallbackEffect
  <2> DEFINE rest == Tail(changes[s])
             n == Len(changes[s])
  <2>3. changes[s] # <<>> /\ n \in Nat /\ n > 0
    BY <1>6, <1>t DEF ChangeStateDone
  <2>4. Len(rest) = n - 1 /\ \A i \in 1 .. n - 1 : rest[i] = changes[s][i + 1]
    BY <1>t, <2>3
  <2>5. changes'[s] = rest /\ \A r \in Subs \ {s} : changes'[r] = changes[r]
    BY <1>f, <2>1
  <2>6. ASSUME NEW r \in Subs, NEW i \in 1 .. Len(changes[r]), r = s => i # 1
        PROVE  changes[r][i] \in Ops \ {o}
    <3>1. 1 \in 1 .. n
      BY <2>3
    <3>2. args[o].sub = s /\ \A j \in 1 .. n : changes[s][j] = o => j = 1
      BY <1>i, <2>1, <3>1 DEF QueuePlace
    <3>3. args[changes[r][i]].sub = r
      BY <1>i DEF QueuePlace
    <3> QED
      BY <1>t, <2>6, <3>2, <3>3
  <2>7. ASSUME NEW r \in Subs \ {s} PROVE (QueuePlace(r) /\ QueueLast(r))'
    BY <1>r, <2>1, <2>2, <2>5, <2>6
  <2> HIDE DEF rest
  <2>8. QueuePlace(s)'
    <3>1. ASSUME NEW i \in 1 .. n - 1
          PROVE  /\ i + 1 \in 1 .. n /\ i + 1 # 1 /\ changes'[s][i] = changes[s][i + 1]
      BY <2>3, <2>4, <2>5
    <3>2. ASSUME NEW i \in 1 .. n - 1
          PROVE  /\ io'[changes'[s][i]] = "pending" /\ args'[changes'[s][i]].kind \in {"start", "stop"}
                 /\ args'[changes'[s][i]].sub = s
      BY <1>i, <2>2, <2>6, <3>1 DEF QueuePlace, IsChange
    <3>3. ASSUME NEW i \in 1 .. n - 1, NEW j \in 1 .. n - 1, changes'[s][i] = changes'[s][j]
          PROVE  i = j
      <4>1. \A a, b \in 1 .. n : changes[s][a] = changes[s][b] => a = b
        BY <1>i DEF QueuePlace
      <4>2. i + 1 = j + 1
        BY <3>1, <3>3, <4>1
      <4> QED
        BY <2>3, <4>2
    <3>4. Len(changes'[s]) = n - 1
      BY <2>4, <2>5
    <3> HIDE DEF n
    <3> QED
      BY <3>2, <3>3, <3>4 DEF QueuePlace, IsChange
  <2>9. QueueLast(s)'
    <3>1. CASE n = 1
      <4>1. rest = <<>>
        BY <1>t, <2>3, <3>1 DEF rest
      <4> QED
        BY <2>5, <4>1 DEF QueueLast
    <3>2. CASE n # 1
      <4> HIDE DEF n
      <4>1. n - 1 \in 1 .. n - 1 /\ (n - 1) + 1 = n
        BY <2>3, <3>2
      <4>2. rest[n - 1] = changes[s][n]
        BY <2>4, <4>1
      <4> QED
        BY <1>i, <2>1, <2>3, <2>4, <2>5, <4>1, <4>2 DEF QueueLast, n
    <3> QED
      BY <3>1, <3>2
  <2> QED
    BY <2>7, <2>8, <2>9 DEF Queued
<1>7. ASSUME NEW o \in Ops, NEW errno \in Errnos, ChangeStateFails(o, errno) PROVE Queued'
  BY <1>s, <1>7, FailsEffect DEF changeVars
<1>8. ASSUME NEW o \in Ops, Resume(o) PROVE Queued'
  BY <1>s, <1>8, ResumeEffect DEF changeVars
<1>9. ASSUME NEW o \in Ops, Abandon(o) PROVE Queued'
  BY <1>s, <1>9, AbandonEffect DEF changeVars
<1>10. CASE UNCHANGED vars
  BY <1>s, <1>10 DEF vars, changeVars, opVars
<1> HIDE DEF Queued
<1> QED
  BY <1>1, <1>2, <1>3, <1>4, <1>5, <1>6, <1>7, <1>8, <1>9, <1>10
     DEF Next, Config, CreateAddTransport, CreateOnSub

LEMMA NextOkHolds == IInv /\ [Next]_vars => OkHolds'
<1> SUFFICES ASSUME IInv, [Next]_vars PROVE OkHolds'
  OBVIOUS
<1> USE DEF OkHolds, Same
<1>i. OkHolds
  BY DEF IInv
<1>a. \A o \in Ops : /\ args[o].kind = "add_transport" => args[o].transport \in Transports
                     /\ args[o].kind = "add_listener" => args[o].sub \in Subs
                     /\ IsChange(o) => args[o].sub \in Subs
  BY Arguments DEF IInv
<1>t. /\ transport \in [Transports -> TransportStates] /\ listener \in [Subs -> SUBSET Addrs]
      /\ sub \in [Subs -> SubStates] /\ last \in [Subs -> Ops \cup {None}]
  BY DEF IInv, TypeOK
<1>o. Ok # None
  BY ResultsType
(* What stays done, for a call that the step is not about. *)
<1>s. ASSUME NEW o \in Ops, Holding(o), args'[o] = args[o], listening \subseteq listening',
             \A t \in Transports : transport[t] = "added" => transport'[t] = "added",
             \A s \in Subs : listener[s] \subseteq listener'[s],
             IsChange(o) /\ last'[args[o].sub] = o =>
                 last[args[o].sub] = o /\ sub'[args[o].sub] = sub[args[o].sub]
      PROVE  Holding(o)'
  BY <1>a, <1>s DEF Holding, IsChange, Asked
<1>1. CASE Config
  <2>1. UNCHANGED <<changeVars, opVars>>
    BY <1>1, ConfigKeepsCalls
  <2>2. CASE CreateTarget
    <3>1. \A o \in Ops : verdict[o] = None
      BY <2>2 DEF CreateTarget, IInv, Known, Pairs, Idle
    <3> QED
      BY <1>o, <2>1, <3>1 DEF opVars
  <2>3. CASE DropTarget \/ Destroyed
    BY <2>3 DEF DropTarget, Destroyed
  <2>4. ASSUME NEW t \in Transports, CreateTransport(t) \/ DropTransport(t) PROVE OkHolds'
    BY <1>i, <1>s, <1>t, <2>1, <2>4 DEF CreateTransport, DropTransport, opVars, changeVars
  <2>5. ASSUME NEW a \in Addrs, Listen(a) PROVE OkHolds'
    BY <1>i, <1>s, <2>1, <2>5 DEF Listen, opVars, changeVars
  <2>6. ASSUME NEW s \in Subs, NEW applied \in BOOLEAN, CreateSubsystem(s, applied)
        PROVE  OkHolds'
    <3>1. /\ UNCHANGED <<tgt, transport, listening, listener>> /\ sub[s] = "absent"
          /\ \A r \in Subs \ {s} : sub'[r] = sub[r]
      BY <1>t, <2>6 DEF CreateSubsystem
    <3>2. \A o \in Ops : IsChange(o) => args[o].sub # s
      BY <3>1 DEF IInv, Known, OnSub, IsChange
    <3> QED
      BY <1>i, <1>s, <1>a, <2>1, <3>1, <3>2 DEF opVars, changeVars
  <2>7. CASE UNCHANGED <<tgt, transport, listening, sub, listener>>
    BY <1>i, <1>s, <2>1, <2>7 DEF opVars, changeVars
  <2>8. ASSUME NEW s \in Subs, FindSubsystem(s) \/ \E b \in Bdevs : AddNamespace(s, b)
        PROVE  OkHolds'
    BY <2>7, <2>8 DEF FindSubsystem, AddNamespace
  <2> HIDE DEF OkHolds
  <2> QED
    BY <1>1, <2>2, <2>3, <2>4, <2>5, <2>6, <2>8 DEF Config
<1>2. ASSUME NEW o \in Ops, NEW t \in Transports, CreateAddTransport(o, t) PROVE OkHolds'
  <2> DEFINE new == [kind |-> "add_transport", transport |-> t]
  <2>1. /\ \A r \in Transports : transport[r] = "added" => transport'[r] = "added"
        /\ UNCHANGED <<tgt, listening, sub, listener, changeVars>> /\ Create(o, new)
    BY <1>2, <1>t DEF CreateAddTransport, Create
  <2> HIDE DEF new
  <2> QED
    BY <1>i, <1>s, <1>o, <2>1, CreateEffect DEF changeVars
<1>3. ASSUME NEW o \in Ops, NEW a, CreateOnSub(o, a) PROVE OkHolds'
  <2>1. /\ UNCHANGED <<tgt, transport, listening, sub, listener, changeVars>> /\ Create(o, a)
    BY <1>3 DEF CreateOnSub, Create
  <2> QED
    BY <1>i, <1>s, <1>o, <2>1, CreateEffect DEF changeVars
<1>4. ASSUME NEW o \in Ops, AddTransport(o) PROVE OkHolds'
  <2>1. UNCHANGED <<tgt, listening, sub, listener, changeVars>> /\ args[o].kind = "add_transport"
    BY <1>4 DEF AddTransport
  <2>2. ASSUME fut[o] = "lazy" /\ io[o] = "none"
        PROVE  \A t \in Transports : transport[t] = "added" => transport'[t] = "added"
    <3>1. transport[args[o].transport] = "moved"
      BY <2>1, <2>2 DEF IInv, Moves, Holds
    <3> QED
      BY <1>4, <1>t, <3>1 DEF AddTransport
  <2>3. CASE Pend(o)
    BY <1>i, <1>s, <1>o, <2>1, <2>2, <2>3, PendEffect DEF changeVars
  <2>4. CASE AnswerAtOnce(o, -EEXIST)
    <3>1. -EEXIST \in Answers /\ -EEXIST # 0
      BY DEF Answers, EEXIST
    <3> QED
      BY <1>i, <1>s, <2>1, <2>2, <2>4, <3>1, AnswerEffect DEF changeVars
  <2> QED
    BY <1>4, <2>3, <2>4 DEF AddTransport
<1>5. ASSUME NEW o \in Ops, AddListener(o) PROVE OkHolds'
  <2>1. UNCHANGED <<tgt, transport, listening, sub, listener, changeVars>> /\ args[o].kind = "add_listener"
    BY <1>5 DEF AddListener, targetVars
  <2>2. CASE Pend(o)
    BY <1>i, <1>s, <1>o, <2>1, <2>2, PendEffect DEF changeVars
  <2>3. ASSUME NEW status \in Answers, AnswerAtOnce(o, status), status # 0 PROVE OkHolds'
    BY <1>i, <1>s, <2>1, <2>3, AnswerEffect DEF changeVars
  <2>4. CASE AnswerAtOnce(o, 0) /\ args[o].addr \in listener[args[o].sub]
    <3>1. 0 \in Answers
      BY DEF Answers, Statuses
    <3>2. args[o].addr \in listening
      BY <1>a, <2>1, <2>4, <3>1, AnswerEffect DEF IInv, Listeners
    <3>3. Holding(o)'
      BY <2>1, <2>4, <3>1, <3>2, AnswerEffect DEF Holding, IsChange
    <3> QED
      BY <1>i, <1>s, <2>1, <2>4, <3>1, <3>3, AnswerEffect DEF changeVars
  <2>5. /\ -EAGAIN \in Answers /\ -EAGAIN # 0
        /\ -EINVAL \in Answers /\ -EINVAL # 0
    BY DEF Answers, EAGAIN, EINVAL
  <2> HIDE DEF OkHolds
  <2> QED
    BY <1>5, <2>2, <2>3, <2>4, <2>5 DEF AddListener
<1>6. ASSUME NEW o \in Ops, ChangeState(o) PROVE OkHolds'
  <2>1. /\ UNCHANGED <<tgt, transport, listening, sub, listener>>
        /\ last' = [last EXCEPT ![args[o].sub] = o] /\ IsChange(o)
    BY <1>6 DEF ChangeState, targetVars
  <2>2. ASSUME NEW p \in Ops \ {o}, Holding(p), args'[p] = args[p] PROVE Holding(p)'
    BY <1>s, <1>a, <1>t, <2>1, <2>2
  <2>3. CASE Pend(o)
    BY <1>i, <1>o, <2>1, <2>2, <2>3, PendEffect
  <2>4. CASE AnswerAtOnce(o, 0) /\ sub[args[o].sub] = Asked(o)
    <3>1. 0 \in Answers
      BY DEF Answers, Statuses
    <3>2. UNCHANGED args /\ tgt = "live"
      BY <2>4, <3>1, AnswerEffect
    <3>3. Holding(o)'
      BY <2>1, <2>4, <3>2 DEF Holding, IsChange, Asked
    <3> QED
      BY <1>i, <2>1, <2>2, <2>4, <3>1, <3>3, AnswerEffect
  <2> QED
    BY <1>6, <2>3, <2>4 DEF ChangeState
<1>7. ASSUME NEW o \in Ops, NEW status \in Statuses, AddTransportDone(o, status) PROVE OkHolds'
  <2>1. /\ UNCHANGED <<tgt, listening, sub, listener, changeVars>> /\ args[o].kind = "add_transport"
        /\ transport' = [transport EXCEPT ![args[o].transport] =
                            IF status = 0 THEN "added" ELSE "lost"]
        /\ Callback(o, status)
    BY <1>7 DEF AddTransportDone
  <2>2. transport[args[o].transport] = "adding"
    BY <2>1, CallbackEffect DEF IInv, Moves, Holds
  <2>3. verdict'[o] = Ok => Holding(o)'
    BY <1>a, <1>t, <2>1, CallbackEffect DEF Holding, IsChange
  <2>4. \A t \in Transports : transport[t] = "added" => transport'[t] = "added"
    BY <1>t, <2>1, <2>2
  <2> QED
    BY <1>i, <1>s, <2>1, <2>3, <2>4, CallbackEffect DEF changeVars
<1>8. ASSUME NEW o \in Ops, NEW status \in Statuses, AddListenerDone(o, status) PROVE OkHolds'
  <2>1. /\ UNCHANGED <<tgt, transport, listening, sub, changeVars>> /\ args[o].kind = "add_listener"
        /\ listener' = IF status = 0
              THEN [listener EXCEPT ![args[o].sub] = @ \cup {args[o].addr}] ELSE listener
        /\ Callback(o, status)
    BY <1>8 DEF AddListenerDone
  <2>2. args[o].addr \in listening
    BY <2>1, CallbackEffect DEF IInv, Listeners, Known
  <2>3. verdict'[o] = Ok => Holding(o)'
    BY <1>a, <1>t, <2>1, <2>2, CallbackEffect DEF Holding, IsChange
  <2>4. \A s \in Subs : listener[s] \subseteq listener'[s]
    BY <1>t, <2>1
  <2> QED
    BY <1>i, <1>s, <2>1, <2>3, <2>4, CallbackEffect DEF changeVars
<1>9. ASSUME NEW s \in Subs, NEW status \in Statuses, ChangeStateDone(s, status) PROVE OkHolds'
  <2>1. PICK o \in Ops :
           /\ Callback(o, status) /\ IsChange(o) /\ args[o].sub = s
           /\ sub' = IF status = 0 THEN [sub EXCEPT ![s] = Asked(o)] ELSE sub
           /\ UNCHANGED <<tgt, transport, listening, listener, last>>
    BY <1>9, ChangeDoneEffect
(* The last change accepted is still to be answered. *)
  <2>2. verdict[last[s]] = None
    <3>1. Changing(s) /\ last[s] = changes[s][Len(changes[s])]
      BY <1>9 DEF ChangeStateDone, IInv, Queued, QueueLast
    <3>2. Len(changes[s]) \in 1 .. Len(changes[s]) /\ last[s] \in Ops
      BY <3>1 DEF IInv, TypeOK, Changing
    <3> QED
      BY <3>1, <3>2 DEF IInv, Queued, QueuePlace, Pairs
  <2>3. verdict'[o] = Ok => Holding(o)'
    BY <1>t, <2>1, CallbackEffect DEF Holding, IsChange, Asked
  <2>4. ASSUME NEW p \in Ops \ {o}, verdict[p] = Ok, Holding(p) PROVE Holding(p)'
    <3>1. args[p].sub = s => last[s] # p
      BY <1>o, <2>2, <2>4
    <3>2. args'[p] = args[p] /\ \A r \in Subs \ {s} : sub'[r] = sub[r]
      BY <1>t, <2>1, CallbackEffect
    <3> QED
      BY <1>s, <1>a, <2>1, <2>4, <3>1, <3>2
  <2> QED
    BY <1>i, <2>1, <2>3, <2>4, CallbackEffect
<1>10. ASSUME NEW o \in Ops, NEW errno \in Errnos, ChangeStateFails(o, errno) PROVE OkHolds'
  BY <1>i, <1>s, <1>10, FailsEffect DEF targetVars, changeVars
<1>11. ASSUME NEW o \in Ops, Resume(o) PROVE OkHolds'
  BY <1>i, <1>s, <1>11, ResumeEffect DEF targetVars, changeVars
<1>12. ASSUME NEW o \in Ops, Abandon(o) PROVE OkHolds'
  <2>1. ASSUME NEW t \in Transports, transport[t] = "added" PROVE transport'[t] = "added"
    BY <1>12, <2>1 DEF Abandon, IInv, Moves, Holds, Pairs, Idle
  <2> QED
    BY <1>i, <1>s, <1>o, <1>12, <2>1, AbandonEffect DEF changeVars
<1>13. CASE UNCHANGED vars
  BY <1>i, <1>s, <1>13 DEF vars, targetVars, changeVars, opVars
<1>14. ASSUME NEW o \in Ops, Done(o) PROVE OkHolds'
  BY <1>7, <1>8, <1>14, Zenon DEF Done
<1> HIDE DEF OkHolds
<1> QED
  BY <1>1, <1>2, <1>3, <1>4, <1>5, <1>6, <1>9, <1>10, <1>11, <1>12, <1>13, <1>14
     DEF Next, Config

(* nvmf/: the invariant of the calls, their callbacks, drops, and SPDK's   *)
(* queued changes is inductive, and so holds in every reachable state.     *)
THEOREM InvHolds == Spec => []IInv
<1>1. IInv /\ [Next]_vars => IInv'
  BY NextType, NextPairs, NextMoves, NextListeners, NextKnown, NextQueued, NextOkHolds DEF IInv
<1> QED
  BY <1>1, InitInv, PTL DEF Spec

-------------------------------------------------------------------------------
(* The variables of the target keep their types. *)
THEOREM TypeCorrect == Spec => []TypeOK
<1>1. IInv => TypeOK
  BY DEF IInv
<1> QED
  BY <1>1, InvHolds, PTL

(* target.rs:74, subsystem.rs:105-142: what add_transport, add_listener,   *)
(* start or stop told its caller has been done is so, in whatever order    *)
(* SPDK answers and futures are polled and dropped.                        *)
THEOREM OkMeansDoneHolds == Spec => []OkMeansDone
<1>1. IInv => OkMeansDone
  BY DEF IInv, Pairs, OkHolds, Holding, OkMeansDone
<1> QED
  BY <1>1, InvHolds, PTL

-------------------------------------------------------------------------------
(* A step that is not about this call leaves it as it is in AsyncOp. *)
LEMMA Stutters ==
    ASSUME NEW o \in Ops, UNCHANGED <<fut[o], result[o], verdict[o]>>
    PROVE  Async(o)!AsyncStep
BY DEF Async!AsyncStep, Async!asyncVars, Phase, Told

(* What the making of the future, its first poll, an answer in it, a       *)
(* callback, a later poll and a drop of the future are in AsyncOp.         *)
LEMMA CreateStutters ==
    ASSUME IInv, NEW o \in Ops, NEW a \in Args, Create(o, a) PROVE Async(o)!AsyncStep
BY CreateEffect DEF Async!AsyncStep, Async!asyncVars, Phase, Told

LEMMA PendBegins ==
    ASSUME IInv, NEW o \in Ops, Pend(o) PROVE Async(o)!AsyncStep
<1>1. Phase(o) = "idle" /\ Told(o) = None
  BY PendEffect DEF IInv, Pairs, Idle, Phase, Told
<1>2. Phase(o)' = "pending" /\ Told(o)' = None
  BY PendEffect DEF Phase, Told
<1> QED
  BY <1>1, <1>2 DEF Async!AsyncStep, Async!AsyncNext, Async!Begin

LEMMA AnswerRefuses ==
    ASSUME IInv, NEW o \in Ops, NEW status \in Answers, AnswerAtOnce(o, status)
    PROVE  Async(o)!AsyncStep
<1>1. Phase(o) = "idle"
  BY AnswerEffect DEF Phase
<1>2. Decode(status) \in Results
  BY DecodeType DEF Answers
<1>3. Phase(o)' = "returned" /\ Told(o)' \in Results
  BY <1>2 DEF IInv, TypeOK, AnswerAtOnce, Phase, Told
<1> QED
  BY <1>1, <1>3 DEF Async!AsyncStep, Async!AsyncNext, Async!Refuse

LEMMA CallbackDecides ==
    ASSUME IInv, NEW o \in Ops, NEW status \in Statuses, Callback(o, status)
    PROVE  Async(o)!AsyncStep
<1>0. /\ fut[o] \in {"awaiting", "dropped"} /\ verdict[o] = None /\ UNCHANGED fut
      /\ verdict'[o] = IF fut[o] = "awaiting" THEN Decode(status) ELSE None
  BY CallbackEffect
<1>1. Decode(status) \in Results /\ Decode(status) # None
  BY DecodeType, ResultsType
<1>2. CASE fut[o] = "awaiting"
  <2>1. Phase(o) = "pending" /\ Phase(o)' = "decided" /\ Told(o)' \in Results
    BY <1>0, <1>1, <1>2 DEF Phase, Told
  <2> QED
    BY <2>1 DEF Async!AsyncStep, Async!AsyncNext, Async!Decide
<1>3. CASE fut[o] = "dropped"
  BY <1>0, <1>3 DEF Async!AsyncStep, Async!asyncVars, Phase, Told
<1> QED
  BY <1>0, <1>2, <1>3

LEMMA FailsRefuses ==
    ASSUME IInv, NEW o \in Ops, NEW errno \in Errnos, ChangeStateFails(o, errno)
    PROVE  Async(o)!AsyncStep
<1>1. Phase(o) = "idle"
  BY DEF ChangeStateFails, Phase
<1>2. Phase(o)' = "returned" /\ Told(o)' \in Results
  BY ResultsType DEF IInv, TypeOK, ChangeStateFails, Phase, Told
<1> QED
  BY <1>1, <1>2 DEF Async!AsyncStep, Async!AsyncNext, Async!Refuse

LEMMA ResumeReturns ==
    ASSUME IInv, NEW o \in Ops, Resume(o) PROVE Async(o)!AsyncStep
<1>1. io[o] = "completed"
  BY NoneAssumption DEF IInv, Pairs, Resume, Resolve, Ready
<1>2. Phase(o) = "decided" /\ Told(o) = verdict[o]
  BY <1>1 DEF IInv, Pairs, Resume, Phase, Told
<1>3. Outcome(o, Cancelled) = verdict[o]
  BY <1>1 DEF IInv, Pairs, Resume, Outcome
<1>4. Phase(o)' = "returned" /\ Told(o)' = verdict[o]
  BY <1>3 DEF IInv, TypeOK, Resume, Phase, Told
<1> QED
  BY <1>2, <1>4 DEF Async!AsyncStep, Async!AsyncNext, Async!Return

LEMMA AbandonCancels ==
    ASSUME IInv, NEW o \in Ops, Abandon(o) PROVE Async(o)!AsyncStep
<1>1. Phase(o) \in {"idle", "pending", "decided"}
  BY AbandonEffect DEF Phase
<1>2. Phase(o)' = "cancelled" /\ Told(o)' = None
  BY AbandonEffect DEF Phase, Told
<1> QED
  BY <1>1, <1>2 DEF Async!AsyncStep, Async!AsyncNext, Async!Cancel

LEMMA NextRefines == IInv /\ [Next]_vars => \A o \in Ops : Async(o)!AsyncStep
<1> SUFFICES ASSUME IInv, [Next]_vars, NEW o \in Ops PROVE Async(o)!AsyncStep
  OBVIOUS
<1> USE DEF Same
<1>1. CASE UNCHANGED <<opVars, completionVars>>
  BY <1>1, Stutters DEF opVars
<1>2. ASSUME NEW p \in Ops, NEW a \in Args \ {NoArgs}, Create(p, a) PROVE Async(o)!AsyncStep
  BY <1>2, CreateEffect, CreateStutters, Stutters
<1>3. ASSUME NEW p \in Ops, Pend(p) PROVE Async(o)!AsyncStep
  BY <1>3, PendEffect, PendBegins, Stutters
<1>4. ASSUME NEW p \in Ops, NEW status \in Answers, AnswerAtOnce(p, status)
      PROVE  Async(o)!AsyncStep
  BY <1>4, AnswerEffect, AnswerRefuses, Stutters
<1>5. ASSUME NEW p \in Ops, NEW status \in Statuses, Callback(p, status)
      PROVE  Async(o)!AsyncStep
  BY <1>5, CallbackEffect, CallbackDecides, Stutters
<1>6. ASSUME NEW p \in Ops, NEW errno \in Errnos, ChangeStateFails(p, errno)
      PROVE  Async(o)!AsyncStep
  BY <1>6, FailsEffect, FailsRefuses, Stutters
<1>7. ASSUME NEW p \in Ops, Resume(p) PROVE Async(o)!AsyncStep
  <2>1. p # o => UNCHANGED <<fut[o], result[o], verdict[o]>>
    BY <1>7 DEF IInv, TypeOK, Resume
  <2> QED
    BY <1>7, <2>1, ResumeReturns, Stutters
<1>8. ASSUME NEW p \in Ops, Abandon(p) PROVE Async(o)!AsyncStep
  BY <1>8, AbandonEffect, AbandonCancels, Stutters
<1> QED
  BY Steps, <1>1, <1>2, <1>3, <1>4, <1>5, <1>6, <1>7, <1>8 DEF OpStep

(* add_transport, add_listener, start and stop keep the promise of         *)
(* AsyncOp: the caller is told SPDK's verdict, once and unchanged, whether *)
(* it comes in the first poll, from a callback or as a refusal.            *)
THEOREM Implements == Spec => ImplementsAsyncOp
<1>1. Init => \A o \in Ops : Async(o)!AsyncInit
  BY DEF Init, Async!AsyncInit, Phase, Told
<1>2. IInv /\ [Next]_vars => [\A o \in Ops : Async(o)!AsyncStep]_vars
  BY NextRefines
<1> QED
  BY <1>1, <1>2, InvHolds, PTL DEF Spec, ImplementsAsyncOp
===============================================================================
