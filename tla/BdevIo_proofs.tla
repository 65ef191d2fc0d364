----------------------------- MODULE BdevIo_proofs -----------------------------
(***************************************************************************)
(* What BdevIo guarantees for every number of operations, descriptors,     *)
(* channels and buffers, whatever SPDK answers and callers drop.           *)
(***************************************************************************)
EXTENDS BdevIo, TLAPS

(* How far a pair, an I/O and a future can be apart.  An operation that is *)
(* not submitted has nothing; while its I/O is in flight SPDK has the box  *)
(* and nobody knows the verdict; then the verdict waits in the channel, if *)
(* the future still does.                                                  *)
Idle(o) ==
    /\ io[o] = "none" /\ tx[o] = "none" /\ rx[o] = "none"
    /\ slot[o] = None /\ verdict[o] = None

Pairs ==
    \A o \in Ops :
        /\ fut[o] \in {"none", "lazy"} => Idle(o)
        /\ fut[o] = "awaiting" => io[o] \in {"inflight", "completed"} /\ rx[o] = "waiting"
        /\ fut[o] = "returned" => io[o] # "inflight"
        /\ io[o] = "inflight" => tx[o] = "raw" /\ slot[o] = None /\ verdict[o] = None
        /\ io[o] = "completed" => tx[o] = "gone" /\ verdict[o] # None
        /\ io[o] = "completed" /\ fut[o] = "awaiting" => slot[o] = verdict[o]

(* The borrow checker at work: what a live future uses is there, and a     *)
(* buffer that one of them reads into is its own.                          *)
Uses == \A o \in Ops : Alive(o) => args[o] # NoArgs /\ HandlesHeld(o)

Exclusive ==
    \A o, p \in Ops :
        o # p /\ Alive(o) /\ Alive(p) /\ args[o].buf = args[p].buf =>
            args[o].kind = "write" /\ args[p].kind = "write"

IInv == TypeOK /\ Pairs /\ Uses /\ Exclusive

-------------------------------------------------------------------------------
LEMMA ResultsType ==
    /\ None \notin Results
    /\ Ok \in Results /\ IoError \in Results /\ Cancelled \in Results
    /\ \A e \in Errnos : Os(-e) \in Results
BY NoneAssumption, ResultsAssumption DEF IoResults

LEMMA InitInv == Init => IInv
<1> SUFFICES ASSUME Init PROVE IInv
  OBVIOUS
<1>1. TypeOK
  BY DEF Init, CompletionInit, TypeOK, CompletionType, SenderStates, ReceiverStates,
     FutureStates, Args
<1>2. Pairs
  BY DEF Init, CompletionInit, Pairs, Idle
<1>3. Uses /\ Exclusive
  BY DEF Init, Uses, Exclusive, Alive
<1> QED
  BY <1>1, <1>2, <1>3 DEF IInv

LEMMA NextType == TypeOK /\ [Next]_vars => TypeOK'
<1> SUFFICES ASSUME TypeOK, [Next]_vars PROVE TypeOK'
  OBVIOUS
<1> USE DEF TypeOK, CompletionType, SenderStates, ReceiverStates, FutureStates,
        handleVars, ioVars, completionVars
<1>1. ASSUME NEW d \in Descs, Open(d) \/ CloseDesc(d) PROVE TypeOK'
  BY <1>1 DEF Open, CloseDesc
<1>2. ASSUME NEW c \in Chans, NEW d \in Descs, GetChannel(c, d) PROVE TypeOK'
  BY <1>2 DEF GetChannel
<1>3. ASSUME NEW c \in Chans, PutChannel(c) PROVE TypeOK'
  BY <1>3 DEF PutChannel
<1>4. ASSUME NEW b \in Bufs, Alloc(b) \/ FreeBuf(b) PROVE TypeOK'
  BY <1>4 DEF Alloc, FreeBuf
<1>5. CASE Remove
  BY <1>5 DEF Remove
<1>6. ASSUME NEW o \in Ops, NEW kind \in {"read", "write"}, NEW d \in Descs, NEW c \in Chans,
             NEW b \in Bufs, Create(o, kind, d, c, b)
      PROVE  TypeOK'
  <2>1. [kind |-> kind, desc |-> d, chan |-> c, buf |-> b] \in Args
    BY DEF Args
  <2> QED
    BY <1>6, <2>1 DEF Create
<1>7. ASSUME NEW o \in Ops, Submit(o) PROVE TypeOK'
  BY <1>7 DEF Submit, NewPair
<1>8. ASSUME NEW o \in Ops, Resume(o) PROVE TypeOK'
  <2>1. Outcome(o, Cancelled) \in Results
    BY ResultsType DEF Outcome
  <2> QED
    BY <1>8, <2>1 DEF Resume, Resolve
<1>9. ASSUME NEW o \in Ops, Abandon(o) PROVE TypeOK'
  BY <1>9 DEF Abandon, DropReceiver
<1>10. ASSUME NEW o \in Ops, NEW errno \in Errnos, SubmitFails(o, errno) PROVE TypeOK'
  <2>1. Os(-errno) \in Results
    BY ResultsType
  <2> QED
    BY <1>10, <2>1 DEF SubmitFails
<1>11. ASSUME NEW o \in Ops, NEW success \in BOOLEAN, Complete(o, success) PROVE TypeOK'
  <2> DEFINE said == IF success THEN Ok ELSE IoError
  <2>1. said \in Results
    BY ResultsType
  <2> HIDE DEF said
  <2>2. Deliver(o, said) /\ verdict' = [verdict EXCEPT ![o] = said]
    BY <1>11 DEF Complete, said
  <2> QED
    BY <1>11, <2>1, <2>2 DEF Complete, Deliver
<1>12. CASE UNCHANGED vars
  BY <1>12 DEF vars
<1> QED
  BY <1>1, <1>2, <1>3, <1>4, <1>5, <1>6, <1>7, <1>8, <1>9, <1>10, <1>11, <1>12 DEF Next

-------------------------------------------------------------------------------
(* Opening, closing, allocating and removing touch no operation. *)
Handles ==
    \/ \E d \in Descs : Open(d) \/ CloseDesc(d)
    \/ \E c \in Chans, d \in Descs : GetChannel(c, d)
    \/ \E c \in Chans : PutChannel(c)
    \/ \E b \in Bufs : Alloc(b) \/ FreeBuf(b)
    \/ Remove

LEMMA HandlesKeepIo == Handles => UNCHANGED <<ioVars, completionVars>>
BY DEF Handles, Open, CloseDesc, GetChannel, PutChannel, Alloc, FreeBuf, Remove

LEMMA NextPairs == TypeOK /\ Pairs /\ [Next]_vars => Pairs'
<1> SUFFICES ASSUME TypeOK, Pairs, [Next]_vars PROVE Pairs'
  OBVIOUS
<1> USE DEF TypeOK, CompletionType, Pairs, Idle, completionVars
<1>1. CASE Handles
  BY <1>1, HandlesKeepIo DEF ioVars
<1>2. ASSUME NEW o \in Ops, NEW kind \in {"read", "write"}, NEW d \in Descs, NEW c \in Chans,
             NEW b \in Bufs, Create(o, kind, d, c, b)
      PROVE  Pairs'
  BY <1>2 DEF Create
<1>3. ASSUME NEW o \in Ops, Submit(o) PROVE Pairs'
  BY <1>3 DEF Submit, NewPair
<1>4. ASSUME NEW o \in Ops, Resume(o) PROVE Pairs'
  BY <1>4 DEF Resume, Resolve, Ready
<1>5. ASSUME NEW o \in Ops, Abandon(o) PROVE Pairs'
  BY <1>5 DEF Abandon, DropReceiver
<1>6. ASSUME NEW o \in Ops, NEW errno \in Errnos, SubmitFails(o, errno) PROVE Pairs'
  BY <1>6 DEF SubmitFails
<1>7. ASSUME NEW o \in Ops, NEW success \in BOOLEAN, Complete(o, success) PROVE Pairs'
  <2> DEFINE said == IF success THEN Ok ELSE IoError
  <2>1. said # None
    BY ResultsType
  <2> HIDE DEF said
  <2>2. Deliver(o, said) /\ verdict' = [verdict EXCEPT ![o] = said]
    BY <1>7 DEF Complete, said
  <2> QED
    BY <1>7, <2>1, <2>2 DEF Complete, Deliver
<1>8. CASE UNCHANGED vars
  BY <1>8 DEF vars, ioVars
<1> QED
  BY <1>1, <1>2, <1>3, <1>4, <1>5, <1>6, <1>7, <1>8 DEF Next, Handles

(* The arguments of a live future are a descriptor, a channel and a buffer. *)
LEMMA Arguments ==
    ASSUME TypeOK, NEW o \in Ops, args[o] # NoArgs
    PROVE  /\ args[o].kind \in {"read", "write"} /\ args[o].desc \in Descs
           /\ args[o].chan \in Chans /\ args[o].buf \in Bufs
BY DEF TypeOK, Args

LEMMA NextUses == IInv /\ [Next]_vars => (Uses /\ Exclusive)'
<1> SUFFICES ASSUME IInv, [Next]_vars PROVE (Uses /\ Exclusive)'
  OBVIOUS
<1> USE DEF IInv, Uses, Exclusive, handleVars, ioVars
(* A handle that is closed, put or freed is borrowed by nobody. *)
<1>1. CASE Handles
  <2>1. Exclusive'
    BY <1>1, HandlesKeepIo DEF Alive
  <2>2. ASSUME NEW o \in Ops, Alive(o)' PROVE (args[o] # NoArgs /\ HandlesHeld(o))'
    <3>1. Alive(o) /\ args' = args /\ args[o] # NoArgs /\ HandlesHeld(o)
      BY <1>1, <2>2, HandlesKeepIo DEF Alive
    <3>2. /\ args[o].kind \in {"read", "write"} /\ args[o].desc \in Descs
          /\ args[o].chan \in Chans /\ args[o].buf \in Bufs
      BY <3>1, Arguments
    <3>3. desc'[args[o].desc] = "open"
      BY <1>1, <3>1, <3>2 DEF Handles, Open, CloseDesc, GetChannel, PutChannel, Alloc, FreeBuf,
         Remove, HandlesHeld, Borrowed, TypeOK
    <3>4. chan'[args[o].chan] = "held"
      BY <1>1, <3>1, <3>2 DEF Handles, Open, CloseDesc, GetChannel, PutChannel, Alloc, FreeBuf,
         Remove, HandlesHeld, Borrowed, TypeOK
    <3>5. buf'[args[o].buf] = "live"
      BY <1>1, <3>1, <3>2 DEF Handles, Open, CloseDesc, GetChannel, PutChannel, Alloc, FreeBuf,
         Remove, HandlesHeld, Borrowed, TypeOK
    <3> QED
      BY <3>1, <3>3, <3>4, <3>5 DEF HandlesHeld
  <2> QED
    BY <2>1, <2>2
<1>2. ASSUME NEW o \in Ops, NEW kind \in {"read", "write"}, NEW d \in Descs, NEW c \in Chans,
             NEW b \in Bufs, Create(o, kind, d, c, b)
      PROVE  (Uses /\ Exclusive)'
  <2> DEFINE new == [kind |-> kind, desc |-> d, chan |-> c, buf |-> b]
  <2>1. new # NoArgs /\ new.kind = kind /\ new.desc = d /\ new.chan = c /\ new.buf = b
    BY DEF NoArgs
  <2> HIDE DEF new
  <2>2. /\ UNCHANGED handleVars /\ args'[o] = new /\ BufferFree(kind, b)
        /\ \A p \in Ops \ {o} : args'[p] = args[p] /\ (Alive(p)' => Alive(p))
        /\ desc[d] = "open" /\ chan[c] = "held" /\ buf[b] = "live"
    BY <1>2 DEF Create, Alive, TypeOK, new
  <2>3. Uses'
    BY <2>1, <2>2 DEF HandlesHeld
  <2>4. Exclusive'
    BY <2>1, <2>2 DEF BufferFree
  <2> QED
    BY <2>3, <2>4
(* All other steps let no future come to life. *)
<1>3. ASSUME UNCHANGED <<handleVars, args>>, \A o \in Ops : Alive(o)' => Alive(o)
      PROVE  (Uses /\ Exclusive)'
  BY <1>3 DEF HandlesHeld
<1>4. ASSUME NEW o \in Ops, Submit(o) \/ Resume(o) \/ Abandon(o) PROVE (Uses /\ Exclusive)'
  BY <1>3, <1>4 DEF Submit, Resume, Abandon, Alive, TypeOK
<1>5. ASSUME NEW o \in Ops, NEW errno \in Errnos, SubmitFails(o, errno)
      PROVE  (Uses /\ Exclusive)'
  BY <1>3, <1>5 DEF SubmitFails, Alive, TypeOK
<1>6. ASSUME NEW o \in Ops, NEW success \in BOOLEAN, Complete(o, success)
      PROVE  (Uses /\ Exclusive)'
  BY <1>3, <1>6 DEF Complete, Alive
<1>7. CASE UNCHANGED vars
  BY <1>3, <1>7 DEF vars, Alive
<1> QED
  BY <1>1, <1>2, <1>4, <1>5, <1>6, <1>7 DEF Next, Handles

(* bdev.rs:259-366: the invariant of read, write, their callback and the  *)
(* drops is inductive, and so holds in every reachable state.              *)
THEOREM InvHolds == Spec => []IInv
<1>1. IInv /\ [Next]_vars => IInv'
  BY NextType, NextPairs, NextUses DEF IInv
<1> QED
  BY <1>1, InitInv, PTL DEF Spec

-------------------------------------------------------------------------------
(* The variables of block device I/O keep their types. *)
THEOREM TypeCorrect == Spec => []TypeOK
<1>1. IInv => TypeOK
  BY DEF IInv
<1> QED
  BY <1>1, InvHolds, PTL

(* bdev.rs:348: the callback finds its box, and takes it, once. *)
THEOREM FromRawOnceHolds == Spec => []FromRawOnce
<1>1. IInv => FromRawOnce
  BY DEF IInv, Pairs, FromRawOnce
<1> QED
  BY <1>1, InvHolds, PTL

(* docs/design/memory.md:69: while its future is awaited, an I/O has its   *)
(* descriptor, its channel and its memory.                                 *)
THEOREM AwaitedIoCoveredHolds == Spec => []AwaitedIoCovered
<1>1. ASSUME IInv PROVE AwaitedIoCovered
  <2>1. ASSUME NEW o \in Ops, io[o] = "inflight", fut[o] = "awaiting"
        PROVE  HandlesHeld(o)
    BY <1>1, <2>1 DEF IInv, Uses, Alive
  <2>2. ASSUME NEW o \in Ops, NEW p \in Ops, fut[o] = "awaiting", Clash(o, p)
        PROVE  fut[p] = "dropped"
    <3>1. fut[p] \in {"awaiting", "dropped"}
      BY <1>1, <2>2 DEF IInv, Pairs, Idle, Clash, TypeOK, FutureStates
    <3>2. fut[p] # "awaiting"
      BY <1>1, <2>2 DEF IInv, Exclusive, Alive, Clash
    <3> QED
      BY <3>1, <3>2
  <2> QED
    BY <2>1, <2>2 DEF AwaitedIoCovered
<1> QED
  BY <1>1, InvHolds, PTL

-------------------------------------------------------------------------------
(* A step of another operation leaves this one as it is in AsyncOp. *)
LEMMA Stutters ==
    ASSUME NEW o \in Ops, UNCHANGED <<fut[o], result[o], verdict[o]>>
    PROVE  Async(o)!AsyncStep
BY DEF Async!AsyncStep, Async!asyncVars, Phase, Told

(* What the first poll, a callback, a later poll and a drop of the future  *)
(* are in AsyncOp.                                                         *)
LEMMA SubmitBegins ==
    ASSUME IInv, NEW o \in Ops, Submit(o) PROVE Async(o)!AsyncStep
<1>1. Phase(o) = "idle" /\ Told(o) = None
  BY DEF IInv, Pairs, Idle, Submit, Phase, Told
<1>2. Phase(o)' = "pending" /\ Told(o)' = None
  BY DEF IInv, TypeOK, Pairs, Idle, Submit, Phase, Told
<1> QED
  BY <1>1, <1>2 DEF Async!AsyncStep, Async!AsyncNext, Async!Begin

LEMMA SubmitFailsRefuses ==
    ASSUME IInv, NEW o \in Ops, NEW errno \in Errnos, SubmitFails(o, errno)
    PROVE  Async(o)!AsyncStep
<1>1. Phase(o) = "idle"
  BY DEF SubmitFails, Phase
<1>2. Phase(o)' = "returned" /\ Told(o)' \in Results
  BY ResultsType DEF IInv, TypeOK, SubmitFails, Phase, Told
<1> QED
  BY <1>1, <1>2 DEF Async!AsyncStep, Async!AsyncNext, Async!Refuse

LEMMA CompleteDecides ==
    ASSUME IInv, NEW o \in Ops, NEW success \in BOOLEAN, Complete(o, success)
    PROVE  Async(o)!AsyncStep
<1>1. CASE fut[o] = "awaiting"
  <2>1. Phase(o) = "pending"
    BY <1>1 DEF IInv, Pairs, Complete, Phase
  <2>2. verdict'[o] \in Results /\ fut'[o] = "awaiting"
    BY <1>1, ResultsType DEF IInv, TypeOK, Complete
  <2>3. Phase(o)' = "decided" /\ Told(o)' \in Results
    BY <2>2, ResultsType DEF Phase, Told
  <2> QED
    BY <2>1, <2>3 DEF Async!AsyncStep, Async!AsyncNext, Async!Decide
<1>2. CASE fut[o] = "dropped"
  BY <1>2 DEF Complete, Async!AsyncStep, Async!asyncVars, Phase, Told
<1> QED
  BY <1>1, <1>2 DEF IInv, TypeOK, FutureStates, Pairs, Idle, Complete

LEMMA ResumeReturns ==
    ASSUME IInv, NEW o \in Ops, Resume(o) PROVE Async(o)!AsyncStep
<1>1. io[o] = "completed"
  BY DEF IInv, Pairs, Resume, Resolve, Ready
<1>2. Phase(o) = "decided" /\ Told(o) = verdict[o]
  BY <1>1 DEF IInv, Pairs, Resume, Phase, Told
<1>3. Outcome(o, Cancelled) = verdict[o]
  BY <1>1 DEF IInv, Pairs, Resume, Outcome
<1>4. Phase(o)' = "returned" /\ Told(o)' = verdict[o]
  BY <1>3 DEF IInv, TypeOK, Resume, Phase, Told
<1> QED
  BY <1>2, <1>4 DEF Async!AsyncStep, Async!AsyncNext, Async!Return

LEMMA AbandonCancels ==
    ASSUME IInv, NEW o \in Ops, Abandon(o) PROVE Async(o)!AsyncStep
<1>1. Phase(o) \in {"idle", "pending", "decided"}
  BY DEF Abandon, Phase
<1>2. Phase(o)' = "cancelled" /\ Told(o)' = None
  BY DEF IInv, TypeOK, Abandon, Phase, Told
<1> QED
  BY <1>1, <1>2 DEF Async!AsyncStep, Async!AsyncNext, Async!Cancel

LEMMA NextRefines == IInv /\ [Next]_vars => \A o \in Ops : Async(o)!AsyncStep
<1> SUFFICES ASSUME IInv, [Next]_vars, NEW o \in Ops PROVE Async(o)!AsyncStep
  OBVIOUS
<1> USE DEF IInv, TypeOK
<1>1. CASE Handles
  BY <1>1, HandlesKeepIo, Stutters DEF ioVars
<1>2. ASSUME NEW p \in Ops, NEW kind \in {"read", "write"}, NEW d \in Descs, NEW c \in Chans,
             NEW b \in Bufs, Create(p, kind, d, c, b)
      PROVE  Async(o)!AsyncStep
  <2>1. CASE o = p
    BY <1>2, <2>1 DEF Create, Async!AsyncStep, Async!asyncVars, Phase, Told
  <2> QED
    BY <1>2, <2>1, Stutters DEF Create
<1>3. ASSUME NEW p \in Ops, Submit(p) PROVE Async(o)!AsyncStep
  BY <1>3, SubmitBegins, Stutters DEF Submit
<1>4. ASSUME NEW p \in Ops, Resume(p) PROVE Async(o)!AsyncStep
  BY <1>4, ResumeReturns, Stutters DEF Resume
<1>5. ASSUME NEW p \in Ops, Abandon(p) PROVE Async(o)!AsyncStep
  BY <1>5, AbandonCancels, Stutters DEF Abandon
<1>6. ASSUME NEW p \in Ops, NEW errno \in Errnos, SubmitFails(p, errno)
      PROVE  Async(o)!AsyncStep
  BY <1>6, SubmitFailsRefuses, Stutters DEF SubmitFails
<1>7. ASSUME NEW p \in Ops, NEW success \in BOOLEAN, Complete(p, success)
      PROVE  Async(o)!AsyncStep
  BY <1>7, CompleteDecides, Stutters DEF Complete
<1>8. CASE UNCHANGED vars
  BY <1>8, Stutters DEF vars, ioVars
<1> QED
  BY <1>1, <1>2, <1>3, <1>4, <1>5, <1>6, <1>7, <1>8 DEF Next, Handles

(* bdev.rs:299-363: every read and write keeps the promise of AsyncOp: the *)
(* caller is told SPDK's verdict or refusal, once and unchanged, unless it *)
(* drops the future.                                                       *)
THEOREM Implements == Spec => ImplementsAsyncOp
<1>1. Init => \A o \in Ops : Async(o)!AsyncInit
  BY DEF Init, Async!AsyncInit, Phase, Told
<1>2. IInv /\ [Next]_vars => [\A o \in Ops : Async(o)!AsyncStep]_vars
  BY NextRefines
<1> QED
  BY <1>1, <1>2, InvHolds, PTL DEF Spec, ImplementsAsyncOp
===============================================================================
