------------------------------ MODULE Nvme_proofs ------------------------------
(***************************************************************************)
(* What the two models of the NVMe driver guarantee: NvmeIo for every      *)
(* number of operations, queue pairs and buffers, every depth of the queue *)
(* pairs and every status a device reports; NvmeConnect for every number   *)
(* of OS threads and connects, however their polls nest them and whichever *)
(* controllers they find.                                                  *)
(***************************************************************************)
EXTENDS NvmeIo, NvmeConnect, SequenceTheorems, FiniteSetTheorems, TLAPS

-------------------------------------------------------------------------------
(* I/O: NvmeIo.                                                            *)

(* How far a pair, an I/O and a future can be apart.  An operation that is *)
(* not submitted has nothing; while its I/O is in flight the driver has    *)
(* the box; once the device has posted, its word says the verdict; then    *)
(* the verdict waits in the channel, if the future still does.             *)
Idle(o) ==
    /\ io[o] = "none" /\ tx[o] = "none" /\ rx[o] = "none"
    /\ slot[o] = None /\ verdict[o] = None

Pairs ==
    \A o \in Ops :
        /\ fut[o] \in {"none", "lazy"} => Idle(o)
        /\ fut[o] = "awaiting" => io[o] \in {"submitted", "posted", "completed"} /\ rx[o] = "waiting"
        /\ fut[o] = "returned" => ~InFlight(o)
        /\ InFlight(o) => tx[o] = "raw" /\ slot[o] = None
        /\ io[o] = "submitted" => verdict[o] = None
        /\ io[o] = "posted" => verdict[o] # None /\ verdict[o] = Decode(word[o])
        /\ io[o] = "completed" => tx[o] = "gone" /\ verdict[o] # None
        /\ io[o] = "completed" /\ fut[o] = "awaiting" => slot[o] = verdict[o]

(* A completion queue holds operations whose status is posted, each once,  *)
(* and each in the queue of its own queue pair.                            *)
Queued ==
    \A q \in Qpairs : \A i \in 1 .. Len(cq[q]) :
        /\ io[cq[q][i]] = "posted" /\ args[cq[q][i]].qpair = q
        /\ \A j \in 1 .. Len(cq[q]) : cq[q][i] = cq[q][j] => i = j

(* The borrow checker at work: what a live future uses is there, and a     *)
(* buffer that one of them reads into is its own.                          *)
Uses ==
    \A o \in Ops :
        /\ fut[o] # "none" => args[o] # NoArgs
        /\ Alive(o) =>
              ctrlr = "up" /\ qpair[args[o].qpair] = "live" /\ buf[args[o].buf] = "live"

Exclusive ==
    \A o, p \in Ops :
        o # p /\ Alive(o) /\ Alive(p) /\ args[o].buf = args[p].buf =>
            args[o].kind = "write" /\ args[p].kind = "write"

IInv == TypeOK /\ Pairs /\ Queued /\ Uses /\ Exclusive /\ DropsSettleIo

-------------------------------------------------------------------------------
(* namespace.rs:208-217: shifting and masking the status word gives back   *)
(* what the device put into it, whatever the phase tag and the retry bits. *)
THEOREM RawWordRead ==
    ASSUME NEW s \in StatusType
    PROVE  RawWord(s) \in 0 .. MaxWord /\ Decode(RawWord(s)) = Meaning(s)
<1> DEFINE p == s.p  sc == s.sc  sct == s.sct  hint == s.hint
           raw == p + 2 * sc + 512 * sct + 4096 * hint
<1>1. p \in 0 .. 1 /\ sc \in 0 .. 255 /\ sct \in 0 .. 7 /\ hint \in 0 .. 15
  BY DEF StatusType
<1>2. RawWord(s) = raw
  BY Zenon DEF RawWord
<1>3. Meaning(s) = IF sct = 0 /\ sc = 0 THEN Ok ELSE NvmeError(sct, sc)
  BY Zenon DEF Meaning
<1> HIDE DEF p, sc, sct, hint
<1>4. raw \in Int /\ 0 <= raw /\ raw <= 65535
  BY <1>1
<1>5. (raw \div 512) % 8 = sct
  <2>1. raw \div 512 = sct + 8 * hint
    BY <1>1
  <2> QED
    BY <1>1, <2>1
<1>6. (raw \div 2) % 256 = sc
  <2>1. raw \div 2 = sc + 256 * (sct + 8 * hint)
    BY <1>1
  <2>2. sct + 8 * hint \in Int
    BY <1>1
  <2> QED
    BY <1>1, <2>1, <2>2
<1> HIDE DEF raw
<1>m. MaxWord \in Int /\ 65535 <= MaxWord
  BY DEF MaxWord
<1>7. raw \in 0 .. MaxWord
  BY <1>4, <1>m
<1>8. Decode(raw) = IF sct = 0 /\ sc = 0 THEN Ok ELSE NvmeError(sct, sc)
  BY <1>5, <1>6, Zenon DEF Decode
<1> QED
  BY <1>2, <1>3, <1>7, <1>8, Zenon

LEMMA ResultsType ==
    /\ None \notin Results
    /\ Cancelled \in Results
    /\ \A e \in Errnos : Os(e) \in Results
    /\ \A s \in Statuses : Meaning(s) \in Results
    /\ Meaning(Aborted) \in Results
BY NoneAssumption, ResultsAssumption

LEMMA AbortedRead == Aborted \in StatusType /\ Decode(RawWord(Aborted)) = Meaning(Aborted)
<1>1. Aborted \in StatusType
  BY DEF Aborted, StatusType
<1> QED
  BY <1>1, RawWordRead, Zenon

LEMMA InitInv == Init => IInv
<1> SUFFICES ASSUME Init PROVE IInv
  OBVIOUS
<1>0. 0 \in 0 .. MaxWord
  BY DEF MaxWord
<1>1. TypeOK
  BY <1>0 DEF Init, CompletionInit, TypeOK, CompletionType, SenderStates, ReceiverStates,
     QpairStates, FutureStates, IoStates, Args
<1>2. Pairs
  BY DEF Init, CompletionInit, Pairs, Idle, InFlight
<1>3. Queued /\ Uses /\ Exclusive
  BY DEF Init, Queued, Uses, Exclusive, Alive
<1>4. DropsSettleIo
  BY DEF Init, DropsSettleIo, Outstanding, InFlight
<1> QED
  BY <1>1, <1>2, <1>3, <1>4 DEF IInv

(* The arguments of a future are a queue pair and a buffer. *)
LEMMA Arguments ==
    ASSUME TypeOK, NEW o \in Ops, args[o] # NoArgs
    PROVE  args[o].kind \in {"read", "write"} /\ args[o].qpair \in Qpairs /\ args[o].buf \in Bufs
BY DEF TypeOK, Args

(* Whatever is in flight is of a queue pair.                               *)
LEMMA InFlightArgs ==
    ASSUME IInv, NEW o \in Ops, InFlight(o)
    PROVE  args[o].qpair \in Qpairs /\ o \in Outstanding(args[o].qpair)
<1>1. args[o] # NoArgs
  BY DEF IInv, Pairs, Uses, Idle, InFlight
<1> QED
  BY <1>1, Arguments DEF IInv, Outstanding
-------------------------------------------------------------------------------
(* Freeing queue pairs calls back all that is in flight on them; none of   *)
(* it is awaited.                                                          *)
OnFreed(freed) == {o \in Ops : InFlight(o) /\ args[o].qpair \in freed}

Frees(freed) ==
    /\ AbortOn(freed)
    /\ \A o \in Ops : Alive(o) => args[o].qpair \notin freed
    /\ \A q \in Qpairs \ freed : qpair'[q] = qpair[q]
    /\ UNCHANGED <<buf, fut, args, word, result, rx>>

LEMMA DropQpairFrees ==
    ASSUME IInv, NEW q \in Qpairs, DropQpair(q) PROVE Frees({q}) /\ UNCHANGED ctrlr
BY DEF IInv, TypeOK, DropQpair, FreeQpair, Frees

LEMMA DetachFrees ==
    ASSUME IInv, Detach
    PROVE  \E freed \in SUBSET Qpairs : Frees(freed) /\ \A q \in freed : qpair[q] = "live"
<1> DEFINE freed == {q \in Qpairs : qpair[q] = "live"}
<1>1. Frees(freed)
  BY DEF IInv, TypeOK, Detach, Frees
<1> QED
  BY <1>1

LEMMA FreesEffect ==
    ASSUME IInv, NEW freed \in SUBSET Qpairs, Frees(freed)
    PROVE  LET done == OnFreed(freed) IN
           /\ \A o \in done : fut[o] = "dropped"
           /\ tx' = [o \in Ops |-> IF o \in done THEN "gone" ELSE tx[o]]
           /\ slot' = [o \in Ops |->
                 IF o \in done /\ rx[o] = "waiting" THEN Meaning(Aborted) ELSE slot[o]]
           /\ io' = [o \in Ops |-> IF o \in done THEN "completed" ELSE io[o]]
           /\ verdict' = [o \in Ops |-> IF o \in done THEN Meaning(Aborted) ELSE verdict[o]]
           /\ cq' = [q \in Qpairs |-> IF q \in freed THEN <<>> ELSE cq[q]]
<1> DEFINE done == UNION {Outstanding(q) : q \in freed}
           said == Decode(RawWord(Aborted))
<1>1. done = OnFreed(freed)
  BY DEF Outstanding, OnFreed
<1>2. ASSUME NEW o \in OnFreed(freed) PROVE fut[o] = "dropped"
  BY <1>2 DEF IInv, TypeOK, FutureStates, Frees, OnFreed, Pairs, Idle, InFlight, Alive
<1>3. said = Meaning(Aborted)
  BY AbortedRead, Zenon
<1>4. /\ Callbacks(done, [o \in done |-> said])
      /\ verdict' = [o \in Ops |-> IF o \in done THEN Meaning(Aborted) ELSE verdict[o]]
      /\ cq' = [q \in Qpairs |-> IF q \in freed THEN <<>> ELSE cq[q]]
  BY Zenon DEF Frees, AbortOn
<1> HIDE DEF done, said
<1> QED
  BY <1>1, <1>2, <1>3, <1>4 DEF Callbacks

(* process_completions takes posted operations off the head of the queue,  *)
(* and delivers what their words say.                                      *)
LEMMA ProcessEffect ==
    ASSUME IInv, NEW q \in Qpairs, NEW max \in 0 .. 1, ProcessCompletions(q, max)
    PROVE  \E n \in 1 .. Len(cq[q]) : LET done == {cq[q][i] : i \in 1 .. n} IN
           /\ done \subseteq Ops
           /\ \A o \in done : io[o] = "posted"
           /\ tx' = [o \in Ops |-> IF o \in done THEN "gone" ELSE tx[o]]
           /\ slot' = [o \in Ops |->
                 IF o \in done /\ rx[o] = "waiting" THEN verdict[o] ELSE slot[o]]
           /\ io' = [o \in Ops |-> IF o \in done THEN "completed" ELSE io[o]]
           /\ cq' = [cq EXCEPT ![q] = SubSeq(@, n + 1, Len(@))]
           /\ UNCHANGED <<handleVars, fut, args, word, result, verdict, rx>>
<1> DEFINE n == IF max = 0 \/ max > Len(cq[q]) THEN Len(cq[q]) ELSE max
           done == {cq[q][i] : i \in 1 .. n}
<1>1. cq[q] \in Seq(Ops)
  BY DEF IInv, TypeOK
<1>2. n \in 1 .. Len(cq[q])
  BY <1>1 DEF ProcessCompletions
<1>3. /\ Callbacks(done, [o \in done |-> Decode(word[o])])
      /\ cq' = [cq EXCEPT ![q] = SubSeq(@, n + 1, Len(@))]
      /\ UNCHANGED <<handleVars, fut, args, word, result, verdict, rx>>
  BY Zenon DEF ProcessCompletions
<1> HIDE DEF n
<1>4. done \subseteq Ops /\ \A o \in done : io[o] = "posted"
  BY <1>1, <1>2 DEF IInv, Queued
<1>5. \A o \in done : verdict[o] = Decode(word[o])
  BY <1>4 DEF IInv, Pairs
<1> HIDE DEF done
<1>6. slot' = [o \in Ops |-> IF o \in done /\ rx[o] = "waiting" THEN verdict[o] ELSE slot[o]]
  BY <1>3, <1>4, <1>5 DEF Callbacks
<1>7. /\ tx' = [o \in Ops |-> IF o \in done THEN "gone" ELSE tx[o]]
      /\ io' = [o \in Ops |-> IF o \in done THEN "completed" ELSE io[o]]
  BY <1>3 DEF Callbacks
<1> QED
  BY <1>2, <1>3, <1>4, <1>6, <1>7 DEF done

(* Allocating changes no operation. *)
Handles ==
    \/ \E q \in Qpairs : AllocQpair(q)
    \/ \E b \in Bufs : Alloc(b) \/ FreeBuf(b)

LEMMA HandlesKeepIo == Handles => UNCHANGED <<ioVars, completionVars>>
BY DEF Handles, AllocQpair, Alloc, FreeBuf

-------------------------------------------------------------------------------
LEMMA NextType == IInv /\ [Next]_vars => TypeOK'
<1> SUFFICES ASSUME IInv, [Next]_vars PROVE TypeOK'
  OBVIOUS
<1> USE DEF IInv, TypeOK, CompletionType, SenderStates, ReceiverStates, FutureStates,
        QpairStates, IoStates, handleVars, ioVars, completionVars
<1>1. CASE Handles
  <2>1. ASSUME NEW q \in Qpairs, AllocQpair(q) PROVE TypeOK'
    BY <2>1 DEF AllocQpair
  <2>2. ASSUME NEW b \in Bufs, Alloc(b) \/ FreeBuf(b) PROVE TypeOK'
    BY <2>2 DEF Alloc, FreeBuf
  <2> QED
    BY <1>1, <2>1, <2>2 DEF Handles
<1>2. ASSUME NEW freed \in SUBSET Qpairs, Frees(freed)
      PROVE  /\ CompletionType' /\ io' \in [Ops -> IoStates] /\ cq' \in [Qpairs -> Seq(Ops)]
             /\ verdict' \in [Ops -> Results \cup {None}]
             /\ buf' \in [Bufs -> {"none", "live", "freed"}]
             /\ fut' \in [Ops -> FutureStates] /\ args' \in [Ops -> Args]
             /\ word' \in [Ops -> 0 .. MaxWord] /\ result' \in [Ops -> Results \cup {None}]
  <2> DEFINE said == Meaning(Aborted)
             done == OnFreed(freed)
  <2>1. said \in Results
    BY ResultsType
  <2>2. /\ tx' = [o \in Ops |-> IF o \in done THEN "gone" ELSE tx[o]]
        /\ slot' = [o \in Ops |-> IF o \in done /\ rx[o] = "waiting" THEN said ELSE slot[o]]
        /\ io' = [o \in Ops |-> IF o \in done THEN "completed" ELSE io[o]]
        /\ verdict' = [o \in Ops |-> IF o \in done THEN said ELSE verdict[o]]
        /\ cq' = [q \in Qpairs |-> IF q \in freed THEN <<>> ELSE cq[q]]
    BY <1>2, FreesEffect
  <2> HIDE DEF said, done
  <2>3. cq' \in [Qpairs -> Seq(Ops)]
    BY <2>2
  <2> QED
    BY <1>2, <2>1, <2>2, <2>3 DEF Frees
<1>3. ASSUME NEW q \in Qpairs, DropQpair(q) PROVE TypeOK'
  <2>1. Frees({q}) /\ UNCHANGED ctrlr
    BY <1>3, DropQpairFrees
  <2>2. qpair' \in [Qpairs -> QpairStates]
    BY <1>3 DEF DropQpair
  <2> QED
    BY <1>2, <2>1, <2>2
<1>4. CASE Detach
  <2>1. ctrlr' = "detached" /\ qpair' \in [Qpairs -> QpairStates]
    BY <1>4 DEF Detach
  <2> QED
    BY <1>2, <1>4, <2>1, DetachFrees
<1>5. ASSUME NEW o \in Ops, NEW kind \in {"read", "write"}, NEW q \in Qpairs, NEW b \in Bufs,
             Create(o, kind, q, b)
      PROVE  TypeOK'
  <2>1. [kind |-> kind, qpair |-> q, buf |-> b] \in Args
    BY DEF Args
  <2> QED
    BY <1>5, <2>1 DEF Create
<1>6. ASSUME NEW o \in Ops, Submit(o) PROVE TypeOK'
  BY <1>6 DEF Submit, NewPair
<1>7. ASSUME NEW o \in Ops, Resume(o) PROVE TypeOK'
  <2>1. Outcome(o, Cancelled) \in Results
    BY ResultsType DEF Outcome
  <2> QED
    BY <1>7, <2>1 DEF Resume, Resolve
<1>8. ASSUME NEW o \in Ops, Abandon(o) PROVE TypeOK'
  BY <1>8 DEF Abandon, DropReceiver
<1>9. ASSUME NEW o \in Ops, NEW errno \in Errnos, SubmitFails(o, errno) PROVE TypeOK'
  <2>1. Os(errno) \in Results
    BY ResultsType
  <2> QED
    BY <1>9, <2>1 DEF SubmitFails
<1>10. ASSUME NEW o \in Ops, NEW s \in Statuses, Post(o, s) PROVE TypeOK'
  <2>1. RawWord(s) \in 0 .. MaxWord /\ Meaning(s) \in Results
    BY StatusesAssumption, RawWordRead, ResultsType
  <2>2. args[o].qpair \in Qpairs /\ cq[args[o].qpair] \in Seq(Ops)
    BY <1>10, InFlightArgs DEF Post, InFlight
  <2>3. cq' \in [Qpairs -> Seq(Ops)]
    BY <1>10, <2>2 DEF Post
  <2> QED
    BY <1>10, <2>1, <2>3 DEF Post
<1>11. ASSUME NEW q \in Qpairs, NEW max \in 0 .. 1, ProcessCompletions(q, max) PROVE TypeOK'
  <2>1. PICK n \in 1 .. Len(cq[q]) : LET done == {cq[q][i] : i \in 1 .. n} IN
           /\ done \subseteq Ops
           /\ \A o \in done : io[o] = "posted"
           /\ tx' = [o \in Ops |-> IF o \in done THEN "gone" ELSE tx[o]]
           /\ slot' = [o \in Ops |->
                 IF o \in done /\ rx[o] = "waiting" THEN verdict[o] ELSE slot[o]]
           /\ io' = [o \in Ops |-> IF o \in done THEN "completed" ELSE io[o]]
           /\ cq' = [cq EXCEPT ![q] = SubSeq(@, n + 1, Len(@))]
           /\ UNCHANGED <<handleVars, fut, args, word, result, verdict, rx>>
    BY <1>11, ProcessEffect
  <2>2. SubSeq(cq[q], n + 1, Len(cq[q])) \in Seq(Ops)
    OBVIOUS
  <2> QED
    BY <2>1, <2>2
<1>12. CASE UNCHANGED vars
  BY <1>12 DEF vars
<1> QED
  BY <1>1, <1>3, <1>4, <1>5, <1>6, <1>7, <1>8, <1>9, <1>10, <1>11, <1>12 DEF Next, Handles

LEMMA NextPairs == IInv /\ [Next]_vars => Pairs'
<1> SUFFICES ASSUME IInv, [Next]_vars PROVE Pairs'
  OBVIOUS
<1> USE DEF IInv, TypeOK, CompletionType, Pairs, Idle, InFlight, handleVars, completionVars
<1>1. CASE Handles
  BY <1>1, HandlesKeepIo DEF ioVars
<1>2. ASSUME NEW freed \in SUBSET Qpairs, Frees(freed) PROVE Pairs'
  <2> DEFINE said == Meaning(Aborted)
             done == OnFreed(freed)
  <2>1. said # None
    BY ResultsType
  <2>2. /\ \A o \in done : fut[o] = "dropped"
        /\ tx' = [o \in Ops |-> IF o \in done THEN "gone" ELSE tx[o]]
        /\ slot' = [o \in Ops |-> IF o \in done /\ rx[o] = "waiting" THEN said ELSE slot[o]]
        /\ io' = [o \in Ops |-> IF o \in done THEN "completed" ELSE io[o]]
        /\ verdict' = [o \in Ops |-> IF o \in done THEN said ELSE verdict[o]]
    BY <1>2, FreesEffect
  <2>3. UNCHANGED <<fut, word, rx>>
    BY <1>2 DEF Frees
  <2> HIDE DEF said, done
  <2> QED
    BY <2>1, <2>2, <2>3
<1>3. ASSUME NEW q \in Qpairs, DropQpair(q) PROVE Pairs'
  BY <1>2, <1>3, DropQpairFrees
<1>4. CASE Detach
  BY <1>2, <1>4, DetachFrees
<1>5. ASSUME NEW o \in Ops, NEW kind \in {"read", "write"}, NEW q \in Qpairs, NEW b \in Bufs,
             Create(o, kind, q, b)
      PROVE  Pairs'
  BY <1>5 DEF Create
<1>6. ASSUME NEW o \in Ops, Submit(o) PROVE Pairs'
  BY <1>6 DEF Submit, NewPair
<1>7. ASSUME NEW o \in Ops, Resume(o) PROVE Pairs'
  BY <1>7 DEF Resume, Resolve, Ready
<1>8. ASSUME NEW o \in Ops, Abandon(o) PROVE Pairs'
  BY <1>8 DEF Abandon, DropReceiver
<1>9. ASSUME NEW o \in Ops, NEW errno \in Errnos, SubmitFails(o, errno) PROVE Pairs'
  BY <1>9 DEF SubmitFails
<1>10. ASSUME NEW o \in Ops, NEW s \in Statuses, Post(o, s) PROVE Pairs'
  <2>1. Meaning(s) # None /\ Decode(RawWord(s)) = Meaning(s)
    BY StatusesAssumption, RawWordRead, ResultsType
  <2> QED
    BY <1>10, <2>1 DEF Post
<1>11. ASSUME NEW q \in Qpairs, NEW max \in 0 .. 1, ProcessCompletions(q, max) PROVE Pairs'
  <2>1. PICK done \in SUBSET Ops :
           /\ \A o \in done : io[o] = "posted"
           /\ tx' = [o \in Ops |-> IF o \in done THEN "gone" ELSE tx[o]]
           /\ slot' = [o \in Ops |->
                 IF o \in done /\ rx[o] = "waiting" THEN verdict[o] ELSE slot[o]]
           /\ io' = [o \in Ops |-> IF o \in done THEN "completed" ELSE io[o]]
           /\ UNCHANGED <<fut, word, verdict, rx>>
    BY <1>11, ProcessEffect
  <2> QED
    BY <2>1
<1>12. CASE UNCHANGED vars
  BY <1>12 DEF vars, ioVars
<1> QED
  BY <1>1, <1>3, <1>4, <1>5, <1>6, <1>7, <1>8, <1>9, <1>10, <1>11, <1>12 DEF Next, Handles

LEMMA NextQueued == IInv /\ [Next]_vars => Queued'
<1> SUFFICES ASSUME IInv, [Next]_vars PROVE Queued'
  OBVIOUS
<1> USE DEF Queued, handleVars, ioVars
<1>t. \A q \in Qpairs : cq[q] \in Seq(Ops) /\ Len(cq[q]) \in Nat /\ \A i \in 1 .. Len(cq[q]) : cq[q][i] \in Ops
  BY DEF IInv, TypeOK
<1>q. Queued
  BY DEF IInv
<1>1. CASE Handles
  BY <1>1, <1>q, HandlesKeepIo
<1>2. ASSUME NEW freed \in SUBSET Qpairs, Frees(freed) PROVE Queued'
  <2> DEFINE done == OnFreed(freed)
  <2>1. /\ io' = [o \in Ops |-> IF o \in done THEN "completed" ELSE io[o]]
        /\ cq' = [q \in Qpairs |-> IF q \in freed THEN <<>> ELSE cq[q]]
        /\ UNCHANGED args
    BY <1>2, FreesEffect DEF Frees
  <2>2. \A o \in done : args[o].qpair \in freed
    BY DEF OnFreed
  <2> HIDE DEF done
  <2> QED
    BY <1>t, <1>q, <2>1, <2>2
<1>3. ASSUME NEW q \in Qpairs, DropQpair(q) PROVE Queued'
  BY <1>2, <1>3, DropQpairFrees
<1>4. CASE Detach
  BY <1>2, <1>4, DetachFrees
(* The arguments of an operation that is in a queue stay as they are.      *)
<1>5. ASSUME NEW o \in Ops, io[o] # "posted",
             UNCHANGED cq, \A p \in Ops \ {o} : io'[p] = io[p] /\ args'[p] = args[p]
      PROVE  Queued'
  BY <1>t, <1>q, <1>5
<1>6. ASSUME NEW o \in Ops, NEW kind \in {"read", "write"}, NEW q \in Qpairs, NEW b \in Bufs,
             Create(o, kind, q, b)
      PROVE  Queued'
  BY <1>5, <1>6 DEF IInv, TypeOK, Pairs, Idle, Create
<1>7. ASSUME NEW o \in Ops, Submit(o) PROVE Queued'
  BY <1>5, <1>7 DEF IInv, TypeOK, Pairs, Idle, Submit
<1>8. ASSUME NEW o \in Ops, Resume(o) \/ Abandon(o) PROVE Queued'
  BY <1>q, <1>8 DEF Resume, Abandon
<1>9. ASSUME NEW o \in Ops, NEW errno \in Errnos, SubmitFails(o, errno) PROVE Queued'
  BY <1>5, <1>9 DEF IInv, TypeOK, Pairs, Idle, SubmitFails
<1>10. ASSUME NEW o \in Ops, NEW s \in Statuses, Post(o, s) PROVE Queued'
  <2> DEFINE q == args[o].qpair
  <2>1. q \in Qpairs
    BY <1>10, InFlightArgs DEF Post, InFlight
  <2>2. /\ cq' = [cq EXCEPT ![q] = Append(cq[q], o)]
        /\ io' = [io EXCEPT ![o] = "posted"] /\ UNCHANGED args /\ io[o] = "submitted"
    BY <1>10 DEF Post
  <2>3. /\ \A i \in 1 .. Len(cq[q]) : cq'[q][i] = cq[q][i] /\ cq[q][i] # o
        /\ Len(cq'[q]) = Len(cq[q]) + 1 /\ cq'[q][Len(cq[q]) + 1] = o
        /\ \A r \in Qpairs \ {q} : cq'[r] = cq[r] /\ \A i \in 1 .. Len(cq[r]) : cq[r][i] # o
    BY <1>t, <1>q, <2>1, <2>2 DEF IInv, TypeOK
  <2>4. io'[o] = "posted" /\ \A p \in Ops \ {o} : io'[p] = io[p]
    BY <2>2 DEF IInv, TypeOK
  <2>5. args[o].qpair = q
    OBVIOUS
  <2> HIDE DEF q
  <2>6. ASSUME NEW r \in Qpairs \ {q}
        PROVE  \A i \in 1 .. Len(cq'[r]) :
                 /\ io'[cq'[r][i]] = "posted" /\ args'[cq'[r][i]].qpair = r
                 /\ \A j \in 1 .. Len(cq'[r]) : cq'[r][i] = cq'[r][j] => i = j
    BY <1>t, <1>q, <2>2, <2>3, <2>4
  <2>7. \A i \in 1 .. Len(cq'[q]) :
                 /\ io'[cq'[q][i]] = "posted" /\ args'[cq'[q][i]].qpair = q
                 /\ \A j \in 1 .. Len(cq'[q]) : cq'[q][i] = cq'[q][j] => i = j
    BY <1>t, <1>q, <2>1, <2>2, <2>3, <2>4, <2>5
  <2> QED
    BY <2>6, <2>7
<1>11. ASSUME NEW q \in Qpairs, NEW max \in 0 .. 1, ProcessCompletions(q, max) PROVE Queued'
  <2>1. PICK n \in 1 .. Len(cq[q]) : LET done == {cq[q][i] : i \in 1 .. n} IN
           /\ io' = [o \in Ops |-> IF o \in done THEN "completed" ELSE io[o]]
           /\ cq' = [cq EXCEPT ![q] = SubSeq(cq[q], n + 1, Len(cq[q]))]
           /\ UNCHANGED args
    BY <1>11, ProcessEffect
  <2> DEFINE done == {cq[q][i] : i \in 1 .. n}
             rest == SubSeq(cq[q], n + 1, Len(cq[q]))
  <2>2. rest \in Seq(Ops) /\ Len(rest) = Len(cq[q]) - n /\ \A i \in 1 .. Len(rest) : rest[i] = cq[q][n + i]
    BY <1>t
  <2>3. \A i \in n + 1 .. Len(cq[q]) : cq[q][i] \notin done
    BY <1>t, <1>q
  <2>4. \A r \in Qpairs \ {q} : \A i \in 1 .. Len(cq[r]) : cq[r][i] \notin done
    BY <1>t, <1>q
  <2>5. /\ io' = [o \in Ops |-> IF o \in done THEN "completed" ELSE io[o]]
        /\ cq'[q] = rest /\ \A r \in Qpairs \ {q} : cq'[r] = cq[r]
        /\ UNCHANGED args
    BY <2>1 DEF IInv, TypeOK
  <2> HIDE DEF done, rest
  <2>6. ASSUME NEW r \in Qpairs \ {q}
        PROVE  \A i \in 1 .. Len(cq'[r]) :
                 /\ io'[cq'[r][i]] = "posted" /\ args'[cq'[r][i]].qpair = r
                 /\ \A j \in 1 .. Len(cq'[r]) : cq'[r][i] = cq'[r][j] => i = j
    BY <1>t, <1>q, <2>4, <2>5
  <2>7. \A i \in 1 .. Len(rest) : n + i \in n + 1 .. Len(cq[q]) /\ n + i \in 1 .. Len(cq[q])
    BY <1>t, <2>2
  <2>9. \A a, b \in 1 .. Len(cq[q]) : cq[q][a] = cq[q][b] => a = b
    BY <1>q
  <2>8. ASSUME NEW i \in 1 .. Len(cq'[q])
        PROVE  /\ io'[cq'[q][i]] = "posted" /\ args'[cq'[q][i]].qpair = q
               /\ \A j \in 1 .. Len(cq'[q]) : cq'[q][i] = cq'[q][j] => i = j
    <3>1. /\ cq'[q][i] = cq[q][n + i]
          /\ n + i \in n + 1 .. Len(cq[q]) /\ n + i \in 1 .. Len(cq[q])
      BY <2>2, <2>5, <2>7, <2>8
    <3>2. io'[cq'[q][i]] = "posted" /\ args'[cq'[q][i]].qpair = q
      BY <1>t, <1>q, <2>3, <2>5, <3>1
    <3>3. ASSUME NEW j \in 1 .. Len(cq'[q]), cq'[q][i] = cq'[q][j] PROVE i = j
      <4>1. cq'[q][j] = cq[q][n + j] /\ n + j \in 1 .. Len(cq[q])
        BY <2>2, <2>5, <2>7, <3>3
      <4>2. cq[q][n + i] = cq[q][n + j]
        BY <3>1, <3>3, <4>1
      <4>3. n + i = n + j
        BY <2>9, <3>1, <4>1, <4>2
      <4> QED
        BY <1>t, <2>2, <2>5, <2>8, <3>3, <4>3
    <3> QED
      BY <3>2, <3>3
  <2> QED
    BY <2>6, <2>8
<1>12. CASE UNCHANGED vars
  BY <1>12, <1>q DEF vars
<1> QED
  BY <1>1, <1>3, <1>4, <1>6, <1>7, <1>8, <1>9, <1>10, <1>11, <1>12 DEF Next, Handles

LEMMA NextUses == IInv /\ [Next]_vars => (Uses /\ Exclusive)'
<1> SUFFICES ASSUME IInv, [Next]_vars PROVE (Uses /\ Exclusive)'
  OBVIOUS
<1> USE DEF IInv, Uses, Exclusive, handleVars, ioVars
(* What is allocated is new, and what is freed is borrowed by nobody.      *)
<1>1. CASE Handles
  <2>1. UNCHANGED <<ctrlr, fut, args>> /\ \A o \in Ops : Alive(o)' <=> Alive(o)
    BY <1>1 DEF Handles, AllocQpair, Alloc, FreeBuf, Alive
  <2>2. \A q \in Qpairs : qpair[q] = "live" => qpair'[q] = "live"
    BY <1>1 DEF Handles, AllocQpair, Alloc, FreeBuf, TypeOK
  <2>3. \A o \in Ops : Alive(o) => buf'[args[o].buf] = "live"
    <3>1. \A o \in Ops : Alive(o) => args[o].buf \in Bufs /\ buf[args[o].buf] = "live"
      BY Arguments DEF Alive
    <3>2. ASSUME NEW q \in Qpairs, AllocQpair(q) PROVE UNCHANGED buf
      BY <3>2 DEF AllocQpair
    <3>3. ASSUME NEW b \in Bufs, Alloc(b)
          PROVE  \A c \in Bufs : buf[c] = "live" => buf'[c] = "live"
      BY <3>3 DEF Alloc, TypeOK
    <3>4. ASSUME NEW b \in Bufs, FreeBuf(b)
          PROVE  \A o \in Ops : Alive(o) => buf'[args[o].buf] = "live"
      BY <3>1, <3>4 DEF FreeBuf, TypeOK
    <3> QED
      BY <1>1, <3>1, <3>2, <3>3, <3>4 DEF Handles
  <2>4. \A o \in Ops : Alive(o) => args[o].qpair \in Qpairs
    BY Arguments DEF Alive
  <2> QED
    BY <2>1, <2>2, <2>3, <2>4
<1>2. ASSUME NEW q \in Qpairs, DropQpair(q) PROVE (Uses /\ Exclusive)'
  <2>1. Frees({q}) /\ UNCHANGED ctrlr
    BY <1>2, DropQpairFrees
  <2>2. \A o \in Ops : Alive(o) => args[o].qpair \in Qpairs
    BY Arguments DEF Alive
  <2> QED
    BY <2>1, <2>2 DEF Frees, Alive
<1>3. CASE Detach
  BY <1>3 DEF Detach, Alive
<1>4. ASSUME NEW o \in Ops, NEW kind \in {"read", "write"}, NEW q \in Qpairs, NEW b \in Bufs,
             Create(o, kind, q, b)
      PROVE  (Uses /\ Exclusive)'
  <2> DEFINE new == [kind |-> kind, qpair |-> q, buf |-> b]
  <2>1. new # NoArgs /\ new.kind = kind /\ new.qpair = q /\ new.buf = b
    BY DEF NoArgs
  <2> HIDE DEF new
  <2>2. /\ UNCHANGED handleVars /\ args'[o] = new /\ BufferFree(kind, b)
        /\ \A p \in Ops \ {o} : args'[p] = args[p] /\ fut'[p] = fut[p] /\ (Alive(p)' => Alive(p))
        /\ ctrlr = "up" /\ qpair[q] = "live" /\ buf[b] = "live"
    BY <1>4 DEF Create, Alive, TypeOK, new
  <2>3. Uses'
    BY <2>1, <2>2
  <2>4. Exclusive'
    BY <2>1, <2>2 DEF BufferFree
  <2> QED
    BY <2>3, <2>4
(* All other steps let no future come to life. *)
<1>5. ASSUME UNCHANGED <<handleVars, args>>,
             \A o \in Ops : (Alive(o)' => Alive(o)) /\ (fut'[o] # "none" => fut[o] # "none")
      PROVE  (Uses /\ Exclusive)'
  BY <1>5
<1>6. ASSUME NEW o \in Ops, Submit(o) \/ Resume(o) \/ Abandon(o) PROVE (Uses /\ Exclusive)'
  BY <1>5, <1>6 DEF Submit, Resume, Abandon, Alive, TypeOK
<1>7. ASSUME NEW o \in Ops, NEW errno \in Errnos, SubmitFails(o, errno)
      PROVE  (Uses /\ Exclusive)'
  BY <1>5, <1>7 DEF SubmitFails, Alive, TypeOK
<1>8. ASSUME NEW o \in Ops, NEW s \in Statuses, Post(o, s) PROVE (Uses /\ Exclusive)'
  BY <1>5, <1>8 DEF Post, Alive
<1>9. ASSUME NEW q \in Qpairs, NEW max \in 0 .. 1, ProcessCompletions(q, max)
      PROVE  (Uses /\ Exclusive)'
  <2>1. UNCHANGED <<handleVars, args, fut>>
    BY <1>9, Zenon DEF ProcessCompletions
  <2> QED
    BY <1>5, <2>1 DEF Alive
<1>10. CASE UNCHANGED vars
  BY <1>5, <1>10 DEF vars, Alive
<1> QED
  BY <1>1, <1>2, <1>3, <1>4, <1>6, <1>7, <1>8, <1>9, <1>10 DEF Next, Handles

LEMMA NextSettled == IInv /\ [Next]_vars => DropsSettleIo'
<1> SUFFICES ASSUME IInv, [Next]_vars PROVE DropsSettleIo'
  OBVIOUS
<1> USE DEF IInv, TypeOK, DropsSettleIo, Outstanding, InFlight, handleVars, ioVars
(* An I/O enters the life of a queue pair only while it is live.           *)
<1>1. ASSUME NEW o \in Ops,
             \A q \in Qpairs : qpair'[q] # "live" => qpair[q] # "live",
             UNCHANGED <<io, args, cq>>
      PROVE  DropsSettleIo'
  BY <1>1
<1>2. CASE Handles
  BY <1>2 DEF Handles, AllocQpair, Alloc, FreeBuf
<1>3. ASSUME NEW freed \in SUBSET Qpairs, Frees(freed),
             \A q \in Qpairs : qpair'[q] # "live" => q \in freed \/ qpair[q] # "live"
      PROVE  DropsSettleIo'
  <2> DEFINE done == OnFreed(freed)
  <2>1. /\ io' = [o \in Ops |-> IF o \in done THEN "completed" ELSE io[o]]
        /\ cq' = [q \in Qpairs |-> IF q \in freed THEN <<>> ELSE cq[q]]
        /\ UNCHANGED args
    BY <1>3, FreesEffect DEF Frees
  <2>2. \A o \in Ops : InFlight(o) /\ args[o].qpair \in freed => o \in done
    BY DEF OnFreed
  <2> HIDE DEF done
  <2> QED
    BY <1>3, <2>1, <2>2
<1>4. ASSUME NEW q \in Qpairs, DropQpair(q) PROVE DropsSettleIo'
  <2>1. Frees({q}) /\ \A r \in Qpairs \ {q} : qpair'[r] = qpair[r]
    BY <1>4, DropQpairFrees DEF Frees
  <2> QED
    BY <1>3, <2>1
<1>5. CASE Detach
  <2> DEFINE freed == {q \in Qpairs : qpair[q] = "live"}
  <2>1. Frees(freed)
    BY <1>5 DEF Detach, Frees
  <2> QED
    BY <1>3, <2>1
<1>6. ASSUME NEW o \in Ops, NEW kind \in {"read", "write"}, NEW q \in Qpairs, NEW b \in Bufs,
             Create(o, kind, q, b)
      PROVE  DropsSettleIo'
  BY <1>6 DEF Create, Pairs, Idle
<1>7. ASSUME NEW o \in Ops, Submit(o) PROVE DropsSettleIo'
  BY <1>7 DEF Submit, Uses, Alive
<1>8. ASSUME NEW o \in Ops, Resume(o) \/ Abandon(o) PROVE DropsSettleIo'
  BY <1>8 DEF Resume, Abandon
<1>9. ASSUME NEW o \in Ops, NEW errno \in Errnos, SubmitFails(o, errno) PROVE DropsSettleIo'
  BY <1>9 DEF SubmitFails
<1>10. ASSUME NEW o \in Ops, NEW s \in Statuses, Post(o, s) PROVE DropsSettleIo'
  <2>1. args[o].qpair \in Qpairs /\ o \in Outstanding(args[o].qpair)
    BY <1>10, InFlightArgs DEF Post
  <2>2. qpair[args[o].qpair] = "live"
    BY <2>1
  <2> QED
    BY <1>10, <2>1, <2>2 DEF Post
<1>11. ASSUME NEW q \in Qpairs, NEW max \in 0 .. 1, ProcessCompletions(q, max)
       PROVE  DropsSettleIo'
  <2>1. PICK done \in SUBSET Ops :
           /\ io' = [o \in Ops |-> IF o \in done THEN "completed" ELSE io[o]]
           /\ UNCHANGED <<qpair, args>>
    BY <1>11, ProcessEffect
  <2>2. qpair[q] = "live" /\ \A r \in Qpairs \ {q} : cq'[r] = cq[r]
    BY <1>11 DEF ProcessCompletions
  <2> QED
    BY <2>1, <2>2
<1>12. CASE UNCHANGED vars
  BY <1>12 DEF vars
<1> QED
  BY <1>2, <1>4, <1>5, <1>6, <1>7, <1>8, <1>9, <1>10, <1>11, <1>12 DEF Next, Handles

(* qpair.rs and namespace.rs: the invariant of read, write, completions    *)
(* and drops is inductive, and so holds in every reachable state.          *)
THEOREM InvHolds == Spec => []IInv
<1>1. IInv /\ [Next]_vars => IInv'
  BY NextType, NextPairs, NextQueued, NextUses, NextSettled DEF IInv
<1> QED
  BY <1>1, InitInv, PTL DEF Spec

-------------------------------------------------------------------------------
(* The variables of NVMe I/O keep their types; the status word fits its 16 *)
(* bits (namespace.rs:208).                                                *)
THEOREM TypeCorrect == Spec => []TypeOK
<1>1. IInv => TypeOK
  BY DEF IInv
<1> QED
  BY <1>1, InvHolds, PTL

(* namespace.rs:194: every callback, of process_completions or of an       *)
(* abort, finds its box, and takes it, once.                               *)
THEOREM FromRawOnceHolds == Spec => []FromRawOnce
<1>1. IInv => FromRawOnce
  BY DEF IInv, Pairs, FromRawOnce
<1> QED
  BY <1>1, InvHolds, PTL

(* controller.rs:349, qpair.rs:70: in whatever order queue pairs and       *)
(* controller are dropped, no I/O is left behind.                          *)
THEOREM DropsSettleIoHolds == Spec => []DropsSettleIo
<1>1. IInv => DropsSettleIo
  BY DEF IInv
<1> QED
  BY <1>1, InvHolds, PTL

(* docs/design/memory.md:69: while its future is awaited, an I/O has its   *)
(* controller, its queue pair and its memory, and shares the memory with   *)
(* no other, except with one whose future was dropped in flight.           *)
THEOREM AwaitedIoCoveredHolds == Spec => []AwaitedIoCovered
<1>1. ASSUME IInv PROVE AwaitedIoCovered
  <2>1. ASSUME NEW o \in Ops, fut[o] = "awaiting"
        PROVE  ctrlr = "up" /\ qpair[args[o].qpair] = "live" /\ buf[args[o].buf] = "live"
    BY <1>1, <2>1 DEF IInv, Uses, Alive
  <2>2. ASSUME NEW o \in Ops, NEW p \in Ops, fut[o] = "awaiting", Clash(o, p)
        PROVE  fut[p] = "dropped"
    <3>1. fut[p] \in {"awaiting", "dropped"}
      BY <1>1, <2>2 DEF IInv, Pairs, Idle, Clash, InFlight, TypeOK, FutureStates
    <3>2. fut[p] # "awaiting"
      BY <1>1, <2>2 DEF IInv, Exclusive, Alive, Clash
    <3> QED
      BY <3>1, <3>2
  <2> QED
    BY <2>1, <2>2 DEF AwaitedIoCovered
<1> QED
  BY <1>1, InvHolds, PTL

-------------------------------------------------------------------------------
(* A step of another operation leaves this one as it is in AsyncOp. *)
LEMMA Stutters ==
    ASSUME NEW o \in Ops, UNCHANGED <<fut[o], result[o], verdict[o]>>
    PROVE  Async(o)!AsyncStep
BY DEF Async!AsyncStep, Async!asyncVars, Phase, Told

(* What the first poll, the device, a later poll and a drop of the future  *)
(* are in AsyncOp.                                                         *)
LEMMA SubmitBegins ==
    ASSUME IInv, NEW o \in Ops, Submit(o) PROVE Async(o)!AsyncStep
<1>1. Phase(o) = "idle" /\ Told(o) = None
  BY DEF IInv, Pairs, Idle, Submit, Phase, Told
<1>2. Phase(o)' = "pending" /\ Told(o)' = None
  BY DEF IInv, TypeOK, Pairs, Idle, Submit, Phase, Told
<1> QED
  BY <1>1, <1>2 DEF Async!AsyncStep, Async!AsyncNext, Async!Begin

LEMMA SubmitFailsRefuses ==
    ASSUME IInv, NEW o \in Ops, NEW errno \in Errnos, SubmitFails(o, errno)
    PROVE  Async(o)!AsyncStep
<1>1. Phase(o) = "idle"
  BY DEF SubmitFails, Phase
<1>2. Phase(o)' = "returned" /\ Told(o)' \in Results
  BY ResultsType DEF IInv, TypeOK, SubmitFails, Phase, Told
<1> QED
  BY <1>1, <1>2 DEF Async!AsyncStep, Async!AsyncNext, Async!Refuse

LEMMA PostDecides ==
    ASSUME IInv, NEW o \in Ops, NEW s \in Statuses, Post(o, s) PROVE Async(o)!AsyncStep
<1>0. fut' = fut /\ result' = result /\ verdict'[o] \in Results /\ verdict'[o] # None
  BY ResultsType DEF IInv, TypeOK, Post
<1>1. CASE fut[o] = "awaiting"
  <2>1. Phase(o) = "pending"
    BY <1>1 DEF IInv, Pairs, Post, Phase
  <2>2. Phase(o)' = "decided" /\ Told(o)' \in Results
    BY <1>0, <1>1 DEF Phase, Told
  <2> QED
    BY <2>1, <2>2 DEF Async!AsyncStep, Async!AsyncNext, Async!Decide
<1>2. CASE fut[o] = "dropped"
  BY <1>0, <1>2 DEF Async!AsyncStep, Async!asyncVars, Phase, Told
<1>3. fut[o] \in {"awaiting", "dropped"}
  BY DEF IInv, TypeOK, FutureStates, Pairs, Idle, Post, InFlight
<1> QED
  BY <1>1, <1>2, <1>3

(* What a queue pair takes with it was asked for by no living future.      *)
LEMMA FreesStutters ==
    ASSUME IInv, NEW o \in Ops, NEW freed \in SUBSET Qpairs, Frees(freed)
    PROVE  Async(o)!AsyncStep
<1> DEFINE said == Meaning(Aborted)
           done == OnFreed(freed)
<1>1. /\ \A p \in done : fut[p] = "dropped"
      /\ verdict' = [p \in Ops |-> IF p \in done THEN said ELSE verdict[p]]
      /\ UNCHANGED <<fut, result>>
  BY FreesEffect DEF Frees
<1> HIDE DEF said, done
<1>2. CASE o \in done
  BY <1>1, <1>2 DEF Async!AsyncStep, Async!asyncVars, Phase, Told
<1>3. CASE o \notin done
  BY <1>1, <1>3, Stutters
<1> QED
  BY <1>2, <1>3

LEMMA ResumeReturns ==
    ASSUME IInv, NEW o \in Ops, Resume(o) PROVE Async(o)!AsyncStep
<1>1. io[o] = "completed"
  BY DEF IInv, Pairs, Resume, Resolve, Ready, InFlight
<1>2. Phase(o) = "decided" /\ Told(o) = verdict[o]
  BY <1>1 DEF IInv, Pairs, Resume, Phase, Told
<1>3. Outcome(o, Cancelled) = verdict[o]
  BY <1>1 DEF IInv, Pairs, Resume, Outcome
<1>4. Phase(o)' = "returned" /\ Told(o)' = verdict[o]
  BY <1>3 DEF IInv, TypeOK, Resume, Phase, Told
<1> QED
  BY <1>2, <1>4 DEF Async!AsyncStep, Async!AsyncNext, Async!Return

LEMMA AbandonCancels ==
    ASSUME IInv, NEW o \in Ops, Abandon(o) PROVE Async(o)!AsyncStep
<1>1. Phase(o) \in {"idle", "pending", "decided"}
  BY DEF Abandon, Phase
<1>2. Phase(o)' = "cancelled" /\ Told(o)' = None
  BY DEF IInv, TypeOK, Abandon, Phase, Told
<1> QED
  BY <1>1, <1>2 DEF Async!AsyncStep, Async!AsyncNext, Async!Cancel

LEMMA NextRefines == IInv /\ [Next]_vars => \A o \in Ops : Async(o)!AsyncStep
<1> SUFFICES ASSUME IInv, [Next]_vars, NEW o \in Ops PROVE Async(o)!AsyncStep
  OBVIOUS
<1> USE DEF IInv, TypeOK
<1>1. CASE Handles
  BY <1>1, HandlesKeepIo, Stutters DEF ioVars
<1>2. ASSUME NEW q \in Qpairs, DropQpair(q) PROVE Async(o)!AsyncStep
  BY <1>2, DropQpairFrees, FreesStutters
<1>3. CASE Detach
  BY <1>3, DetachFrees, FreesStutters
<1>4. ASSUME NEW p \in Ops, NEW kind \in {"read", "write"}, NEW q \in Qpairs, NEW b \in Bufs,
             Create(p, kind, q, b)
      PROVE  Async(o)!AsyncStep
  <2>1. CASE o = p
    BY <1>4, <2>1 DEF Create, Async!AsyncStep, Async!asyncVars, Phase, Told
  <2> QED
    BY <1>4, <2>1, Stutters DEF Create
<1>5. ASSUME NEW p \in Ops, Submit(p) PROVE Async(o)!AsyncStep
  BY <1>5, SubmitBegins, Stutters DEF Submit
<1>6. ASSUME NEW p \in Ops, Resume(p) PROVE Async(o)!AsyncStep
  BY <1>6, ResumeReturns, Stutters DEF Resume
<1>7. ASSUME NEW p \in Ops, Abandon(p) PROVE Async(o)!AsyncStep
  BY <1>7, AbandonCancels, Stutters DEF Abandon
<1>8. ASSUME NEW p \in Ops, NEW errno \in Errnos, SubmitFails(p, errno)
      PROVE  Async(o)!AsyncStep
  BY <1>8, SubmitFailsRefuses, Stutters DEF SubmitFails
<1>9. ASSUME NEW p \in Ops, NEW s \in Statuses, Post(p, s) PROVE Async(o)!AsyncStep
  BY <1>9, PostDecides, Stutters DEF Post
<1>10. ASSUME NEW q \in Qpairs, NEW max \in 0 .. 1, ProcessCompletions(q, max)
       PROVE  Async(o)!AsyncStep
  <2>1. UNCHANGED <<fut, result, verdict>>
    BY <1>10, Zenon DEF ProcessCompletions
  <2> QED
    BY <2>1, Stutters
<1>11. CASE UNCHANGED vars
  BY <1>11, Stutters DEF vars, ioVars
<1> QED
  BY <1>1, <1>2, <1>3, <1>4, <1>5, <1>6, <1>7, <1>8, <1>9, <1>10, <1>11 DEF Next, Handles

(* namespace.rs:55-178: every read and write keeps the promise of AsyncOp: *)
(* the caller is told what the device put into the status word, or the     *)
(* driver's refusal, once and unchanged, unless it drops the future.       *)
THEOREM Implements == Spec => ImplementsAsyncOp
<1>1. Init => \A o \in Ops : Async(o)!AsyncInit
  BY DEF Init, Async!AsyncInit, Phase, Told
<1>2. IInv /\ [Next]_vars => [\A o \in Ops : Async(o)!AsyncStep]_vars
  BY NextRefines
<1> QED
  BY <1>1, <1>2, InvHolds, PTL DEF Spec, ImplementsAsyncOp
-------------------------------------------------------------------------------
(* Connects: NvmeConnect.                                                  *)

(* The connects under way: each is on one stack, once; those below the     *)
(* innermost one wait in their poll, and a connect that is or was in a     *)
(* poll had nothing announced before it.                                   *)
Stacks ==
    \A p \in Procs : \A i \in 1 .. Len(stack[p]) :
        LET c == stack[p][i] IN
        /\ place[c] \in {"probing", "polling"}
        /\ i > 1 => place[c] = "polling"
        /\ place[c] = "polling" => gave[c] = Nil
        /\ \A q \in Procs : \A j \in 1 .. Len(stack[q]) : stack[q][j] = c => q = p /\ j = i

(* The cell of an OS thread belongs to its innermost connect.              *)
CellsTracked == \A p \in Procs : stack[p] # <<>> => cell[p] = gave[Head(stack[p])]

(* What a connect has, has returned and was given.                         *)
Values ==
    \A c \in Calls :
        /\ place[c] = "none" => gave[c] = Nil
        /\ place[c] # "returned" => answer[c] = Nil /\ ~owned[c]
        /\ place[c] = "returned" => answer[c] # Nil
        /\ owned[c] => answer[c] \in Calls

(* The references of a controller, counted by the connects they belong to. *)
Holds(c, k) ==
    \/ owned[c] /\ answer[c] = k
    \/ gave[c] = k /\ (place[c] # "returned" \/ answer[c] = "Os")
Holders(k) == {c \in Calls : Holds(c, k)}

Counted == \A k \in Calls : IsFiniteSet(Holders(k)) /\ refs[k] = Cardinality(Holders(k))
Known == \A k \in Calls : refs[k] > 0 => gave[k] = k

ConnectIInv == ConnectType /\ Stacks /\ CellsTracked /\ Values /\ ResultIsOwn /\ Counted /\ Known

-------------------------------------------------------------------------------
LEMMA ErrorsType ==
    /\ "NotFound" \in Errors /\ "Os" \in Errors
    /\ "NotFound" \notin Calls /\ "Os" \notin Calls
    /\ "NotFound" # Nil /\ "Os" # Nil /\ Nil \notin Calls
BY NilAssumption, ErrorsAssumption DEF Errors

LEMMA Pushed ==
    ASSUME NEW s \in Seq(Calls), NEW c \in Calls
    PROVE  /\ <<c>> \o s \in Seq(Calls) /\ Len(<<c>> \o s) = Len(s) + 1 /\ Len(s) \in Nat
           /\ (<<c>> \o s)[1] = c /\ Head(<<c>> \o s) = c
           /\ \A i \in 1 .. Len(s) : (<<c>> \o s)[i + 1] = s[i]
<1> DEFINE e == <<c>>
           n == Len(s)
<1>1. e \in Seq(Calls) /\ Len(e) = 1 /\ e[1] = c
  OBVIOUS
<1>2. n \in Nat
  BY LenProperties
<1> HIDE DEF e
<1>3. /\ e \o s \in Seq(Calls) /\ Len(e \o s) = 1 + n
      /\ \A i \in 1 .. 1 + n : (e \o s)[i] = IF i <= 1 THEN e[i] ELSE s[i - 1]
  <2>1. /\ e \o s \in Seq(Calls) /\ Len(e \o s) = Len(e) + Len(s)
        /\ \A i \in 1 .. Len(e) + Len(s) :
              (e \o s)[i] = IF i <= Len(e) THEN e[i] ELSE s[i - Len(e)]
    BY <1>1, ConcatProperties
  <2> QED
    BY <2>1, <1>1
<1> HIDE DEF n
<1>4. (e \o s)[1] = c /\ e \o s # <<>> /\ Len(e \o s) = n + 1
  BY <1>1, <1>2, <1>3
<1>5. ASSUME NEW i \in 1 .. n PROVE (e \o s)[i + 1] = s[i]
  <2>1. i + 1 \in 1 .. 1 + n /\ ~(i + 1 <= 1) /\ (i + 1) - 1 = i
    BY <1>2
  <2> QED
    BY <2>1, <1>3
<1>6. Head(e \o s) = (e \o s)[1]
  BY <1>3, <1>4
<1> QED
  BY <1>2, <1>3, <1>4, <1>5, <1>6 DEF e, n

LEMMA Popped ==
    ASSUME NEW s \in Seq(Calls), s # <<>>
    PROVE  /\ Head(s) \in Calls /\ Head(s) = s[1] /\ Len(s) \in Nat /\ Len(s) >= 1
           /\ Tail(s) \in Seq(Calls) /\ Len(Tail(s)) = Len(s) - 1
           /\ \A i \in 1 .. Len(s) - 1 : Tail(s)[i] = s[i + 1]
           /\ Tail(s) # <<>> => Len(s) >= 2 /\ Head(Tail(s)) = s[2]
<1>1. Head(s) \in Calls /\ Head(s) = s[1] /\ Len(s) \in Nat /\ Len(s) >= 1
  BY HeadTailProperties, EmptySeq
<1>2. /\ Tail(s) \in Seq(Calls) /\ Len(Tail(s)) = Len(s) - 1
      /\ \A i \in 1 .. Len(s) - 1 : Tail(s)[i] = s[i + 1]
  BY HeadTailProperties
<1>3. ASSUME Tail(s) # <<>> PROVE Len(s) >= 2 /\ Head(Tail(s)) = s[2]
  <2>1. Len(Tail(s)) \in Nat \ {0}
    BY <1>2, <1>3, EmptySeq
  <2>2. Head(Tail(s)) = Tail(s)[1]
    BY <1>2, <1>3
  <2>3. Len(s) >= 2 /\ 1 \in 1 .. Len(s) - 1 /\ 1 + 1 = 2
    BY <1>1, <1>2, <2>1
  <2> QED
    BY <1>2, <2>2, <2>3
<1> QED
  BY <1>1, <1>2, <1>3

LEMMA ConnectInitInv == ConnectInit => ConnectIInv
<1> SUFFICES ASSUME ConnectInit PROVE ConnectIInv
  OBVIOUS
<1>1. ConnectType
  <2>1. <<>> \in Seq(Calls)
    BY EmptySeq
  <2>2. stack \in [Procs -> Seq(Calls)]
    BY <2>1, Zenon DEF ConnectInit
  <2>3. /\ place \in [Calls -> Places] /\ cell \in [Procs -> Calls \cup {Nil}]
        /\ answer \in [Calls -> Calls \cup Errors \cup {Nil}]
    BY DEF ConnectInit, Places
  <2>4. /\ owned \in [Calls -> BOOLEAN] /\ refs \in [Calls -> Nat]
        /\ gave \in [Calls -> Calls \cup {Nil}]
    BY DEF ConnectInit
  <2> QED
    BY <2>2, <2>3, <2>4 DEF ConnectType
<1>2. Stacks /\ CellsTracked
  <2>1. \A p \in Procs : stack[p] = <<>> /\ Len(stack[p]) = 0
    BY DEF ConnectInit
  <2> QED
    BY <2>1 DEF Stacks, CellsTracked
<1>3. Values /\ ResultIsOwn
  BY ErrorsType DEF ConnectInit, Values, ResultIsOwn
<1>4. \A k \in Calls : Holders(k) = {} /\ refs[k] = 0
  BY ErrorsType DEF ConnectInit, Holders, Holds
<1>5. Counted /\ Known
  BY <1>4, FS_EmptySet DEF Counted, Known
<1> QED
  BY <1>1, <1>2, <1>3, <1>5 DEF ConnectIInv

-------------------------------------------------------------------------------
(* Where a step may act: the innermost connect of an OS thread, ...        *)
LEMMA Top ==
    ASSUME ConnectIInv, NEW p \in Procs, stack[p] # <<>>
    PROVE  /\ Head(stack[p]) \in Calls /\ Head(stack[p]) = stack[p][1]
           /\ Len(stack[p]) \in Nat /\ Len(stack[p]) >= 1
           /\ place[Head(stack[p])] \in {"probing", "polling"}
           /\ place[Head(stack[p])] = "polling" => gave[Head(stack[p])] = Nil
           /\ cell[p] = gave[Head(stack[p])]
           /\ answer[Head(stack[p])] = Nil /\ ~owned[Head(stack[p])]
<1>1. stack[p] \in Seq(Calls)
  BY DEF ConnectIInv, ConnectType
<1>2. /\ Head(stack[p]) \in Calls /\ Head(stack[p]) = stack[p][1]
      /\ Len(stack[p]) \in Nat /\ Len(stack[p]) >= 1
  BY <1>1, Popped
<1>3. 1 \in 1 .. Len(stack[p])
  BY <1>2
<1>4. /\ place[stack[p][1]] \in {"probing", "polling"}
      /\ place[stack[p][1]] = "polling" => gave[stack[p][1]] = Nil
  BY <1>3 DEF ConnectIInv, Stacks
<1>5. answer[Head(stack[p])] = Nil /\ ~owned[Head(stack[p])]
  BY <1>2, <1>4 DEF ConnectIInv, Values
<1> QED
  BY <1>2, <1>4, <1>5 DEF ConnectIInv, CellsTracked

(* ... or a fresh connect, which nobody knows yet.                         *)
LEMMA Fresh ==
    ASSUME ConnectIInv, NEW c \in Calls, place[c] = "none"
    PROVE  /\ gave[c] = Nil /\ answer[c] = Nil /\ ~owned[c]
           /\ refs[c] = 0
           /\ \A p \in Procs : \A i \in 1 .. Len(stack[p]) : stack[p][i] # c
<1>1. gave[c] = Nil /\ answer[c] = Nil /\ ~owned[c]
  BY DEF ConnectIInv, Values
<1>2. refs[c] = 0
  <2>1. refs[c] \in Nat
    BY DEF ConnectIInv, ConnectType
  <2>2. refs[c] > 0 => c = Nil
    BY <1>1 DEF ConnectIInv, Known
  <2> QED
    BY <2>1, <2>2, ErrorsType
<1> QED
  BY <1>1, <1>2 DEF ConnectIInv, Stacks

-------------------------------------------------------------------------------
(* A step on behalf of connect c tells no other connect anything.          *)
OthersKeep(c) ==
    \A d \in Calls : d # c =>
        /\ place'[d] = place[d] /\ gave'[d] = gave[d]
        /\ answer'[d] = answer[d] /\ owned'[d] = owned[d]

(* The driver has nothing for c, or controller k gains c's reference.      *)
Given(c) ==
    \/ gave'[c] = gave[c] /\ refs' = refs
    \/ \E k \in Calls : /\ gave[c] = Nil /\ gave'[c] = k
                        /\ refs' = [refs EXCEPT ![k] = refs[k] + 1]
                        /\ k # c => refs[k] > 0

(* What c returns: the controller it was given, or an error.               *)
Returned(c) ==
    /\ place'[c] = "returned"
    /\ \/ answer'[c] = gave'[c] /\ gave'[c] \in Calls /\ owned'[c]
       \/ answer'[c] = "NotFound" /\ gave'[c] = Nil /\ ~owned'[c]
       \/ answer'[c] = "Os" /\ ~owned'[c]

(* Connects that return at once: on no stack, in nobody's cell.            *)
Quick(p, c) ==
    \/ ConnectSyncFails(p, c) \/ ConnectRefused(p, c)
    \/ \E k \in Calls : ConnectSync(p, c, k)
    \/ \E k \in Calls \cup {Nil} : ConnectNoThread(p, c, k)

LEMMA ReturnsEffect ==
    ASSUME ConnectType, NEW c \in Calls, NEW v \in Calls \cup Errors, Returns(c, v)
    PROVE  /\ place' \in [Calls -> Places] /\ owned' \in [Calls -> BOOLEAN]
           /\ answer' \in [Calls -> Calls \cup Errors \cup {Nil}]
           /\ place'[c] = "returned" /\ answer'[c] = v /\ (owned'[c] <=> v \in Calls)
           /\ \A d \in Calls : d # c =>
                 place'[d] = place[d] /\ answer'[d] = answer[d] /\ owned'[d] = owned[d]
<1>1. PICK b \in BOOLEAN : b = (v \in Calls)
  <2>1. CASE v \in Calls
    <3>1. TRUE = (v \in Calls)
      BY <2>1, Zenon
    <3> QED
      BY <3>1, Zenon
  <2>2. CASE v \notin Calls
    <3>1. FALSE = (v \in Calls)
      BY <2>2
    <3> QED
      BY <3>1, Zenon
  <2> QED
    BY <2>1, <2>2
<1>2. /\ place' = [place EXCEPT ![c] = "returned"] /\ answer' = [answer EXCEPT ![c] = v]
      /\ owned' = [owned EXCEPT ![c] = b]
  BY <1>1, Zenon DEF Returns
<1>3. b <=> v \in Calls
  BY <1>1, Zenon
<1> QED
  BY <1>2, <1>3 DEF ConnectType, Places

LEMMA QuickEffect ==
    ASSUME ConnectIInv, NEW p \in Procs, NEW c \in Calls, Quick(p, c)
    PROVE  /\ ConnectType' /\ place[c] = "none" /\ stack' = stack
           /\ OthersKeep(c) /\ Given(c) /\ Returned(c)
           /\ \A q \in Procs : stack[q] # <<>> => cell'[q] = cell[q]
<1>t. ConnectType
  BY DEF ConnectIInv
<1>n. Nil \notin Calls /\ "NotFound" \notin Calls /\ "Os" \notin Calls
  BY ErrorsType
<1>1. CASE ConnectSyncFails(p, c)
  <2>1. place[c] = "none" /\ gave[c] = Nil
    BY <1>1, Fresh DEF ConnectSyncFails
  <2>2. Returns(c, "NotFound") /\ UNCHANGED <<stack, cell, refs, gave>>
    BY <1>1 DEF ConnectSyncFails
  <2>3. /\ place' \in [Calls -> Places] /\ owned' \in [Calls -> BOOLEAN]
        /\ answer' \in [Calls -> Calls \cup Errors \cup {Nil}]
        /\ place'[c] = "returned" /\ answer'[c] = "NotFound" /\ ~owned'[c]
        /\ \A d \in Calls : d # c =>
              place'[d] = place[d] /\ answer'[d] = answer[d] /\ owned'[d] = owned[d]
    BY <2>2, <1>t, <1>n, ErrorsType, ReturnsEffect
  <2> QED
    BY <1>t, <2>1, <2>2, <2>3 DEF OthersKeep, Given, Returned, ConnectType
<1>2. CASE ConnectRefused(p, c)
  <2>1. place[c] = "none" /\ gave[c] = Nil
    BY <1>2, Fresh DEF ConnectRefused
  <2>2. stack[p] # <<>> => cell[p] = Nil
    BY <1>2, Top DEF ConnectRefused, UserRuns
  <2>3. cell' = [cell EXCEPT ![p] = Nil]
    BY <1>2 DEF ConnectRefused, Cleared, Cell
  <2>4. \A q \in Procs : stack[q] # <<>> => cell'[q] = cell[q]
    BY <2>2, <2>3, <1>t DEF ConnectType
  <2>5. Returns(c, "NotFound") /\ UNCHANGED <<stack, refs, gave>>
    BY <1>2 DEF ConnectRefused
  <2>6. /\ place' \in [Calls -> Places] /\ owned' \in [Calls -> BOOLEAN]
        /\ answer' \in [Calls -> Calls \cup Errors \cup {Nil}]
        /\ place'[c] = "returned" /\ answer'[c] = "NotFound" /\ ~owned'[c]
        /\ \A d \in Calls : d # c =>
              place'[d] = place[d] /\ answer'[d] = answer[d] /\ owned'[d] = owned[d]
    BY <2>5, <1>t, <1>n, ErrorsType, ReturnsEffect
  <2> QED
    BY <1>t, <2>1, <2>3, <2>4, <2>5, <2>6 DEF OthersKeep, Given, Returned, ConnectType
<1>3. ASSUME NEW k \in Calls, ConnectSync(p, c, k)
      PROVE  /\ ConnectType' /\ place[c] = "none" /\ stack' = stack
             /\ OthersKeep(c) /\ Given(c) /\ Returned(c) /\ cell' = cell
  <2>1. place[c] = "none" /\ gave[c] = Nil
    BY <1>3, Fresh DEF ConnectSync
  <2>2. refs[k] + 1 \in Nat
    BY <1>t DEF ConnectType
  <2> QED
    BY <1>3, <1>t, <1>n, <2>1, <2>2
       DEF ConnectSync, Returns, OthersKeep, Given, Returned, ConnectType, Places
<1>4. ASSUME NEW k \in Calls \cup {Nil}, ConnectNoThread(p, c, k)
      PROVE  /\ ConnectType' /\ place[c] = "none" /\ stack' = stack
             /\ OthersKeep(c) /\ Given(c) /\ Returned(c)
             /\ \A q \in Procs : stack[q] # <<>> => cell'[q] = cell[q]
  <2>1. place[c] = "none" /\ gave[c] = Nil /\ stack[p] = <<>> /\ stack' = stack
    BY <1>4, Fresh DEF ConnectNoThread
  <2>2. /\ place' \in [Calls -> Places] /\ owned' \in [Calls -> BOOLEAN]
        /\ answer' \in [Calls -> Calls \cup Errors \cup {Nil}]
        /\ place'[c] = "returned" /\ answer'[c] = "Os" /\ ~owned'[c]
        /\ \A d \in Calls : d # c =>
              place'[d] = place[d] /\ answer'[d] = answer[d] /\ owned'[d] = owned[d]
    <3>1. Returns(c, "Os")
      BY <1>4 DEF ConnectNoThread
    <3> QED
      BY <3>1, <1>t, <1>n, ErrorsType, ReturnsEffect
  <2>3. \/ /\ gave' = gave /\ refs' = refs /\ cell' = [cell EXCEPT ![p] = Nil]
        \/ /\ k \in Calls /\ refs[k] > 0 /\ gave' = [gave EXCEPT ![c] = k]
           /\ refs' = [refs EXCEPT ![k] = refs[k] + 1]
           /\ cell' = [[cell EXCEPT ![p] = Nil] EXCEPT ![p] = k]
    BY <1>4 DEF ConnectNoThread, Probe, Announce, Cleared, Cell
  <2>4. cell' \in [Procs -> Calls \cup {Nil}] /\ \A q \in Procs : q # p => cell'[q] = cell[q]
    BY <2>3, <1>t DEF ConnectType
  <2>5. gave' \in [Calls -> Calls \cup {Nil}] /\ refs' \in [Calls -> Nat]
    <3>1. k \in Calls => refs[k] + 1 \in Nat
      BY <1>t DEF ConnectType
    <3> QED
      BY <2>3, <3>1, <1>t DEF ConnectType
  <2>7. ConnectType'
    BY <2>1, <2>2, <2>4, <2>5, <1>t DEF ConnectType
  <2>8. OthersKeep(c) /\ Returned(c)
    BY <2>2, <2>3, <1>t DEF OthersKeep, Returned, ConnectType
  <2>9. Given(c)
    BY <2>1, <2>3, <1>t DEF Given, ConnectType
  <2> QED
    BY <2>1, <2>4, <2>7, <2>8, <2>9
<1> QED
  BY <1>1, <1>2, <1>3, <1>4 DEF Quick

(* connect_async gets to its loop: the innermost connect of its OS thread. *)
LEMMA StartEffect ==
    ASSUME ConnectIInv, NEW p \in Procs, NEW c \in Calls, NEW k \in Calls \cup {Nil},
           ConnectStart(p, c, k)
    PROVE  /\ ConnectType' /\ place[c] = "none" /\ place'[c] = "probing"
           /\ UNCHANGED <<answer, owned>> /\ OthersKeep(c) /\ Given(c)
           /\ stack' = [stack EXCEPT ![p] = <<c>> \o stack[p]]
           /\ cell'[p] = gave'[c] /\ \A q \in Procs : q # p => cell'[q] = cell[q]
           /\ stack[p] # <<>> => place[Head(stack[p])] = "polling"
<1>t. ConnectType
  BY DEF ConnectIInv
<1>1. /\ place[c] = "none" /\ gave[c] = Nil
      /\ stack[p] # <<>> => place[Head(stack[p])] = "polling"
  BY Fresh DEF ConnectStart, UserRuns
<1>2. /\ stack' = [stack EXCEPT ![p] = <<c>> \o stack[p]]
      /\ place' = [place EXCEPT ![c] = "probing"] /\ UNCHANGED <<answer, owned>>
  BY DEF ConnectStart
<1>3. \/ /\ gave' = gave /\ refs' = refs /\ cell' = [cell EXCEPT ![p] = Nil]
      \/ /\ k \in Calls /\ refs[k] > 0 /\ gave' = [gave EXCEPT ![c] = k]
         /\ refs' = [refs EXCEPT ![k] = refs[k] + 1]
         /\ cell' = [[cell EXCEPT ![p] = Nil] EXCEPT ![p] = k]
  BY DEF ConnectStart, Probe, Announce, Cleared, Cell
<1>4. /\ cell' \in [Procs -> Calls \cup {Nil}] /\ cell'[p] = gave'[c]
      /\ \A q \in Procs : q # p => cell'[q] = cell[q]
  BY <1>1, <1>3, <1>t DEF ConnectType
<1>5. gave' \in [Calls -> Calls \cup {Nil}] /\ refs' \in [Calls -> Nat]
  <2>1. k \in Calls => refs[k] + 1 \in Nat
    BY <1>t DEF ConnectType
  <2> QED
    BY <1>3, <2>1, <1>t DEF ConnectType
<1>6. place' \in [Calls -> Places] /\ stack' \in [Procs -> Seq(Calls)]
  <2>1. <<c>> \o stack[p] \in Seq(Calls)
    BY <1>t, Pushed DEF ConnectType
  <2> HIDE <1>1
  <2>2. stack' \in [Procs -> Seq(Calls)]
    BY <1>2, <2>1, <1>t DEF ConnectType
  <2> QED
    BY <1>2, <2>2, <1>t DEF ConnectType, Places
<1>7. ConnectType'
  BY <1>2, <1>4, <1>5, <1>6, <1>t DEF ConnectType
<1>8. OthersKeep(c) /\ place'[c] = "probing"
  BY <1>2, <1>3, <1>t DEF OthersKeep, ConnectType
<1>9. Given(c)
  BY <1>1, <1>3, <1>t DEF Given, ConnectType
<1> QED
  BY <1>1, <1>2, <1>4, <1>7, <1>8, <1>9

(* The innermost connect returns.                                          *)
LEMMA PopEffect ==
    ASSUME ConnectIInv, NEW p \in Procs, ProbeAttaches(p) \/ ProbeEnds(p) \/ ProbeError(p),
           NEW c \in Calls, c = Head(stack[p])
    PROVE  /\ ConnectType' /\ stack[p] # <<>> /\ place[c] = "probing"
           /\ stack' = [stack EXCEPT ![p] = Tail(stack[p])]
           /\ OthersKeep(c) /\ Given(c) /\ Returned(c)
           /\ answer'[c] = "Os" => gave'[c] = Nil
           /\ cell'[p] = Nil /\ \A q \in Procs : q # p => cell'[q] = cell[q]
<1>t. ConnectType
  BY DEF ConnectIInv
<1>n. Nil \notin Calls /\ "NotFound" \notin Calls /\ "Os" \notin Calls
  BY ErrorsType
<1>1. stack[p] # <<>> /\ place[c] = "probing"
  BY DEF ProbeAttaches, ProbeEnds, ProbeError, Probing
<1>2. cell[p] = gave[c] /\ gave[c] \in Calls \cup {Nil}
  BY <1>1, <1>t, Top DEF ConnectType
<1>3. stack' = [stack EXCEPT ![p] = Tail(stack[p])] /\ stack' \in [Procs -> Seq(Calls)]
  <2>1. Tail(stack[p]) \in Seq(Calls)
    BY <1>1, <1>t, Popped DEF ConnectType
  <2>2. stack' = [stack EXCEPT ![p] = Tail(stack[p])]
    BY DEF ProbeAttaches, ProbeEnds, ProbeError
  <2> QED
    BY <2>1, <2>2, <1>t DEF ConnectType
<1>4. CASE ProbeAttaches(p)
  <2>1. refs[c] = 0
    <3>1. refs[c] \in Nat /\ (refs[c] > 0 => gave[c] = c)
      BY DEF ConnectIInv, ConnectType, Known
    <3>2. gave[c] = Nil
      BY <1>4 DEF ProbeAttaches
    <3> QED
      BY <3>1, <3>2, <1>n
  <2>2. /\ gave[c] = Nil /\ gave' = [gave EXCEPT ![c] = c] /\ refs' = [refs EXCEPT ![c] = 1]
        /\ Take(p, c, [cell EXCEPT ![Cell(p)] = c])
    BY <1>4 DEF ProbeAttaches
  <2>3. [cell EXCEPT ![p] = c][p] = c
    BY <1>t DEF ConnectType
  <2>4. /\ cell' = [[cell EXCEPT ![p] = c] EXCEPT ![p] = Nil]
        /\ place' = [place EXCEPT ![c] = "returned"] /\ answer' = [answer EXCEPT ![c] = c]
        /\ owned' = [owned EXCEPT ![c] = TRUE]
    BY <2>2, <2>3, <1>n DEF Take, Returns, Cell
  <2>5. ConnectType'
    BY <2>2, <2>4, <1>3, <1>t DEF ConnectType, Places
  <2>6. OthersKeep(c) /\ Returned(c) /\ answer'[c] # "Os"
    BY <2>2, <2>4, <1>t, <1>n DEF ConnectType, OthersKeep, Returned
  <2>7. Given(c)
    <3>1. refs' = [refs EXCEPT ![c] = refs[c] + 1] /\ gave'[c] = c
      BY <2>1, <2>2, <1>t DEF ConnectType
    <3> QED
      BY <3>1, <2>2 DEF Given
  <2>8. cell'[p] = Nil /\ \A q \in Procs : q # p => cell'[q] = cell[q]
    BY <2>4, <1>t DEF ConnectType
  <2> QED
    BY <1>1, <1>3, <2>5, <2>6, <2>7, <2>8
<1>5. CASE ProbeEnds(p)
  <2>1. gave' = gave /\ refs' = refs /\ Take(p, c, cell)
    BY <1>5 DEF ProbeEnds
  <2>2. /\ cell' = [cell EXCEPT ![p] = Nil]
        /\ place' \in [Calls -> Places] /\ owned' \in [Calls -> BOOLEAN]
        /\ answer' \in [Calls -> Calls \cup Errors \cup {Nil}]
        /\ place'[c] = "returned"
        /\ \/ gave[c] \in Calls /\ answer'[c] = gave[c] /\ owned'[c]
           \/ gave[c] = Nil /\ answer'[c] = "NotFound" /\ ~owned'[c]
        /\ \A d \in Calls : d # c =>
              place'[d] = place[d] /\ answer'[d] = answer[d] /\ owned'[d] = owned[d]
    <3>1. PICK v \in Calls \cup Errors : v = IF gave[c] # Nil THEN gave[c] ELSE "NotFound"
      BY <1>2, ErrorsType
    <3>2. Returns(c, v) /\ cell' = [cell EXCEPT ![p] = Nil]
      BY <2>1, <3>1, <1>2 DEF Take, Cell
    <3> QED
      BY <3>1, <3>2, <1>2, <1>t, <1>n, ReturnsEffect
  <2>3. ConnectType'
    BY <2>1, <2>2, <1>2, <1>3, <1>t DEF ConnectType
  <2>4. OthersKeep(c) /\ Returned(c) /\ answer'[c] # "Os"
    BY <2>1, <2>2, <1>2, <1>t, <1>n DEF ConnectType, OthersKeep, Returned
  <2>5. Given(c)
    BY <2>1 DEF Given
  <2>6. cell'[p] = Nil /\ \A q \in Procs : q # p => cell'[q] = cell[q]
    BY <2>2, <1>t DEF ConnectType
  <2> QED
    BY <1>1, <1>3, <2>3, <2>4, <2>5, <2>6
<1>6. CASE ProbeError(p)
  <2>1. /\ gave' = gave /\ refs' = refs /\ cell' = cell /\ gave[c] = Nil
        /\ Returns(c, "Os")
    BY <1>6 DEF ProbeError
  <2>2. /\ place' \in [Calls -> Places] /\ owned' \in [Calls -> BOOLEAN]
        /\ answer' \in [Calls -> Calls \cup Errors \cup {Nil}]
        /\ place'[c] = "returned" /\ answer'[c] = "Os" /\ ~owned'[c]
        /\ \A d \in Calls : d # c =>
              place'[d] = place[d] /\ answer'[d] = answer[d] /\ owned'[d] = owned[d]
    BY <2>1, <1>t, <1>n, ErrorsType, ReturnsEffect
  <2>3. ConnectType'
    BY <2>1, <2>2, <1>3, <1>t DEF ConnectType
  <2>4. OthersKeep(c) /\ Returned(c) /\ Given(c)
    BY <2>1, <2>2 DEF OthersKeep, Returned, Given
  <2> QED
    BY <1>1, <1>2, <1>3, <2>1, <2>3, <2>4
<1> QED
  BY <1>4, <1>5, <1>6

(* A connect turns between its probe and its poll; nothing was announced.  *)
Turns(p) == ProbeAgain(p) \/ PollReturns(p)

LEMMA TurnEffect ==
    ASSUME ConnectIInv, NEW p \in Procs, Turns(p), NEW c \in Calls, c = Head(stack[p])
    PROVE  /\ ConnectType' /\ stack[p] # <<>> /\ gave[c] = Nil
           /\ place[c] \in {"probing", "polling"} /\ place'[c] \in {"probing", "polling"}
           /\ \A d \in Calls : d # c => place'[d] = place[d]
           /\ UNCHANGED <<stack, cell, answer, owned, refs, gave>>
<1>1. stack[p] # <<>>
  BY DEF Turns, ProbeAgain, PollReturns, Probing
<1>2. gave[c] = Nil /\ place[c] \in {"probing", "polling"}
  BY <1>1, Top DEF Turns, ProbeAgain, PollReturns
<1>3. /\ UNCHANGED <<stack, cell, answer, owned, refs, gave>>
      /\ place' = [place EXCEPT ![c] = "polling"] \/ place' = [place EXCEPT ![c] = "probing"]
  BY DEF Turns, ProbeAgain, PollReturns
<1> QED
  BY <1>1, <1>2, <1>3 DEF ConnectIInv, ConnectType, Places

(* A controller dropped gives its reference back.                          *)
LEMMA DropEffect ==
    ASSUME ConnectIInv, NEW c \in Calls, DropController(c)
    PROVE  /\ ConnectType' /\ answer[c] \in Calls /\ owned[c] /\ ~owned'[c]
           /\ place[c] = "returned" /\ refs[answer[c]] > 0
           /\ \A d \in Calls : d # c => owned'[d] = owned[d]
           /\ refs' = [refs EXCEPT ![answer[c]] = refs[answer[c]] - 1]
           /\ UNCHANGED <<stack, place, cell, answer, gave>>
<1>1. /\ owned[c] /\ answer[c] \in Calls /\ place[c] = "returned"
  BY DEF DropController, ConnectIInv, Values
<1>2. refs[answer[c]] \in Nat /\ refs[answer[c]] > 0
  <2>1. c \in Holders(answer[c])
    BY <1>1 DEF Holders, Holds
  <2>2. IsFiniteSet(Holders(answer[c])) /\ refs[answer[c]] = Cardinality(Holders(answer[c]))
    BY <1>1 DEF ConnectIInv, Counted
  <2>3. Cardinality(Holders(answer[c])) # 0
    BY <2>1, <2>2, FS_EmptySet
  <2>4. refs[answer[c]] \in Nat
    BY <1>1 DEF ConnectIInv, ConnectType
  <2> QED
    BY <2>2, <2>3, <2>4
<1>3. /\ refs' = [refs EXCEPT ![answer[c]] = refs[answer[c]] - 1]
      /\ owned' = [owned EXCEPT ![c] = FALSE]
      /\ UNCHANGED <<stack, place, cell, answer, gave>>
  BY DEF DropController
<1>4. refs[answer[c]] - 1 \in Nat
  BY <1>2
<1> QED
  BY <1>1, <1>2, <1>3, <1>4 DEF ConnectIInv, ConnectType

(* These are all the steps there are.                                      *)
LEMMA Steps ==
    ASSUME [ConnectNext]_connectVars
    PROVE  \/ \E p \in Procs, c \in Calls : Quick(p, c)
           \/ \E p \in Procs, c \in Calls, k \in Calls \cup {Nil} : ConnectStart(p, c, k)
           \/ \E p \in Procs : Turns(p)
           \/ \E p \in Procs : ProbeAttaches(p) \/ ProbeEnds(p) \/ ProbeError(p)
           \/ \E c \in Calls : DropController(c)
           \/ UNCHANGED connectVars
BY DEF ConnectNext, Quick, Turns

LEMMA NextConnectType == ConnectIInv /\ [ConnectNext]_connectVars => ConnectType'
<1> SUFFICES ASSUME ConnectIInv, [ConnectNext]_connectVars PROVE ConnectType'
  OBVIOUS
<1>1. ASSUME NEW p \in Procs, NEW c \in Calls, Quick(p, c) PROVE ConnectType'
  BY <1>1, QuickEffect
<1>2. ASSUME NEW p \in Procs, NEW c \in Calls, NEW k \in Calls \cup {Nil}, ConnectStart(p, c, k)
      PROVE  ConnectType'
  BY <1>2, StartEffect
<1>3. ASSUME NEW p \in Procs, Turns(p) PROVE ConnectType'
  <2>1. Head(stack[p]) \in Calls
    BY <1>3, Top DEF Turns, ProbeAgain, PollReturns, Probing
  <2> QED
    BY <1>3, <2>1, TurnEffect
<1>4. ASSUME NEW p \in Procs, ProbeAttaches(p) \/ ProbeEnds(p) \/ ProbeError(p) PROVE ConnectType'
  <2>1. Head(stack[p]) \in Calls
    BY <1>4, Top DEF ProbeAttaches, ProbeEnds, ProbeError, Probing
  <2> QED
    BY <1>4, <2>1, PopEffect
<1>5. ASSUME NEW c \in Calls, DropController(c) PROVE ConnectType'
  BY <1>5, DropEffect
<1>6. ASSUME UNCHANGED connectVars PROVE ConnectType'
  BY <1>6 DEF ConnectIInv, ConnectType, connectVars
<1> QED
  BY <1>1, <1>2, <1>3, <1>4, <1>5, <1>6, Steps

-------------------------------------------------------------------------------
LEMMA NextStacks == ConnectIInv /\ [ConnectNext]_connectVars => Stacks' /\ CellsTracked'
<1> SUFFICES ASSUME ConnectIInv, [ConnectNext]_connectVars PROVE Stacks' /\ CellsTracked'
  OBVIOUS
<1>t. ConnectType /\ Stacks /\ CellsTracked /\ Nil \notin Calls
  BY ErrorsType DEF ConnectIInv
<1>s. ASSUME NEW q \in Procs
      PROVE  /\ Len(stack[q]) \in Nat
             /\ \A i \in 1 .. Len(stack[q]) : stack[q][i] \in Calls
             /\ stack[q] # <<>> => /\ Len(stack[q]) >= 1 /\ Head(stack[q]) = stack[q][1]
                                   /\ cell[q] = gave[stack[q][1]]
  <2>1. stack[q] \in Seq(Calls)
    BY <1>t DEF ConnectType
  <2> QED
    BY <2>1, <1>t, LenProperties, ElementOfSeq, Popped DEF CellsTracked
<1>0. ASSUME UNCHANGED stack,
             \A q \in Procs : stack[q] # <<>> => cell'[q] = cell[q],
             \A q \in Procs : \A i \in 1 .. Len(stack[q]) :
                 /\ place'[stack[q][i]] \in {"probing", "polling"}
                 /\ i > 1 => place'[stack[q][i]] = place[stack[q][i]]
                 /\ gave'[stack[q][i]] = gave[stack[q][i]]
                 /\ place'[stack[q][i]] = "polling" => gave[stack[q][i]] = Nil
      PROVE  Stacks' /\ CellsTracked'
  <2>1. Stacks'
    BY <1>0, <1>t DEF Stacks
  <2>2. CellsTracked'
    <3> SUFFICES ASSUME NEW q \in Procs, stack[q] # <<>> PROVE cell'[q] = gave'[Head(stack[q])]
      BY <1>0 DEF CellsTracked
    <3>1. 1 \in 1 .. Len(stack[q])
      BY <1>s
    <3> QED
      BY <3>1, <1>0, <1>s
  <2> QED
    BY <2>1, <2>2
<1>1. ASSUME NEW p \in Procs, NEW c \in Calls, Quick(p, c) PROVE Stacks' /\ CellsTracked'
  <2>1. /\ place[c] = "none" /\ OthersKeep(c) /\ stack' = stack
        /\ \A q \in Procs : stack[q] # <<>> => cell'[q] = cell[q]
    BY <1>1, QuickEffect
  <2>2. \A q \in Procs : \A i \in 1 .. Len(stack[q]) :
            /\ stack[q][i] \in Calls /\ stack[q][i] # c
            /\ place[stack[q][i]] \in {"probing", "polling"}
            /\ place[stack[q][i]] = "polling" => gave[stack[q][i]] = Nil
    BY <2>1, <1>s, <1>t, Fresh DEF Stacks
  <2> QED
    BY <2>1, <2>2, <1>0 DEF OthersKeep
<1>2. ASSUME NEW p \in Procs, NEW c \in Calls, NEW k \in Calls \cup {Nil}, ConnectStart(p, c, k)
      PROVE  Stacks' /\ CellsTracked'
  <2>1. /\ place[c] = "none" /\ place'[c] = "probing" /\ OthersKeep(c)
        /\ stack' = [stack EXCEPT ![p] = <<c>> \o stack[p]]
        /\ cell'[p] = gave'[c] /\ \A q \in Procs : q # p => cell'[q] = cell[q]
        /\ stack[p] # <<>> => place[Head(stack[p])] = "polling"
    BY <1>2, StartEffect
  <2> DEFINE n == Len(stack[p])
             s == stack[p]
             t == stack'[p]
  <2>2. /\ Len(t) = n + 1 /\ n \in Nat /\ t[1] = c /\ Head(t) = c
        /\ \A i \in 1 .. n : t[i + 1] = s[i]
    <3>1. t = <<c>> \o s /\ s \in Seq(Calls)
      BY <2>1, <1>t DEF ConnectType
    <3> HIDE DEF s, t
    <3> QED
      BY <3>1, Pushed DEF s
  <2>3. \A q \in Procs : q # p => stack'[q] = stack[q]
    BY <2>1, <1>t DEF ConnectType
  <2>4. \A q \in Procs : \A i \in 1 .. Len(stack[q]) :
            LET d == stack[q][i] IN
            /\ d \in Calls /\ d # c
            /\ place'[d] = place[d] /\ gave'[d] = gave[d]
            /\ place[d] \in {"probing", "polling"}
            /\ i > 1 => place[d] = "polling"
            /\ place[d] = "polling" => gave[d] = Nil
            /\ \A r \in Procs : \A j \in 1 .. Len(stack[r]) : stack[r][j] = d => r = q /\ j = i
    BY <2>1, <1>s, <1>t, Fresh DEF Stacks, OthersKeep
  <2>5. \A i \in 1 .. n : place[s[i]] = "polling"
    <3> SUFFICES ASSUME NEW i \in 1 .. n PROVE place[s[i]] = "polling"
      OBVIOUS
    <3>1. s # <<>>
      BY EmptySeq
    <3>2. CASE i = 1
      BY <3>1, <3>2, <2>1, <1>s
    <3>3. CASE i # 1
      <4>1. i > 1
        BY <3>3, <2>2
      <4> QED
        BY <4>1, <2>4
    <3> QED
      BY <3>2, <3>3
  <2>6. Stacks'
    <3>1. ASSUME NEW q \in Procs, q # p, NEW i \in 1 .. Len(stack[q])
          PROVE  /\ place'[stack[q][i]] \in {"probing", "polling"}
                 /\ i > 1 => place'[stack[q][i]] = "polling"
                 /\ place'[stack[q][i]] = "polling" => gave'[stack[q][i]] = Nil
                 /\ \A j \in 1 .. n + 1 : t[j] # stack[q][i]
                 /\ \A r \in Procs : \A j \in 1 .. Len(stack[r]) :
                       stack[r][j] = stack[q][i] => r = q /\ j = i
      <4>1. ASSUME NEW j \in 1 .. n + 1 PROVE t[j] # stack[q][i]
        <5>1. stack[q][i] # c /\ \A h \in 1 .. n : s[h] # stack[q][i]
          BY <3>1, <2>4
        <5> HIDE DEF n, s, t
        <5>2. j = 1 \/ (j - 1 \in 1 .. n /\ (j - 1) + 1 = j)
          BY <2>2
        <5> QED
          BY <5>1, <5>2, <2>2
      <4> QED
        BY <4>1, <2>4
    <3>2. ASSUME NEW i \in 1 .. n + 1
          PROVE  /\ place'[t[i]] \in {"probing", "polling"}
                 /\ i > 1 => place'[t[i]] = "polling"
                 /\ place'[t[i]] = "polling" => gave'[t[i]] = Nil
                 /\ \A j \in 1 .. n + 1 : t[j] = t[i] => j = i
      <4>1. \A h \in 1 .. n : /\ place'[s[h]] = "polling" /\ gave'[s[h]] = Nil /\ s[h] # c
                              /\ \A j \in 1 .. n : s[j] = s[h] => j = h
        BY <2>4, <2>5
      <4> HIDE DEF n, s, t
      <4>2. \A j \in 1 .. n + 1 : j = 1 \/ (j - 1 \in 1 .. n /\ (j - 1) + 1 = j)
        BY <2>2
      <4>3. CASE i = 1
        <5>1. place'[t[i]] = "probing" /\ t[i] = c
          BY <4>3, <2>1, <2>2
        <5>2. ASSUME NEW j \in 1 .. n + 1, t[j] = c PROVE j = 1
          <6>1. CASE j # 1
            <7>1. t[j] = s[j - 1] /\ s[j - 1] # c
              BY <6>1, <4>1, <4>2, <2>2
            <7> QED
              BY <7>1, <5>2
          <6> QED
            BY <6>1
        <5> QED
          BY <5>1, <5>2, <4>3
      <4>4. CASE i # 1
        <5>1. i - 1 \in 1 .. n /\ (i - 1) + 1 = i /\ t[i] = s[i - 1]
          BY <4>2, <4>4, <2>2
        <5>2. ASSUME NEW j \in 1 .. n + 1, t[j] = t[i] PROVE j = i
          <6>1. j # 1
            BY <5>1, <5>2, <4>1, <2>2
          <6>2. j - 1 \in 1 .. n /\ (j - 1) + 1 = j /\ t[j] = s[j - 1]
            BY <6>1, <4>2, <2>2
          <6>3. j - 1 = i - 1
            BY <5>1, <5>2, <6>2, <4>1
          <6> QED
            BY <6>3, <6>2, <5>1
        <5> QED
          BY <5>1, <5>2, <4>1
      <4> QED
        BY <4>3, <4>4
    <3> SUFFICES ASSUME NEW q \in Procs, NEW i \in 1 .. Len(stack'[q])
                 PROVE  /\ place'[stack'[q][i]] \in {"probing", "polling"}
                        /\ i > 1 => place'[stack'[q][i]] = "polling"
                        /\ place'[stack'[q][i]] = "polling" => gave'[stack'[q][i]] = Nil
                        /\ \A r \in Procs : \A j \in 1 .. Len(stack'[r]) :
                              stack'[r][j] = stack'[q][i] => r = q /\ j = i
      BY DEF Stacks
    <3>3. CASE q = p
      <4>1. i \in 1 .. n + 1
        BY <3>3, <2>2
      <4>2. ASSUME NEW r \in Procs, NEW j \in 1 .. Len(stack'[r]), stack'[r][j] = t[i]
            PROVE  r = p /\ j = i
        <5>1. CASE r = p
          <6>1. j \in 1 .. n + 1
            BY <5>1, <2>2
          <6> QED
            BY <6>1, <4>1, <4>2, <5>1, <3>2
        <5>2. CASE r # p
          <6>1. stack'[r] = stack[r] /\ j \in 1 .. Len(stack[r])
            BY <5>2, <2>3
          <6>2. t[i] # stack[r][j]
            BY <6>1, <5>2, <4>1, <3>1
          <6> QED
            BY <6>1, <6>2, <4>2
        <5> QED
          BY <5>1, <5>2
      <4> QED
        BY <3>3, <4>1, <4>2, <3>2
    <3>4. CASE q # p
      <4>1. stack'[q] = stack[q] /\ i \in 1 .. Len(stack[q])
        BY <3>4, <2>3
      <4>2. ASSUME NEW r \in Procs, NEW j \in 1 .. Len(stack'[r]), stack'[r][j] = stack[q][i]
            PROVE  r = q /\ j = i
        <5>1. CASE r = p
          <6>1. j \in 1 .. n + 1
            BY <5>1, <2>2
          <6> QED
            BY <6>1, <5>1, <4>1, <4>2, <3>4, <3>1
        <5>2. CASE r # p
          BY <5>2, <2>3, <4>1, <4>2, <3>4, <3>1
        <5> QED
          BY <5>1, <5>2
      <4> QED
        BY <4>1, <4>2, <3>4, <3>1
    <3> QED
      BY <3>3, <3>4
  <2>7. CellsTracked'
    <3> SUFFICES ASSUME NEW q \in Procs, stack'[q] # <<>> PROVE cell'[q] = gave'[Head(stack'[q])]
      BY DEF CellsTracked
    <3>1. CASE q = p
      BY <3>1, <2>1, <2>2
    <3>2. CASE q # p
      <4>1. stack'[q] = stack[q] /\ 1 \in 1 .. Len(stack[q])
        BY <3>2, <2>3, <1>s
      <4> QED
        BY <3>2, <4>1, <2>1, <2>4, <1>s
    <3> QED
      BY <3>1, <3>2
  <2> QED
    BY <2>6, <2>7
<1>3. ASSUME NEW p \in Procs, Turns(p) PROVE Stacks' /\ CellsTracked'
  <2>0. stack[p] # <<>>
    BY <1>3 DEF Turns, ProbeAgain, PollReturns, Probing
  <2>1. PICK c \in Calls : c = Head(stack[p])
    BY <2>0, Top
  <2>2. /\ gave[c] = Nil /\ place'[c] \in {"probing", "polling"}
        /\ \A d \in Calls : d # c => place'[d] = place[d]
        /\ UNCHANGED <<stack, cell, gave>>
    BY <1>3, <2>1, TurnEffect
  <2>3. c = stack[p][1] /\ 1 \in 1 .. Len(stack[p])
    BY <2>0, <2>1, <1>s
  <2>4. ASSUME NEW q \in Procs, NEW i \in 1 .. Len(stack[q])
        PROVE  /\ place'[stack[q][i]] \in {"probing", "polling"}
               /\ i > 1 => place'[stack[q][i]] = place[stack[q][i]]
               /\ place'[stack[q][i]] = "polling" => gave[stack[q][i]] = Nil
    <3>1. /\ stack[q][i] \in Calls
          /\ place[stack[q][i]] \in {"probing", "polling"}
          /\ place[stack[q][i]] = "polling" => gave[stack[q][i]] = Nil
          /\ stack[q][i] = c => q = p /\ i = 1
      BY <2>3, <1>s, <1>t DEF Stacks
    <3>2. CASE stack[q][i] = c
      BY <3>1, <3>2, <2>2
    <3>3. CASE stack[q][i] # c
      BY <3>1, <3>3, <2>2
    <3> QED
      BY <3>2, <3>3
  <2> QED
    BY <2>2, <2>4, <1>0
<1>4. ASSUME NEW p \in Procs, ProbeAttaches(p) \/ ProbeEnds(p) \/ ProbeError(p)
      PROVE  Stacks' /\ CellsTracked'
  <2>0. stack[p] # <<>>
    BY <1>4 DEF ProbeAttaches, ProbeEnds, ProbeError, Probing
  <2>1. PICK c \in Calls : c = Head(stack[p])
    BY <2>0, Top
  <2>2. /\ OthersKeep(c) /\ stack' = [stack EXCEPT ![p] = Tail(stack[p])]
        /\ cell'[p] = Nil /\ \A q \in Procs : q # p => cell'[q] = cell[q]
    BY <1>4, <2>1, PopEffect
  <2> DEFINE n == Len(stack[p])
             s == stack[p]
             t == stack'[p]
  <2>3. /\ c = s[1] /\ n \in Nat /\ n >= 1 /\ Len(t) = n - 1
        /\ \A i \in 1 .. n - 1 : t[i] = s[i + 1]
        /\ t # <<>> => n >= 2 /\ Head(t) = s[2]
    <3>1. t = Tail(s) /\ s \in Seq(Calls)
      BY <2>2, <1>t DEF ConnectType
    <3> HIDE DEF s, t
    <3> QED
      BY <3>1, <2>0, <2>1, Popped DEF s
  <2>4. \A q \in Procs : q # p => stack'[q] = stack[q]
    BY <2>2, <1>t DEF ConnectType
  <2>5. /\ 1 \in 1 .. n
        /\ \A q \in Procs : \A i \in 1 .. Len(stack[q]) :
              LET d == stack[q][i] IN
              /\ d = c => q = p /\ i = 1
              /\ d # c => place'[d] = place[d] /\ gave'[d] = gave[d]
              /\ place[d] \in {"probing", "polling"}
              /\ i > 1 => place[d] = "polling"
              /\ place[d] = "polling" => gave[d] = Nil
              /\ \A r \in Procs : \A j \in 1 .. Len(stack[r]) : stack[r][j] = d => r = q /\ j = i
    <3>1. 1 \in 1 .. n /\ stack[p][1] = c
      BY <2>3
    <3> QED
      BY <3>1, <2>2, <1>s, <1>t DEF Stacks, OthersKeep
  <2>6. ASSUME NEW q \in Procs, NEW i \in 1 .. Len(stack'[q])
        PROVE  \E h \in 1 .. Len(stack[q]) :
                   /\ stack'[q][i] = stack[q][h] /\ stack[q][h] # c
                   /\ IF q = p THEN h = i + 1 ELSE h = i
    <3>1. CASE q = p
      <4>1. i \in 1 .. n - 1 /\ t[i] = s[i + 1]
        BY <3>1, <2>3
      <4>2. i + 1 \in 1 .. n /\ i + 1 # 1
        <5> HIDE DEF n
        <5> QED
          BY <4>1, <2>3
      <4> QED
        BY <3>1, <4>1, <4>2, <2>5
    <3>2. CASE q # p
      <4>1. stack'[q] = stack[q] /\ i \in 1 .. Len(stack[q])
        BY <3>2, <2>4
      <4>2. stack[q][i] # c
        BY <3>2, <4>1, <2>5
      <4> QED
        BY <3>2, <4>1, <4>2
    <3> QED
      BY <3>1, <3>2
  <2>7. Stacks'
    <3> SUFFICES ASSUME NEW q \in Procs, NEW i \in 1 .. Len(stack'[q])
                 PROVE  /\ place'[stack'[q][i]] \in {"probing", "polling"}
                        /\ i > 1 => place'[stack'[q][i]] = "polling"
                        /\ place'[stack'[q][i]] = "polling" => gave'[stack'[q][i]] = Nil
                        /\ \A r \in Procs : \A j \in 1 .. Len(stack'[r]) :
                              stack'[r][j] = stack'[q][i] => r = q /\ j = i
      BY DEF Stacks
    <3>1. PICK h \in 1 .. Len(stack[q]) :
              /\ stack'[q][i] = stack[q][h] /\ stack[q][h] # c
              /\ IF q = p THEN h = i + 1 ELSE h = i
      BY <2>6
    <3>2. h \in Nat /\ i \in Nat /\ (i > 1 => h > 1)
      BY <3>1
    <3>3. ASSUME NEW r \in Procs, NEW j \in 1 .. Len(stack'[r]), stack'[r][j] = stack'[q][i]
          PROVE  r = q /\ j = i
      <4>1. PICK g \in 1 .. Len(stack[r]) :
                /\ stack'[r][j] = stack[r][g]
                /\ IF r = p THEN g = j + 1 ELSE g = j
        BY <2>6
      <4>2. r = q /\ g = h
        <5>1. \A x \in Procs : \A y \in 1 .. Len(stack[x]) :
                  stack[x][y] = stack[q][h] => x = q /\ y = h
          BY <2>5
        <5>2. stack[r][g] = stack[q][h]
          BY <4>1, <3>1, <3>3
        <5> QED
          BY <5>1, <5>2
      <4>3. j \in Nat
        OBVIOUS
      <4> QED
        BY <4>1, <4>2, <4>3, <3>1, <3>2
    <3> QED
      BY <3>1, <3>2, <3>3, <2>5
  <2>8. CellsTracked'
    <3> SUFFICES ASSUME NEW q \in Procs, stack'[q] # <<>> PROVE cell'[q] = gave'[Head(stack'[q])]
      BY DEF CellsTracked
    <3>1. CASE q = p
      <4>1. n >= 2 /\ Head(t) = s[2]
        BY <3>1, <2>3
      <4>2. 2 \in 1 .. n /\ 2 > 1
        <5> HIDE DEF n
        <5> QED
          BY <4>1, <2>3
      <4>3. s[2] # c /\ gave[s[2]] = Nil /\ gave'[s[2]] = gave[s[2]]
        BY <4>2, <2>5
      <4> QED
        BY <3>1, <4>1, <4>3, <2>2
    <3>2. CASE q # p
      <4>1. stack'[q] = stack[q] /\ 1 \in 1 .. Len(stack[q])
        BY <3>2, <2>4, <1>s
      <4> QED
        BY <3>2, <4>1, <2>2, <2>5, <1>s
    <3> QED
      BY <3>1, <3>2
  <2> QED
    BY <2>7, <2>8
<1>5. ASSUME NEW c \in Calls, DropController(c) PROVE Stacks' /\ CellsTracked'
  <2>1. UNCHANGED <<stack, place, cell, gave>>
    BY <1>5, DropEffect
  <2> QED
    BY <2>1, <1>t DEF Stacks, CellsTracked
<1>6. ASSUME UNCHANGED connectVars PROVE Stacks' /\ CellsTracked'
  BY <1>6, <1>t DEF Stacks, CellsTracked, connectVars
<1> QED
  BY <1>1, <1>2, <1>3, <1>4, <1>5, <1>6, Steps

-------------------------------------------------------------------------------
LEMMA NextValues == ConnectIInv /\ [ConnectNext]_connectVars => Values' /\ ResultIsOwn'
<1> SUFFICES ASSUME ConnectIInv, [ConnectNext]_connectVars PROVE Values' /\ ResultIsOwn'
  OBVIOUS
<1>t. ConnectType /\ Values /\ ResultIsOwn
  BY DEF ConnectIInv
<1>n. /\ Nil \notin Calls /\ "NotFound" \notin Calls /\ "Os" \notin Calls
      /\ "NotFound" # Nil /\ "Os" # Nil
  BY ErrorsType
(* A connect of which this much is known, and of the others that they keep *)
(* what they have.                                                         *)
<1>0. ASSUME NEW c \in Calls, OthersKeep(c),
             /\ place'[c] = "none" => gave'[c] = Nil
             /\ place'[c] # "returned" => answer'[c] = Nil /\ ~owned'[c]
             /\ place'[c] = "returned" => answer'[c] # Nil
             /\ owned'[c] => answer'[c] \in Calls
             /\ answer'[c] \in Calls => answer'[c] = gave'[c]
             /\ answer'[c] = "NotFound" => gave'[c] = Nil
      PROVE  Values' /\ ResultIsOwn'
  <2> SUFFICES ASSUME NEW d \in Calls
               PROVE  /\ place'[d] = "none" => gave'[d] = Nil
                      /\ place'[d] # "returned" => answer'[d] = Nil /\ ~owned'[d]
                      /\ place'[d] = "returned" => answer'[d] # Nil
                      /\ owned'[d] => answer'[d] \in Calls
                      /\ answer'[d] \in Calls => answer'[d] = gave'[d]
                      /\ answer'[d] = "NotFound" => gave'[d] = Nil
    BY DEF Values, ResultIsOwn
  <2>1. CASE d = c
    BY <2>1, <1>0
  <2>2. CASE d # c
    BY <2>2, <1>0, <1>t DEF OthersKeep, Values, ResultIsOwn
  <2> QED
    BY <2>1, <2>2
<1>r. ASSUME NEW c \in Calls, OthersKeep(c), Returned(c) PROVE Values' /\ ResultIsOwn'
  <2>1. /\ place'[c] = "returned" /\ answer'[c] # Nil
        /\ owned'[c] => answer'[c] \in Calls
        /\ answer'[c] \in Calls => answer'[c] = gave'[c]
        /\ answer'[c] = "NotFound" => gave'[c] = Nil
    BY <1>r, <1>n DEF Returned
  <2> QED
    BY <2>1, <1>r, <1>0
<1>1. ASSUME NEW p \in Procs, NEW c \in Calls, Quick(p, c) PROVE Values' /\ ResultIsOwn'
  BY <1>1, <1>r, QuickEffect
<1>2. ASSUME NEW p \in Procs, NEW c \in Calls, NEW k \in Calls \cup {Nil}, ConnectStart(p, c, k)
      PROVE  Values' /\ ResultIsOwn'
  <2>1. /\ OthersKeep(c) /\ place[c] = "none" /\ place'[c] = "probing"
        /\ UNCHANGED <<answer, owned>>
    BY <1>2, StartEffect
  <2>2. answer'[c] = Nil /\ ~owned'[c]
    BY <2>1, Fresh
  <2> QED
    BY <2>1, <2>2, <1>n, <1>0
<1>3. ASSUME NEW p \in Procs, Turns(p) PROVE Values' /\ ResultIsOwn'
  <2>1. PICK c \in Calls : c = Head(stack[p])
    BY <1>3, Top DEF Turns, ProbeAgain, PollReturns, Probing
  <2>2. /\ place[c] \in {"probing", "polling"} /\ place'[c] \in {"probing", "polling"}
        /\ \A d \in Calls : d # c => place'[d] = place[d]
        /\ UNCHANGED <<answer, owned, gave>>
    BY <1>3, <2>1, TurnEffect
  <2>3. OthersKeep(c)
    BY <2>2 DEF OthersKeep
  <2>4. answer'[c] = Nil /\ ~owned'[c]
    BY <2>2, <1>t DEF Values
  <2> QED
    BY <2>2, <2>3, <2>4, <1>n, <1>0
<1>4. ASSUME NEW p \in Procs, ProbeAttaches(p) \/ ProbeEnds(p) \/ ProbeError(p)
      PROVE  Values' /\ ResultIsOwn'
  <2>1. PICK c \in Calls : c = Head(stack[p])
    BY <1>4, Top DEF ProbeAttaches, ProbeEnds, ProbeError, Probing
  <2> QED
    BY <1>4, <2>1, <1>r, PopEffect
<1>5. ASSUME NEW c \in Calls, DropController(c) PROVE Values' /\ ResultIsOwn'
  <2>1. /\ ~owned'[c] /\ place[c] = "returned" /\ \A d \in Calls : d # c => owned'[d] = owned[d]
        /\ UNCHANGED <<place, answer, gave>>
    BY <1>5, DropEffect
  <2> QED
    BY <2>1, <1>t DEF Values, ResultIsOwn
<1>6. ASSUME UNCHANGED connectVars PROVE Values' /\ ResultIsOwn'
  BY <1>6, <1>t DEF connectVars, Values, ResultIsOwn
<1> QED
  BY <1>1, <1>2, <1>3, <1>4, <1>5, <1>6, Steps

-------------------------------------------------------------------------------
(* Counting: a connect that is given a controller joins its holders; one   *)
(* that only moves on, returning what it was given, stays among them.      *)
LEMMA Joins ==
    ASSUME Counted, NEW c \in Calls, NEW k \in Calls, ConnectType,
           \A j \in Calls : ~Holds(c, j),
           \A j \in Calls : Holds(c, j)' <=> j = k,
           \A d \in Calls : d # c => \A j \in Calls : Holds(d, j)' <=> Holds(d, j),
           refs' = [refs EXCEPT ![k] = refs[k] + 1]
    PROVE  Counted'
<1>1. Holders(k)' = Holders(k) \cup {c} /\ c \notin Holders(k)
  BY DEF Holders
<1>2. \A j \in Calls : j # k => Holders(j)' = Holders(j)
  BY DEF Holders
<1>3. refs'[k] = refs[k] + 1 /\ \A j \in Calls : j # k => refs'[j] = refs[j]
  BY DEF ConnectType
<1>4. IsFiniteSet(Holders(k)) /\ refs[k] = Cardinality(Holders(k))
  BY DEF Counted
<1>5. IsFiniteSet(Holders(k)') /\ Cardinality(Holders(k)') = refs[k] + 1
  BY <1>1, <1>4, FS_AddElement
<1> QED
  BY <1>2, <1>3, <1>5 DEF Counted

LEMMA Stays ==
    ASSUME Counted, NEW c \in Calls,
           \A d, j \in Calls : Holds(d, j)' <=> Holds(d, j), refs' = refs
    PROVE  Counted'
<1>1. \A j \in Calls : Holders(j)' = Holders(j)
  BY DEF Holders
<1> QED
  BY <1>1 DEF Counted

LEMMA NextCounted == ConnectIInv /\ [ConnectNext]_connectVars => Counted' /\ Known'
<1> SUFFICES ASSUME ConnectIInv, [ConnectNext]_connectVars PROVE Counted' /\ Known'
  OBVIOUS
<1>t. ConnectType /\ Values /\ ResultIsOwn /\ Counted /\ Known
  BY DEF ConnectIInv
<1>n. /\ Nil \notin Calls /\ "NotFound" \notin Calls /\ "Os" \notin Calls
  BY ErrorsType
(* A connect that has returned nothing yet, and what this step makes it.   *)
<1>0. ASSUME NEW c \in Calls, OthersKeep(c), Given(c), answer[c] = Nil, ~owned[c],
             place[c] # "returned",
             \/ Returned(c)
             \/ place'[c] # "returned" /\ ~owned'[c]
      PROVE  Counted' /\ Known'
  <2>1. \A d \in Calls : d # c => \A j \in Calls : Holds(d, j)' <=> Holds(d, j)
    BY <1>0 DEF OthersKeep, Holds
  <2>2. \A j \in Calls : Holds(c, j) <=> gave[c] = j
    BY <1>0 DEF Holds
  <2>3. \A j \in Calls : Holds(c, j)' <=> gave'[c] = j
    <3>1. CASE Returned(c)
      BY <3>1, <1>n DEF Returned, Holds
    <3>2. CASE place'[c] # "returned" /\ ~owned'[c]
      BY <3>2 DEF Holds
    <3> QED
      BY <3>1, <3>2, <1>0
  <2>4. CASE gave'[c] = gave[c] /\ refs' = refs
    <3>1. Counted'
      BY <2>1, <2>2, <2>3, <2>4, <1>t, Stays
    <3>2. Known'
      BY <2>4, <1>t, <1>0 DEF Known, OthersKeep
    <3> QED
      BY <3>1, <3>2
  <2>5. ASSUME NEW k \in Calls, gave[c] = Nil, gave'[c] = k,
               refs' = [refs EXCEPT ![k] = refs[k] + 1], k # c => refs[k] > 0
        PROVE  Counted' /\ Known'
    <3>1. Counted'
      BY <2>1, <2>2, <2>3, <2>5, <1>n, <1>t, Joins
    <3>2. Known'
      <4> SUFFICES ASSUME NEW j \in Calls, refs'[j] > 0 PROVE gave'[j] = j
        BY DEF Known
      <4>1. j # k => refs'[j] = refs[j]
        BY <2>5, <1>t DEF ConnectType
      <4>2. CASE j = c
        <5>1. ~(refs[c] > 0)
          BY <2>5, <1>n, <1>t DEF Known
        <5> QED
          BY <4>1, <4>2, <5>1, <2>5
      <4>3. CASE j # c
        BY <4>1, <4>3, <2>5, <1>0, <1>t DEF Known, OthersKeep
      <4> QED
        BY <4>2, <4>3
    <3> QED
      BY <3>1, <3>2
  <2> QED
    BY <2>4, <2>5, <1>0 DEF Given
<1>1. ASSUME NEW p \in Procs, NEW c \in Calls, Quick(p, c) PROVE Counted' /\ Known'
  <2>1. place[c] = "none" /\ OthersKeep(c) /\ Given(c) /\ Returned(c)
    BY <1>1, QuickEffect
  <2> QED
    BY <2>1, <1>0, Fresh
<1>2. ASSUME NEW p \in Procs, NEW c \in Calls, NEW k \in Calls \cup {Nil}, ConnectStart(p, c, k)
      PROVE  Counted' /\ Known'
  <2>1. /\ place[c] = "none" /\ OthersKeep(c) /\ Given(c)
        /\ place'[c] = "probing" /\ UNCHANGED <<answer, owned>>
    BY <1>2, StartEffect
  <2> QED
    BY <2>1, <1>0, Fresh
<1>3. ASSUME NEW p \in Procs, Turns(p) PROVE Counted' /\ Known'
  <2>1. PICK c \in Calls : c = Head(stack[p])
    BY <1>3, Top DEF Turns, ProbeAgain, PollReturns, Probing
  <2>2. /\ place[c] \in {"probing", "polling"} /\ place'[c] \in {"probing", "polling"}
        /\ \A d \in Calls : d # c => place'[d] = place[d]
        /\ UNCHANGED <<answer, owned, gave, refs>>
    BY <1>3, <2>1, TurnEffect
  <2>3. OthersKeep(c) /\ Given(c) /\ answer[c] = Nil /\ ~owned[c]
    BY <2>2, <1>t DEF OthersKeep, Given, Values
  <2> QED
    BY <2>2, <2>3, <1>0
<1>4. ASSUME NEW p \in Procs, ProbeAttaches(p) \/ ProbeEnds(p) \/ ProbeError(p)
      PROVE  Counted' /\ Known'
  <2>1. PICK c \in Calls : c = Head(stack[p])
    BY <1>4, Top DEF ProbeAttaches, ProbeEnds, ProbeError, Probing
  <2>2. place[c] = "probing" /\ OthersKeep(c) /\ Given(c) /\ Returned(c)
    BY <1>4, <2>1, PopEffect
  <2>3. answer[c] = Nil /\ ~owned[c]
    BY <2>2, <1>t DEF Values
  <2> QED
    BY <2>2, <2>3, <1>0
<1>5. ASSUME NEW c \in Calls, DropController(c) PROVE Counted' /\ Known'
  <2>1. PICK k \in Calls : k = answer[c]
    BY <1>5, DropEffect
  <2>2. /\ owned[c] /\ ~owned'[c] /\ place[c] = "returned"
        /\ \A d \in Calls : d # c => owned'[d] = owned[d]
        /\ refs' = [refs EXCEPT ![k] = refs[k] - 1]
        /\ UNCHANGED <<place, answer, gave>>
    BY <1>5, <2>1, DropEffect
  <2>3. \A d \in Calls : d # c => \A j \in Calls : Holds(d, j)' <=> Holds(d, j)
    BY <2>2 DEF Holds
  <2>4. \A j \in Calls : ~Holds(c, j)' /\ (Holds(c, j) <=> j = k)
    BY <2>1, <2>2, <1>n DEF Holds
  <2>5. Holders(k)' = Holders(k) \ {c} /\ c \in Holders(k)
    BY <2>3, <2>4 DEF Holders
  <2>6. \A j \in Calls : j # k => Holders(j)' = Holders(j)
    BY <2>3, <2>4 DEF Holders
  <2>7. /\ refs'[k] = refs[k] - 1 /\ refs[k] \in Nat
        /\ \A j \in Calls : refs[j] \in Nat /\ (j # k => refs'[j] = refs[j])
    BY <2>2, <1>t DEF ConnectType
  <2>8. IsFiniteSet(Holders(k)) /\ refs[k] = Cardinality(Holders(k))
    BY <1>t DEF Counted
  <2>9. IsFiniteSet(Holders(k)') /\ Cardinality(Holders(k)') = refs[k] - 1
    BY <2>5, <2>8, FS_RemoveElement
  <2>10. Counted'
    BY <2>6, <2>7, <2>9, <1>t DEF Counted
  <2>11. Known'
    BY <2>2, <2>7, <1>t DEF Known
  <2> QED
    BY <2>10, <2>11
<1>6. ASSUME UNCHANGED connectVars PROVE Counted' /\ Known'
  BY <1>6, <1>t DEF connectVars, Counted, Known, Holders, Holds
<1> QED
  BY <1>1, <1>2, <1>3, <1>4, <1>5, <1>6, Steps

-------------------------------------------------------------------------------
(* controller.rs:100-356: the invariant of connects, their polls and the   *)
(* drops of controllers is inductive, and so holds in every reachable      *)
(* state.                                                                  *)
THEOREM ConnectInvHolds == ConnectSpec => []ConnectIInv
<1>1. ConnectIInv /\ [ConnectNext]_connectVars => ConnectIInv'
  BY NextConnectType, NextStacks, NextValues, NextCounted DEF ConnectIInv
<1> QED
  BY ConnectInitInv, <1>1, PTL DEF ConnectSpec

(* The state has its type in every reachable state.                        *)
THEOREM ConnectTypeCorrect == ConnectSpec => []ConnectType
<1>1. ConnectIInv => ConnectType
  BY DEF ConnectIInv
<1> QED
  BY <1>1, ConnectInvHolds, PTL

(* controller.rs:158: one thread-local cell suffices.  However connects    *)
(* nest in the polls of their OS thread, a connect returns the controller  *)
(* announced for it, and says that there is none only if none was.         *)
THEOREM ResultIsOwnHolds == ConnectSpec => []ResultIsOwn
<1>1. ConnectIInv => ResultIsOwn
  BY DEF ConnectIInv
<1> QED
  BY <1>1, ConnectInvHolds, PTL

(* controller.rs:349: each NvmeController that is alive owns a reference,  *)
(* and SPDK counts no other but those of connects under way and of those   *)
(* that returned early.                                                    *)
THEOREM RefsMatchHolds == ConnectSpec => []RefsMatch
<1>1. ConnectIInv => RefsMatch
  BY DEF ConnectIInv, Counted, Holders, Holds, RefsMatch
<1> QED
  BY <1>1, ConnectInvHolds, PTL
===============================================================================
