-------------------------------- MODULE NvmeIo --------------------------------
(***************************************************************************)
(* NVMe I/O of spdk-io: the queue pairs of a controller                    *)
(* (nvme/controller.rs, nvme/qpair.rs), NvmeNamespace::read and write and  *)
(* their completion callback (nvme/namespace.rs), on the one OS thread a   *)
(* !Send queue pair lives on.                                              *)
(*                                                                         *)
(* Nothing completes by itself: the device posts a status word on the      *)
(* completion queue of the queue pair, and the callback runs when somebody *)
(* calls process_completions on it, or when SPDK frees the queue pair and  *)
(* aborts what is left.  The driver is external: which submissions it      *)
(* refuses, which status an I/O ends with and that freeing a queue pair    *)
(* aborts its I/O.                                                         *)
(***************************************************************************)
EXTENDS Completion, Integers, Sequences, FiniteSets

CONSTANTS
    Qpairs,     \* NvmeQpair values
    Bufs,       \* DmaBuf values
    Depth,      \* [Qpairs -> Nat]: how many requests each can have outstanding
    Errnos,     \* errno values a submission may fail with
    Statuses    \* status fields a completion may carry

ENOMEM == 12

ASSUME DepthAssumption == Depth \in [Qpairs -> Nat \ {0}]
ASSUME ErrnosAssumption == Errnos \subseteq Nat \ {0} /\ ENOMEM \in Errnos

(* The status word of a completion, as the NVMe specification lays it out: *)
(* phase tag, status code, status code type, and retry hints above them.   *)
StatusType == [p : 0 .. 1, sc : 0 .. 255, sct : 0 .. 7, hint : 0 .. 15]
RawWord(s) == s.p + 2 * s.sc + 512 * s.sct + 4096 * s.hint
MaxWord == 65535

ASSUME StatusesAssumption == Statuses \subseteq StatusType

(* The values of Result<()>: Ok(()), Err(NvmeError{sct, sc}),              *)
(* Err(Cancelled) and Err(Os(errno)).                                      *)
Ok == [kind |-> "ok", sct |-> 0, code |-> 0]
NvmeError(sct, sc) == [kind |-> "NvmeError", sct |-> sct, code |-> sc]
Cancelled == [kind |-> "Cancelled", sct |-> 0, code |-> 0]
Os(errno) == [kind |-> "Os", sct |-> 0, code |-> errno]

(* What a status means to a caller.                                        *)
Meaning(s) == IF s.sct = 0 /\ s.sc = 0 THEN Ok ELSE NvmeError(s.sct, s.sc)

Aborted == [p |-> 0, sc |-> 8, sct |-> 0, hint |-> 0]  \* SQ deleted

ASSUME ResultsAssumption ==
    Results = {Meaning(s) : s \in Statuses \cup {Aborted}}
                  \cup {Os(e) : e \in Errnos} \cup {Cancelled}

VARIABLES
    ctrlr,     \* the NvmeController: "up", "detached"
    qpair,     \* [Qpairs -> QpairStates]
    buf,       \* [Bufs -> {"none", "live", "freed"}]
    fut,       \* [Ops -> FutureStates]
    args,      \* [Ops -> Args]: what the future borrows while it lives
    io,        \* [Ops -> IoStates]
    word,      \* [Ops -> 0 .. MaxWord]: the status word posted for the operation
    cq,        \* [Qpairs -> Seq(Ops)]: completions posted, not processed
    result,    \* [Ops -> Results \cup {None}]: what the await returned
    verdict    \* history: what the device or the driver said

handleVars == <<ctrlr, qpair, buf>>
ioVars == <<fut, args, io, word, cq, result, verdict>>
vars == <<handleVars, ioVars, completionVars>>

(* "dangling": the Rust value is there, what it points to was freed by the *)
(* detach of its controller.                                               *)
QpairStates == {"none", "live", "freed", "dangling"}
FutureStates == {"none", "lazy", "awaiting", "returned", "dropped"}
IoStates == {"none", "refused", "submitted", "posted", "completed"}

NoArgs == [kind |-> "none", qpair |-> None, buf |-> None]
Args == [kind : {"read", "write"}, qpair : Qpairs, buf : Bufs] \cup {NoArgs}

TypeOK ==
    /\ CompletionType
    /\ ctrlr \in {"up", "detached"}
    /\ qpair \in [Qpairs -> QpairStates]
    /\ buf \in [Bufs -> {"none", "live", "freed"}]
    /\ fut \in [Ops -> FutureStates]
    /\ args \in [Ops -> Args]
    /\ io \in [Ops -> IoStates]
    /\ word \in [Ops -> 0 .. MaxWord]
    /\ cq \in [Qpairs -> Seq(Ops)]
    /\ result \in [Ops -> Results \cup {None}]
    /\ verdict \in [Ops -> Results \cup {None}]

Init ==
    /\ CompletionInit
    /\ ctrlr = "up"
    /\ qpair = [q \in Qpairs |-> "none"]
    /\ buf = [b \in Bufs |-> "none"]
    /\ fut = [o \in Ops |-> "none"]
    /\ args = [o \in Ops |-> NoArgs]
    /\ io = [o \in Ops |-> "none"]
    /\ word = [o \in Ops |-> 0]
    /\ cq = [q \in Qpairs |-> <<>>]
    /\ result = [o \in Ops |-> None]
    /\ verdict = [o \in Ops |-> None]

-------------------------------------------------------------------------------
SlipAlive(o) == fut[o] = "lazy"  \* the borrows end with the submission

(* The borrow checker: a live future borrows its queue pair, its buffer    *)
(* (exclusively when it reads into it) and, through the namespace, the     *)
(* controller.                                                             *)
Alive(o) == fut[o] \in {"lazy", "awaiting"}
BufferFree(kind, b) ==
    \A o \in Ops : (Alive(o) /\ args[o].buf = b) => kind = "write" /\ args[o].kind = "write"

InFlight(o) == io[o] \in {"submitted", "posted"}
Outstanding(q) == {o \in Ops : InFlight(o) /\ args[o].qpair = q}
Full(q) == Cardinality(Outstanding(q)) >= Depth[q]

SlipDecode(raw) ==  \* the phase tag taken for a bit of the status code
    LET sct == (raw \div 512) % 8
        sc == raw % 256
    IN IF sct = 0 /\ sc = 0 THEN Ok ELSE NvmeError(sct, sc)

(* nvme_io_complete reads the status out of the word.                      *)
Decode(raw) ==
    LET sct == (raw \div 512) % 8
        sc == (raw \div 2) % 256
    IN IF sct = 0 /\ sc = 0 THEN Ok ELSE NvmeError(sct, sc)

SlipCallbacks(done, outcome) ==  \* the boxes are read, not consumed
    /\ UNCHANGED tx
    /\ slot' = [o \in Ops |-> IF o \in done /\ rx[o] = "waiting" THEN outcome[o] ELSE slot[o]]
    /\ io' = [o \in Ops |-> IF o \in done THEN "completed" ELSE io[o]]

(* nvme_io_complete for each operation in done: the sender comes back from *)
(* its raw pointer and delivers, while the receiver exists.                *)
Callbacks(done, outcome) ==
    /\ tx' = [o \in Ops |-> IF o \in done THEN "gone" ELSE tx[o]]
    /\ slot' = [o \in Ops |-> IF o \in done /\ rx[o] = "waiting" THEN outcome[o] ELSE slot[o]]
    /\ io' = [o \in Ops |-> IF o \in done THEN "completed" ELSE io[o]]

(* SPDK calls back every I/O of queue pairs it frees, posted or not.       *)
AbortOn(freed) ==
    LET done == UNION {Outstanding(q) : q \in freed} IN
    /\ Callbacks(done, [o \in done |-> Decode(RawWord(Aborted))])
    /\ verdict' = [o \in Ops |-> IF o \in done THEN Meaning(Aborted) ELSE verdict[o]]
    /\ cq' = [q \in Qpairs |-> IF q \in freed THEN <<>> ELSE cq[q]]

-------------------------------------------------------------------------------
(* NvmeController::alloc_io_qpair; a failure (QpairAlloc) changes nothing. *)
AllocQpair(q) ==
    /\ ctrlr = "up" /\ qpair[q] = "none"
    /\ qpair' = [qpair EXCEPT ![q] = "live"]
    /\ UNCHANGED <<ctrlr, buf, ioVars, completionVars>>

SlipFreeQpair(q) ==  \* the queue pair is forgotten, not freed
    UNCHANGED <<cq, verdict, io, tx, slot>>

FreeQpair(q) == AbortOn({q})

(* NvmeQpair::drop.  Dropping a dangling one frees it twice: not modelled. *)
DropQpair(q) ==
    /\ qpair[q] = "live" /\ \A o \in Ops : Alive(o) => args[o].qpair # q
    /\ qpair' = [qpair EXCEPT ![q] = "freed"]
    /\ FreeQpair(q)
    /\ UNCHANGED <<ctrlr, buf, fut, args, word, result, rx>>

(* NvmeController::drop: spdk_nvme_detach frees its queue pairs, although  *)
(* nothing ties an NvmeQpair to the life of its controller.                *)
Detach ==
    /\ ctrlr = "up" /\ \A o \in Ops : ~Alive(o)
    /\ ctrlr' = "detached"
    /\ qpair' = [q \in Qpairs |-> IF qpair[q] = "live" THEN "dangling" ELSE qpair[q]]
    /\ AbortOn({q \in Qpairs : qpair[q] = "live"})
    /\ UNCHANGED <<buf, fut, args, word, result, rx>>

(* DmaBuf::alloc and drop. *)
Alloc(b) ==
    /\ buf[b] = "none"
    /\ buf' = [buf EXCEPT ![b] = "live"]
    /\ UNCHANGED <<ctrlr, qpair, ioVars, completionVars>>

FreeBuf(b) ==
    /\ buf[b] = "live" /\ \A o \in Ops : Alive(o) => args[o].buf # b
    /\ buf' = [buf EXCEPT ![b] = "freed"]
    /\ UNCHANGED <<ctrlr, qpair, ioVars, completionVars>>

-------------------------------------------------------------------------------
(* Calling read or write only makes the future.                            *)
Create(o, kind, q, b) ==
    /\ fut[o] = "none"
    /\ ctrlr = "up" /\ qpair[q] = "live" /\ buf[b] = "live"
    /\ BufferFree(kind, b)
    /\ fut' = [fut EXCEPT ![o] = "lazy"]
    /\ args' = [args EXCEPT ![o] = [kind |-> kind, qpair |-> q, buf |-> b]]
    /\ UNCHANGED <<handleVars, io, word, cq, result, verdict, completionVars>>

(* Its first poll: the driver takes the command ...                        *)
Submit(o) ==
    /\ fut[o] = "lazy"
    /\ ~Full(args[o].qpair)
    /\ NewPair(o, "raw")
    /\ fut' = [fut EXCEPT ![o] = "awaiting"]
    /\ io' = [io EXCEPT ![o] = "submitted"]
    /\ UNCHANGED <<handleVars, args, word, cq, result, verdict>>

(* ... or refuses it with rc = -errno, for want of a request or for some   *)
(* other reason.  The early return turns rc round, drops the receiver and  *)
(* leaves the box of the sender to nobody.                                 *)
SubmitFails(o, errno) ==
    /\ fut[o] = "lazy"
    /\ errno = ENOMEM => Full(args[o].qpair)
    /\ tx' = [tx EXCEPT ![o] = "raw"]
    /\ rx' = [rx EXCEPT ![o] = "dropped"]
    /\ fut' = [fut EXCEPT ![o] = "returned"]
    /\ io' = [io EXCEPT ![o] = "refused"]
    /\ result' = [result EXCEPT ![o] = Os(errno)]
    /\ verdict' = [verdict EXCEPT ![o] = Os(errno)]
    /\ UNCHANGED <<handleVars, args, word, cq, slot>>

(* The device (external) ends a command and posts its status.              *)
Post(o, s) ==
    /\ io[o] = "submitted"
    /\ io' = [io EXCEPT ![o] = "posted"]
    /\ word' = [word EXCEPT ![o] = RawWord(s)]
    /\ cq' = [cq EXCEPT ![args[o].qpair] = Append(@, o)]
    /\ verdict' = [verdict EXCEPT ![o] = Meaning(s)]
    /\ UNCHANGED <<handleVars, fut, args, result, completionVars>>

(* NvmeQpair::process_completions: the callbacks of the first max          *)
(* completions, of all of them when max is 0.                              *)
ProcessCompletions(q, max) ==
    LET n == IF max = 0 \/ max > Len(cq[q]) THEN Len(cq[q]) ELSE max
        done == {cq[q][i] : i \in 1 .. n}
    IN
    /\ qpair[q] = "live" /\ n > 0
    /\ Callbacks(done, [o \in done |-> Decode(word[o])])
    /\ cq' = [cq EXCEPT ![q] = SubSeq(@, n + 1, Len(@))]
    /\ UNCHANGED <<handleVars, fut, args, word, result, verdict, rx>>

(* A later poll of the future finds the receiver ready.                    *)
Resume(o) ==
    /\ fut[o] = "awaiting"
    /\ Resolve(o)
    /\ fut' = [fut EXCEPT ![o] = "returned"]
    /\ result' = [result EXCEPT ![o] = Outcome(o, Cancelled)]
    /\ UNCHANGED <<handleVars, args, io, word, cq, verdict>>

(* The caller drops the future, before its first poll or in flight.        *)
Abandon(o) ==
    /\ fut[o] \in {"lazy", "awaiting"}
    /\ IF fut[o] = "lazy" THEN UNCHANGED completionVars ELSE DropReceiver(o)
    /\ fut' = [fut EXCEPT ![o] = "dropped"]
    /\ UNCHANGED <<handleVars, args, io, word, cq, result, verdict>>

Next ==
    \/ Detach
    \/ \E q \in Qpairs : AllocQpair(q) \/ DropQpair(q)
    \/ \E b \in Bufs : Alloc(b) \/ FreeBuf(b)
    \/ \E o \in Ops, kind \in {"read", "write"}, q \in Qpairs, b \in Bufs : Create(o, kind, q, b)
    \/ \E o \in Ops : Submit(o) \/ Resume(o) \/ Abandon(o)
    \/ \E o \in Ops, errno \in Errnos : SubmitFails(o, errno)
    \/ \E o \in Ops, s \in Statuses : Post(o, s)
    \/ \E q \in Qpairs, max \in 0 .. 1 : ProcessCompletions(q, max)

Spec == Init /\ [][Next]_vars

(* The device answers, the executor polls woken futures, and, what the     *)
(* crate leaves to its caller, somebody calls process_completions.         *)
FairSpec ==
    /\ Spec
    /\ \A o \in Ops : WF_vars(\E s \in Statuses : Post(o, s)) /\ WF_vars(Resume(o))
    /\ \A q \in Qpairs : WF_vars(\E max \in 0 .. 1 : ProcessCompletions(q, max))
-------------------------------------------------------------------------------
(***************************************************************************)
(* Properties.                                                             *)
(***************************************************************************)

(* namespace.rs:194: whenever a callback is still to come, from            *)
(* process_completions or from an abort, the box its context points to is  *)
(* there; afterwards it is gone, also if the future was dropped.           *)
FromRawOnce ==
    \A o \in Ops :
        /\ InFlight(o) => tx[o] = "raw"
        /\ io[o] = "completed" => tx[o] = "gone"

(* controller.rs:349, qpair.rs:70: drops of queue pairs and controller, in *)
(* any order and with I/O of dropped futures in flight, settle that I/O:   *)
(* none is left on a queue pair that is gone, and none waits in its queue. *)
DropsSettleIo ==
    \A q \in Qpairs : qpair[q] # "live" => Outstanding(q) = {} /\ cq[q] = <<>>

(* What an awaited I/O uses outlives it and is not shared: the queue pair  *)
(* and the controller, and the buffer (docs/design/memory.md:69), unless   *)
(* the future that had the buffer before was dropped in flight.            *)
Clash(o, p) ==
    /\ o # p /\ InFlight(o) /\ InFlight(p)
    /\ args[o].buf = args[p].buf
    /\ "read" \in {args[o].kind, args[p].kind}

AwaitedIoCovered ==
    \A o \in Ops : (InFlight(o) /\ fut[o] = "awaiting") =>
        /\ ctrlr = "up" /\ qpair[args[o].qpair] = "live" /\ buf[args[o].buf] = "live"
        /\ \A p \in Ops : Clash(o, p) => fut[p] = "dropped"

(* read and write are asynchronous operations in the sense of AsyncOp: the *)
(* caller gets the device's verdict, read out of the status word, or the   *)
(* driver's refusal, once.                                                 *)
Phase(o) ==
    CASE fut[o] \in {"none", "lazy"} -> "idle"
      [] fut[o] = "awaiting" -> IF verdict[o] = None THEN "pending" ELSE "decided"
      [] fut[o] = "returned" -> "returned"
      [] fut[o] = "dropped" -> "cancelled"

Told(o) ==
    CASE fut[o] = "returned" -> result[o]
      [] fut[o] = "dropped" -> None
      [] OTHER -> verdict[o]

Async(o) == INSTANCE AsyncOp WITH
    Verdicts <- Results, NoVerdict <- None, phase <- Phase(o), verdict <- Told(o)

ImplementsAsyncOp ==
    (\A o \in Ops : Async(o)!AsyncInit) /\ [][\A o \in Ops : Async(o)!AsyncStep]_vars

(* And the await of every submitted operation returns, if the queue pair   *)
(* is polled.                                                              *)
EveryIoAnswered == \A o \in Ops : Async(o)!Answered
===============================================================================
