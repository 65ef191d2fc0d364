-------------------------------- MODULE BdevIo --------------------------------
(***************************************************************************)
(* Block device I/O of spdk-io: Bdev, BdevDesc::read and write and their   *)
(* completion callback (spdk-io/src/bdev.rs), IoChannel (channel.rs) and   *)
(* DmaBuf (dma.rs), on the one SPDK thread these !Send types live on.      *)
(*                                                                         *)
(* An operation o is one future of `read' or `write': lazy until its first *)
(* poll, which submits the I/O.  The executor polls futures and SPDK in    *)
(* any order; SPDK completes an I/O it accepted from within a poll.  The   *)
(* bdev layer itself is external: which submissions it refuses, how an I/O *)
(* ends, and that a hot-removed bdev is freed once its last descriptor is  *)
(* closed.                                                                 *)
(***************************************************************************)
EXTENDS Completion, Integers, FiniteSets

CONSTANTS
    Descs,      \* BdevDesc values
    Chans,      \* IoChannel values
    Bufs,       \* DmaBuf values
    Errnos      \* the errno values a submission may fail with

ASSUME ErrnosAssumption == Errnos \subseteq Nat \ {0}

VARIABLES
    bdev,     \* "present", "removing" (hot-removed), "gone" (freed by SPDK)
    desc,     \* [Descs -> {"none", "open", "closed"}]
    chan,     \* [Chans -> {"none", "held", "put"}]
    buf,      \* [Bufs -> {"none", "live", "freed"}]
    fut,      \* [Ops -> FutureStates]
    args,     \* [Ops -> Args]: what the future borrows while it lives
    io,       \* [Ops -> {"none", "refused", "inflight", "completed"}]
    result,   \* [Ops -> Results \cup {None}]: what the await returned
    verdict   \* history: what SPDK said of the operation

handleVars == <<bdev, desc, chan, buf>>
ioVars == <<fut, args, io, result, verdict>>
vars == <<handleVars, ioVars, completionVars>>

(* "lazy": not polled yet; "awaiting": submitted, the receiver not ready   *)
(* when last polled; "returned", "dropped": its borrows have ended.        *)
FutureStates == {"none", "lazy", "awaiting", "returned", "dropped"}

NoArgs == [kind |-> "none", desc |-> None, chan |-> None, buf |-> None]
Args == [kind : {"read", "write"}, desc : Descs, chan : Chans, buf : Bufs] \cup {NoArgs}

(* The values of Result<()>: Ok(()), Err(IoError), Err(Cancelled) and      *)
(* Err(Os(code)).                                                          *)
Ok == [kind |-> "ok", code |-> 0]
IoError == [kind |-> "IoError", code |-> 0]
Cancelled == [kind |-> "Cancelled", code |-> 0]
Os(code) == [kind |-> "Os", code |-> code]
IoResults == {Ok, IoError, Cancelled} \cup {Os(e) : e \in Errnos} \cup {Os(-e) : e \in Errnos}

ASSUME ResultsAssumption == Results = IoResults

TypeOK ==
    /\ CompletionType
    /\ bdev \in {"present", "removing", "gone"}
    /\ desc \in [Descs -> {"none", "open", "closed"}]
    /\ chan \in [Chans -> {"none", "held", "put"}]
    /\ buf \in [Bufs -> {"none", "live", "freed"}]
    /\ fut \in [Ops -> FutureStates]
    /\ args \in [Ops -> Args]
    /\ io \in [Ops -> {"none", "refused", "inflight", "completed"}]
    /\ result \in [Ops -> Results \cup {None}]
    /\ verdict \in [Ops -> Results \cup {None}]

Init ==
    /\ CompletionInit
    /\ bdev = "present"
    /\ desc = [d \in Descs |-> "none"]
    /\ chan = [c \in Chans |-> "none"]
    /\ buf = [b \in Bufs |-> "none"]
    /\ fut = [o \in Ops |-> "none"]
    /\ args = [o \in Ops |-> NoArgs]
    /\ io = [o \in Ops |-> "none"]
    /\ result = [o \in Ops |-> None]
    /\ verdict = [o \in Ops |-> None]

-------------------------------------------------------------------------------
SlipAlive(o) == fut[o] = "lazy"  \* the borrows end with the submission

(* The borrow checker: a live future borrows its descriptor, channel and   *)
(* buffer, the buffer exclusively when it reads into it.                   *)
Alive(o) == fut[o] \in {"lazy", "awaiting"}
Borrowed(field, x) == \E o \in Ops : Alive(o) /\ args[o][field] = x
BufferFree(kind, b) ==
    \A o \in Ops : (Alive(o) /\ args[o].buf = b) => kind = "write" /\ args[o].kind = "write"

(* Bdev::open looks the bdev up by the name its handle points to.  A       *)
(* handle is a copied pointer without a reference: that it is not used     *)
(* once the bdev is gone is up to the caller.                              *)
Open(d) ==
    /\ desc[d] = "none" /\ bdev # "gone"
    /\ desc' = [desc EXCEPT ![d] = IF bdev = "present" THEN "open" ELSE @]
    /\ UNCHANGED <<bdev, chan, buf, ioVars, completionVars>>

(* BdevDesc::get_io_channel. *)
GetChannel(c, d) ==
    /\ chan[c] = "none" /\ desc[d] = "open"
    /\ chan' = [chan EXCEPT ![c] = "held"]
    /\ UNCHANGED <<bdev, desc, buf, ioVars, completionVars>>

(* DmaBuf::alloc. *)
Alloc(b) ==
    /\ buf[b] = "none"
    /\ buf' = [buf EXCEPT ![b] = "live"]
    /\ UNCHANGED <<bdev, desc, chan, ioVars, completionVars>>

(* The three Drop implementations; none of them knows of the I/O in flight. *)
CloseDesc(d) ==
    /\ desc[d] = "open" /\ ~Borrowed("desc", d)
    /\ desc' = [desc EXCEPT ![d] = "closed"]
    /\ bdev' = IF bdev = "removing" /\ \A e \in Descs \ {d} : desc[e] # "open"
                  THEN "gone" ELSE bdev
    /\ UNCHANGED <<chan, buf, ioVars, completionVars>>

PutChannel(c) ==
    /\ chan[c] = "held" /\ ~Borrowed("chan", c)
    /\ chan' = [chan EXCEPT ![c] = "put"]
    /\ UNCHANGED <<bdev, desc, buf, ioVars, completionVars>>

FreeBuf(b) ==
    /\ buf[b] = "live" /\ ~Borrowed("buf", b)
    /\ buf' = [buf EXCEPT ![b] = "freed"]
    /\ UNCHANGED <<bdev, desc, chan, ioVars, completionVars>>

(* Hot removal (external): SPDK calls bdev_event_callback, which does      *)
(* nothing, and frees the bdev when no descriptor is open.                 *)
Remove ==
    /\ bdev = "present"
    /\ bdev' = IF \A d \in Descs : desc[d] # "open" THEN "gone" ELSE "removing"
    /\ UNCHANGED <<desc, chan, buf, ioVars, completionVars>>

-------------------------------------------------------------------------------
(* Calling read or write only makes the future.                            *)
Create(o, kind, d, c, b) ==
    /\ fut[o] = "none"
    /\ desc[d] = "open" /\ chan[c] = "held" /\ buf[b] = "live"
    /\ BufferFree(kind, b)
    /\ fut' = [fut EXCEPT ![o] = "lazy"]
    /\ args' = [args EXCEPT ![o] = [kind |-> kind, desc |-> d, chan |-> c, buf |-> b]]
    /\ UNCHANGED <<handleVars, io, result, verdict, completionVars>>

(* The first poll: spdk_bdev_read or spdk_bdev_write takes the I/O ...     *)
Submit(o) ==
    /\ fut[o] = "lazy"
    /\ NewPair(o, "raw")
    /\ fut' = [fut EXCEPT ![o] = "awaiting"]
    /\ io' = [io EXCEPT ![o] = "inflight"]
    /\ UNCHANGED <<handleVars, args, result, verdict>>

(* ... or refuses it with rc = -errno: the early return drops the receiver *)
(* and leaves the box of the sender to nobody.                             *)
SubmitFails(o, errno) ==
    /\ fut[o] = "lazy"
    /\ tx' = [tx EXCEPT ![o] = "raw"]
    /\ rx' = [rx EXCEPT ![o] = "dropped"]
    /\ fut' = [fut EXCEPT ![o] = "returned"]
    /\ io' = [io EXCEPT ![o] = "refused"]
    /\ result' = [result EXCEPT ![o] = Os(-errno)]
    /\ verdict' = [verdict EXCEPT ![o] = Os(-errno)]
    /\ UNCHANGED <<handleVars, args, slot>>

(* bdev_io_completion_cb, from within spdk_thread_poll.                    *)
Complete(o, success) ==
    /\ io[o] = "inflight"
    /\ io' = [io EXCEPT ![o] = "completed"]
    /\ verdict' = [verdict EXCEPT ![o] = IF success THEN Ok ELSE IoError]
    /\ Deliver(o, IF success THEN Ok ELSE IoError)
    /\ UNCHANGED <<handleVars, fut, args, result, rx>>

(* A later poll of the future finds the receiver ready.                    *)
Resume(o) ==
    /\ fut[o] = "awaiting"
    /\ Resolve(o)
    /\ fut' = [fut EXCEPT ![o] = "returned"]
    /\ result' = [result EXCEPT ![o] = Outcome(o, Cancelled)]
    /\ UNCHANGED <<handleVars, args, io, verdict>>

(* The caller drops the future (a select, a timeout, the end of a scope):  *)
(* before its first poll, or while its I/O is in flight.                   *)
Abandon(o) ==
    \/ /\ fut[o] = "lazy"
       /\ fut' = [fut EXCEPT ![o] = "dropped"]
       /\ UNCHANGED <<handleVars, args, io, result, verdict, completionVars>>
    \/ /\ fut[o] = "awaiting"
       /\ fut' = [fut EXCEPT ![o] = "dropped"]
       /\ DropReceiver(o)
       /\ UNCHANGED <<handleVars, args, io, result, verdict>>

Next ==
    \/ \E d \in Descs : Open(d) \/ CloseDesc(d)
    \/ \E c \in Chans, d \in Descs : GetChannel(c, d)
    \/ \E c \in Chans : PutChannel(c)
    \/ \E b \in Bufs : Alloc(b) \/ FreeBuf(b)
    \/ Remove
    \/ \E o \in Ops, kind \in {"read", "write"}, d \in Descs, c \in Chans, b \in Bufs :
           Create(o, kind, d, c, b)
    \/ \E o \in Ops : Submit(o) \/ Resume(o) \/ Abandon(o)
    \/ \E o \in Ops, errno \in Errnos : SubmitFails(o, errno)
    \/ \E o \in Ops, success \in BOOLEAN : Complete(o, success)

Spec == Init /\ [][Next]_vars

(* The device answers, the thread is polled (spdk_poller, block_on), and   *)
(* the executor polls again a future whose receiver was woken.             *)
FairSpec ==
    Spec /\ \A o \in Ops : WF_vars(\E success \in BOOLEAN : Complete(o, success))
                           /\ WF_vars(Resume(o))
-------------------------------------------------------------------------------
(***************************************************************************)
(* Properties.                                                             *)
(***************************************************************************)

(* bdev.rs:348-363 and complete.rs:46-54: whenever SPDK still owes a       *)
(* callback, the box its context points to is there, and after the         *)
(* callback it is gone, also when the future was dropped in between.       *)
FromRawOnce ==
    \A o \in Ops :
        /\ io[o] = "inflight" => tx[o] = "raw"
        /\ io[o] = "completed" => tx[o] = "gone"

(* complete.rs:39-40: a pointer from into_raw is passed to from_raw, so no *)
(* box is left that no callback will come for.                             *)
NoBoxLeaks == \A o \in Ops : tx[o] = "raw" => io[o] = "inflight"

(* What the device may still use during an I/O: its descriptor and channel *)
(* are open, its buffer is not freed.                                      *)
HandlesHeld(o) ==
    /\ desc[args[o].desc] = "open"
    /\ chan[args[o].chan] = "held"
    /\ buf[args[o].buf] = "live"

(* Two I/Os in flight on one buffer, one of them writing to the memory.    *)
Clash(o, p) ==
    /\ o # p /\ io[o] = "inflight" /\ io[p] = "inflight"
    /\ args[o].buf = args[p].buf
    /\ "read" \in {args[o].kind, args[p].kind}

(* docs/design/memory.md:69: a DmaBuf is "not shared during I/O", and what *)
(* an I/O uses outlives it.  The borrows of its future give this from the  *)
(* first poll to the callback, in every order of completions, drops and    *)
(* hot removal, as long as the future is not dropped on the way ...        *)
AwaitedIoCovered ==
    \A o \in Ops : (io[o] = "inflight" /\ fut[o] = "awaiting") =>
        /\ HandlesHeld(o)
        /\ \A p \in Ops : Clash(o, p) => fut[p] = "dropped"

(* ... and nothing does once it is dropped: then the buffer may be lent to *)
(* another I/O (or be freed) although SPDK has not called back.            *)
NotSharedDuringIo == \A o, p \in Ops : ~Clash(o, p)

(* read and write are asynchronous operations in the sense of AsyncOp: the *)
(* caller gets SPDK's verdict or refusal, once and unchanged.              *)
Phase(o) ==
    CASE fut[o] \in {"none", "lazy"} -> "idle"
      [] fut[o] = "awaiting" -> IF verdict[o] = None THEN "pending" ELSE "decided"
      [] fut[o] = "returned" -> "returned"
      [] fut[o] = "dropped" -> "cancelled"

Told(o) ==
    CASE fut[o] = "returned" -> result[o]
      [] fut[o] = "dropped" -> None
      [] OTHER -> verdict[o]

Async(o) == INSTANCE AsyncOp WITH
    Verdicts <- Results, NoVerdict <- None, phase <- Phase(o), verdict <- Told(o)

ImplementsAsyncOp ==
    (\A o \in Ops : Async(o)!AsyncInit) /\ [][\A o \in Ops : Async(o)!AsyncStep]_vars

(* And the await of every submitted operation returns.                     *)
EveryIoAnswered == \A o \in Ops : Async(o)!Answered
===============================================================================
