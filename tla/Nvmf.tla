--------------------------------- MODULE Nvmf ---------------------------------
(***************************************************************************)
(* The in-process NVMe-oF target of spdk-io: NvmfTarget, NvmfTransport and *)
(* NvmfSubsystem (nvmf/target.rs, transport.rs, subsystem.rs), all on one  *)
(* SPDK thread, for the types are !Send.                                   *)
(*                                                                         *)
(* A subsystem value is a bare pointer to an object that the target owns,  *)
(* and find_subsystem hands out more of them.  add_transport,              *)
(* add_listener, start and stop are futures that do nothing before their   *)
(* first poll; SPDK may answer inside that poll, or later from a poll of   *)
(* the thread.                                                             *)
(*                                                                         *)
(* External: the target library of SPDK.  It queues the state changes of a *)
(* subsystem and makes them one by one, adds listeners and namespaces only *)
(* to an inactive subsystem that has none queued, and has at most one      *)
(* transport of a type (transports here are of one type).                  *)
(***************************************************************************)
EXTENDS Completion, Integers, Sequences, FiniteSets

CONSTANTS
    Subs,        \* NQNs, and the subsystems that may get them
    Transports,  \* NvmfTransport values
    Addrs,       \* listen addresses
    Bdevs,       \* bdevs that become namespaces
    Errnos       \* errno values SPDK may report of its own accord

EAGAIN == 11
EEXIST == 17
EINVAL == 22

(* The values of Result<()>: Ok(()), Err(Cancelled) and Err(Os(errno)).    *)
Ok == [kind |-> "ok", errno |-> 0]
Cancelled == [kind |-> "Cancelled", errno |-> 0]
Os(errno) == [kind |-> "Os", errno |-> errno]

ASSUME ErrnosAssumption == Errnos \subseteq Nat \ {0}
ASSUME ResultsAssumption ==
    Results = {Ok, Cancelled} \cup {Os(e) : e \in Errnos \cup {EAGAIN, EEXIST, EINVAL}}

VARIABLES
    tgt,        \* "none", "live", "closing" (dropped, SPDK at work), "gone"
    transport,  \* [Transports -> TransportStates]
    listening,  \* the addresses the target listens on
    sub,        \* [Subs -> SubStates]: the C object
    handle,     \* [Subs -> BOOLEAN]: the caller has an NvmfSubsystem of it
    ns,         \* [Subs -> SUBSET Bdevs]: its namespaces
    listener,   \* [Subs -> SUBSET Addrs]: its listeners
    changes,    \* [Subs -> Seq(Ops)]: state changes under way, first to last
    last,       \* history: the last state change SPDK accepted
    fut,        \* [Ops -> FutureStates]
    args,       \* [Ops -> Args]
    io,         \* [Ops -> {"none", "refused", "pending", "completed"}]
    result,     \* [Ops -> Results \cup {None}]: what the await returned
    verdict     \* history: what SPDK said to a future that is not dropped

targetVars == <<tgt, transport, listening, sub, handle, ns, listener>>
changeVars == <<changes, last>>
opVars == <<fut, args, io, result, verdict>>
vars == <<targetVars, changeVars, opVars, completionVars>>

(* "moved": into an add_transport future; "adding": SPDK has it; "lost":   *)
(* no value and no target has it any more, and nothing frees it.           *)
TransportStates == {"none", "made", "moved", "adding", "added", "lost"}
SubStates == {"absent", "inactive", "active", "freed"}
FutureStates == {"none", "lazy", "awaiting", "returned", "dropped"}

NoArgs == [kind |-> "none"]
Args ==
    {NoArgs}
        \cup [kind : {"add_transport"}, transport : Transports]
        \cup [kind : {"add_listener"}, sub : Subs, addr : Addrs]
        \cup [kind : {"start", "stop"}, sub : Subs]

TypeOK ==
    /\ CompletionType
    /\ tgt \in {"none", "live", "closing", "gone"}
    /\ transport \in [Transports -> TransportStates]
    /\ listening \subseteq Addrs
    /\ sub \in [Subs -> SubStates]
    /\ handle \in [Subs -> BOOLEAN]
    /\ ns \in [Subs -> SUBSET Bdevs]
    /\ listener \in [Subs -> SUBSET Addrs]
    /\ changes \in [Subs -> Seq(Ops)]
    /\ last \in [Subs -> Ops \cup {None}]
    /\ fut \in [Ops -> FutureStates]
    /\ args \in [Ops -> Args]
    /\ io \in [Ops -> {"none", "refused", "pending", "completed"}]
    /\ result \in [Ops -> Results \cup {None}]
    /\ verdict \in [Ops -> Results \cup {None}]

Init ==
    /\ CompletionInit
    /\ tgt = "none"
    /\ transport = [t \in Transports |-> "none"]
    /\ listening = {}
    /\ sub = [s \in Subs |-> "absent"]
    /\ handle = [s \in Subs |-> FALSE]
    /\ ns = [s \in Subs |-> {}]
    /\ listener = [s \in Subs |-> {}]
    /\ changes = [s \in Subs |-> <<>>]
    /\ last = [s \in Subs |-> None]
    /\ fut = [o \in Ops |-> "none"]
    /\ args = [o \in Ops |-> NoArgs]
    /\ io = [o \in Ops |-> "none"]
    /\ result = [o \in Ops |-> None]
    /\ verdict = [o \in Ops |-> None]

-------------------------------------------------------------------------------
Alive(o) == fut[o] \in {"lazy", "awaiting"}

(* Callers use an NvmfSubsystem only while its target lives; the borrow    *)
(* checker does not know that they must.                                   *)
Usable(s) == tgt = "live" /\ handle[s]
Changing(s) == changes[s] # <<>>
Configurable(s) == sub[s] = "inactive" /\ ~Changing(s)

IsChange(o) == args[o].kind \in {"start", "stop"}
Asked(o) == IF args[o].kind = "start" THEN "active" ELSE "inactive"

SlipDecode(status) == Ok  \* the status is not looked at

(* add_transport_done, listener_done, subsystem_state_change_done.         *)
Decode(status) == IF status = 0 THEN Ok ELSE Os(-status)

(* What SPDK may answer to a command it can carry out.                     *)
Statuses == {0} \cup {-e : e \in Errnos}
-------------------------------------------------------------------------------
(* NvmfTarget::create, create_with_opts; a failure changes nothing.        *)
CreateTarget ==
    /\ tgt = "none"
    /\ tgt' = "live"
    /\ UNCHANGED <<transport, listening, sub, handle, ns, listener, changeVars, opVars, completionVars>>

(* NvmfTarget::drop starts spdk_nvmf_tgt_destroy and does not wait for it. *)
(* A pending add_transport borrows the target.  That every subsystem is    *)
(* stopped and nothing is under way is the caller's rule.                  *)
DropTarget ==
    /\ tgt = "live"
    /\ \A o \in Ops : Alive(o) => args[o].kind # "add_transport"
    /\ \A s \in Subs : sub[s] # "active" /\ ~Changing(s)
    /\ \A o \in Ops : io[o] # "pending"
    /\ tgt' = "closing"
    /\ UNCHANGED <<transport, listening, sub, handle, ns, listener, changeVars, opVars, completionVars>>

(* SPDK frees the target with all that it owns.                            *)
Destroyed ==
    /\ tgt = "closing"
    /\ tgt' = "gone"
    /\ sub' = [s \in Subs |-> IF sub[s] = "absent" THEN "absent" ELSE "freed"]
    /\ listening' = {}
    /\ UNCHANGED <<transport, handle, ns, listener, changeVars, opVars, completionVars>>

(* NvmfTransport::tcp and rdma. *)
CreateTransport(t) ==
    /\ transport[t] = "none"
    /\ transport' = [transport EXCEPT ![t] = "made"]
    /\ UNCHANGED <<tgt, listening, sub, handle, ns, listener, changeVars, opVars, completionVars>>

(* The value goes out of scope: it has no Drop.                            *)
DropTransport(t) ==
    /\ transport[t] = "made"
    /\ transport' = [transport EXCEPT ![t] = "lost"]
    /\ UNCHANGED <<tgt, listening, sub, handle, ns, listener, changeVars, opVars, completionVars>>

(* NvmfTarget::listen succeeds if the target has a transport for it.       *)
Listen(a) ==
    /\ tgt = "live" /\ \E t \in Transports : transport[t] = "added"
    /\ listening' = listening \cup {a}
    /\ UNCHANGED <<tgt, transport, sub, handle, ns, listener, changeVars, opVars, completionVars>>

(* NvmfTarget::create_subsystem.  SPDK refuses an NQN that is taken.  If   *)
(* an option cannot be set (applied = FALSE) the call returns an error,    *)
(* and leaves the subsystem in the target.                                 *)
CreateSubsystem(s, applied) ==
    /\ tgt = "live" /\ sub[s] = "absent"
    /\ sub' = [sub EXCEPT ![s] = "inactive"]
    /\ handle' = [handle EXCEPT ![s] = applied]
    /\ UNCHANGED <<tgt, transport, listening, ns, listener, changeVars, opVars, completionVars>>

(* NvmfTarget::find_subsystem. *)
FindSubsystem(s) ==
    /\ tgt = "live" /\ sub[s] # "absent"
    /\ handle' = [handle EXCEPT ![s] = TRUE]
    /\ UNCHANGED <<tgt, transport, listening, sub, ns, listener, changeVars, opVars, completionVars>>

(* NvmfSubsystem::add_namespace; a bdev serves one namespace at a time.    *)
AddNamespace(s, b) ==
    /\ Usable(s) /\ Configurable(s)
    /\ \A r \in Subs : b \notin ns[r]
    /\ ns' = [ns EXCEPT ![s] = @ \cup {b}]
    /\ UNCHANGED <<tgt, transport, listening, sub, handle, listener, changeVars, opVars, completionVars>>

-------------------------------------------------------------------------------
(* Calling one of the four async functions only makes its future, into     *)
(* which add_transport moves the transport.                                *)
Create(o, a) ==
    /\ fut[o] = "none"
    /\ fut' = [fut EXCEPT ![o] = "lazy"]
    /\ args' = [args EXCEPT ![o] = a]
    /\ UNCHANGED <<tgt, listening, sub, handle, ns, listener, changeVars, io, result, verdict, completionVars>>

CreateAddTransport(o, t) ==
    /\ tgt = "live" /\ transport[t] = "made"
    /\ transport' = [transport EXCEPT ![t] = "moved"]
    /\ Create(o, [kind |-> "add_transport", transport |-> t])

CreateOnSub(o, a) ==
    /\ Usable(a.sub)
    /\ UNCHANGED transport
    /\ Create(o, a)

(* The first poll hands the sender to SPDK, which goes to work, ...        *)
Pend(o) ==
    /\ fut[o] = "lazy" /\ tgt = "live"
    /\ NewPair(o, "raw")
    /\ fut' = [fut EXCEPT ![o] = "awaiting"]
    /\ io' = [io EXCEPT ![o] = "pending"]
    /\ UNCHANGED <<args, result, verdict>>

(* ... or calls back before it returns, and the same poll finds the value. *)
AnswerAtOnce(o, status) ==
    /\ fut[o] = "lazy" /\ tgt = "live"
    /\ tx' = [tx EXCEPT ![o] = "gone"]
    /\ rx' = [rx EXCEPT ![o] = "resolved"]
    /\ slot' = [slot EXCEPT ![o] = Decode(status)]
    /\ fut' = [fut EXCEPT ![o] = "returned"]
    /\ io' = [io EXCEPT ![o] = "completed"]
    /\ result' = [result EXCEPT ![o] = Decode(status)]
    /\ verdict' = [verdict EXCEPT ![o] = Decode(status)]
    /\ UNCHANGED args

(* The callback of an operation that is pending.                           *)
Callback(o, status) ==
    /\ io[o] = "pending"
    /\ Deliver(o, Decode(status)) /\ UNCHANGED rx
    /\ io' = [io EXCEPT ![o] = "completed"]
    /\ verdict' = [verdict EXCEPT ![o] = IF fut[o] = "awaiting" THEN Decode(status) ELSE @]
    /\ UNCHANGED <<fut, args, result>>

-------------------------------------------------------------------------------
(* NvmfTarget::add_transport: into_ptr gives the transport away, whatever  *)
(* comes of it.                                                            *)
AddTransport(o) ==
    LET t == args[o].transport
        Becomes(state) == transport' = [transport EXCEPT ![t] = state]
    IN
    /\ args[o].kind = "add_transport"
    /\ IF \E u \in Transports : transport[u] = "added"
          THEN AnswerAtOnce(o, -EEXIST) /\ Becomes("lost")
          ELSE Pend(o) /\ Becomes("adding")
    /\ UNCHANGED <<tgt, listening, sub, handle, ns, listener, changeVars>>

AddTransportDone(o, status) ==
    /\ args[o].kind = "add_transport"
    /\ Callback(o, status)
    /\ transport' = [transport EXCEPT ![args[o].transport] = IF status = 0 THEN "added" ELSE "lost"]
    /\ UNCHANGED <<tgt, listening, sub, handle, ns, listener, changeVars>>

(* NvmfSubsystem::add_listener: refused if the subsystem is not inactive   *)
(* or the target does not listen there; a second time it is already done.  *)
AddListener(o) ==
    LET s == args[o].sub
        a == args[o].addr
    IN
    /\ args[o].kind = "add_listener"
    /\ IF ~Configurable(s) THEN AnswerAtOnce(o, -EAGAIN)
       ELSE IF a \in listener[s] THEN AnswerAtOnce(o, 0)
       ELSE IF a \notin listening THEN AnswerAtOnce(o, -EINVAL)
       ELSE Pend(o)
    /\ UNCHANGED <<targetVars, changeVars>>

AddListenerDone(o, status) ==
    /\ args[o].kind = "add_listener"
    /\ Callback(o, status)
    /\ listener' = IF status = 0 THEN [listener EXCEPT ![args[o].sub] = @ \cup {args[o].addr}]
                                 ELSE listener
    /\ UNCHANGED <<tgt, transport, listening, sub, handle, ns, changeVars>>

(* NvmfSubsystem::start and stop: at once if there is nothing to change,   *)
(* else in the queue.                                                      *)
ChangeState(o) ==
    LET s == args[o].sub IN
    /\ IsChange(o)
    /\ last' = [last EXCEPT ![s] = o]
    /\ IF sub[s] = Asked(o) /\ ~Changing(s)
          THEN AnswerAtOnce(o, 0) /\ UNCHANGED changes
          ELSE Pend(o) /\ changes' = [changes EXCEPT ![s] = Append(@, o)]
    /\ UNCHANGED targetVars

(* rc = -errno instead: the early return drops the receiver and leaves the *)
(* box of the sender to nobody.                                            *)
ChangeStateFails(o, errno) ==
    /\ IsChange(o) /\ fut[o] = "lazy" /\ tgt = "live"
    /\ tx' = [tx EXCEPT ![o] = "raw"]
    /\ rx' = [rx EXCEPT ![o] = "dropped"]
    /\ fut' = [fut EXCEPT ![o] = "returned"]
    /\ io' = [io EXCEPT ![o] = "refused"]
    /\ result' = [result EXCEPT ![o] = Os(errno)]
    /\ verdict' = [verdict EXCEPT ![o] = Os(errno)]
    /\ UNCHANGED <<targetVars, changeVars, args, slot>>

(* SPDK is done with the first state change in the queue of s.             *)
ChangeStateDone(s, status) ==
    /\ Changing(s)
    /\ LET o == Head(changes[s]) IN
       /\ sub[s] = Asked(o) => status = 0
       /\ Callback(o, status)
       /\ sub' = IF status = 0 THEN [sub EXCEPT ![s] = Asked(o)] ELSE sub
    /\ changes' = [changes EXCEPT ![s] = Tail(@)]
    /\ UNCHANGED <<tgt, transport, listening, handle, ns, listener, last>>

-------------------------------------------------------------------------------
(* A later poll of the future finds the receiver ready.                    *)
Resume(o) ==
    /\ fut[o] = "awaiting"
    /\ Resolve(o)
    /\ fut' = [fut EXCEPT ![o] = "returned"]
    /\ result' = [result EXCEPT ![o] = Outcome(o, Cancelled)]
    /\ UNCHANGED <<targetVars, changeVars, args, io, verdict>>

(* The caller drops the future; SPDK goes on with what it was told.        *)
Abandon(o) ==
    /\ Alive(o)
    /\ IF fut[o] = "lazy" THEN UNCHANGED completionVars ELSE DropReceiver(o)
    /\ transport' = [t \in Transports |->
          IF fut[o] = "lazy" /\ args[o].kind = "add_transport" /\ args[o].transport = t
             THEN "lost" ELSE transport[t]]
    /\ fut' = [fut EXCEPT ![o] = "dropped"]
    /\ verdict' = [verdict EXCEPT ![o] = None]
    /\ UNCHANGED <<tgt, listening, sub, handle, ns, listener, changeVars, args, io, result>>

Done(o) ==
    \E status \in Statuses : AddTransportDone(o, status) \/ AddListenerDone(o, status)

Next ==
    \/ CreateTarget \/ DropTarget \/ Destroyed
    \/ \E t \in Transports : CreateTransport(t) \/ DropTransport(t)
    \/ \E a \in Addrs : Listen(a)
    \/ \E s \in Subs, applied \in BOOLEAN : CreateSubsystem(s, applied)
    \/ \E s \in Subs : FindSubsystem(s)
    \/ \E s \in Subs, b \in Bdevs : AddNamespace(s, b)
    \/ \E o \in Ops, t \in Transports : CreateAddTransport(o, t)
    \/ \E o \in Ops, s \in Subs, a \in Addrs :
           CreateOnSub(o, [kind |-> "add_listener", sub |-> s, addr |-> a])
    \/ \E o \in Ops, s \in Subs, kind \in {"start", "stop"} : CreateOnSub(o, [kind |-> kind, sub |-> s])
    \/ \E o \in Ops : AddTransport(o) \/ AddListener(o) \/ ChangeState(o) \/ Done(o)
    \/ \E o \in Ops, errno \in Errnos : ChangeStateFails(o, errno)
    \/ \E s \in Subs, status \in Statuses : ChangeStateDone(s, status)
    \/ \E o \in Ops : Resume(o) \/ Abandon(o)

Spec == Init /\ [][Next]_vars

(* The thread is polled, so SPDK gets on with its work, and the executor   *)
(* polls futures that were woken.                                          *)
FairSpec ==
    /\ Spec
    /\ \A o \in Ops : WF_vars(Done(o)) /\ WF_vars(Resume(o))
    /\ \A s \in Subs : WF_vars(\E status \in Statuses : ChangeStateDone(s, status))
-------------------------------------------------------------------------------
(***************************************************************************)
(* Properties.                                                             *)
(***************************************************************************)

(* target.rs:74, subsystem.rs:105-142: what a caller was told has been     *)
(* done is so, whatever other futures, also dropped ones, have had SPDK do *)
(* since: a transport and a listener are there, and the subsystem is in    *)
(* the state that was asked for unless a later change was accepted.        *)
OkMeansDone ==
    \A o \in Ops : (tgt = "live" /\ fut[o] = "returned" /\ result[o] = Ok) =>
        /\ args[o].kind = "add_transport" => transport[args[o].transport] = "added"
        /\ args[o].kind = "add_listener" =>
              args[o].addr \in listener[args[o].sub] /\ args[o].addr \in listening
        /\ (IsChange(o) /\ last[args[o].sub] = o) => sub[args[o].sub] = Asked(o)

(* The four are asynchronous operations in the sense of AsyncOp.           *)
Phase(o) ==
    CASE fut[o] \in {"none", "lazy"} -> "idle"
      [] fut[o] = "awaiting" -> IF verdict[o] = None THEN "pending" ELSE "decided"
      [] fut[o] = "returned" -> "returned"
      [] fut[o] = "dropped" -> "cancelled"

Told(o) == IF fut[o] = "returned" THEN result[o] ELSE verdict[o]

Async(o) == INSTANCE AsyncOp WITH
    Verdicts <- Results, NoVerdict <- None, phase <- Phase(o), verdict <- Told(o)

ImplementsAsyncOp ==
    (\A o \in Ops : Async(o)!AsyncInit) /\ [][\A o \in Ops : Async(o)!AsyncStep]_vars

(* And each that SPDK has begun is answered, also behind other changes of  *)
(* the same subsystem whose futures are gone.                              *)
EveryCallAnswered == \A o \in Ops : Async(o)!Answered
===============================================================================
