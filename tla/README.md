# spdk-io: TLA+ specifications, model checking and proofs

`spdk-io` wraps SPDK, a C toolkit for user-space storage, in asynchronous Rust.
SPDK completes everything through callbacks, on threads that somebody must poll;
the crate turns the callbacks into futures, owns SPDK's objects through Rust
values with `Drop`, and passes closures between threads. What is hard about it is
not computation but order: who polls whom, which callback finds which box, who
initialises and finalises what, and what happens when a value is dropped too
early. The specifications here are about that.

## 1. Inventory of the system

| Component | State | Operations | Talks to |
|---|---|---|---|
| Completion pair (`complete.rs`) | a oneshot slot; the sender boxed behind a raw pointer while C holds it | `completion`, `into_raw`, `from_raw`, `success`/`error`, `poll` of the receiver | every asynchronous operation |
| `block_on` (`complete.rs`) | the future on its stack frame | poll the future, poll the thread, repeat | the current SPDK thread, completion pairs |
| `SpdkThread`, `ThreadHandle` (`thread.rs`) | the C thread's state and message ring; boxed closures in flight | `poll`, `poll_max`, `send`, `call`, `spawn`, drop (exit, drain, destroy) | other threads (messages), the message pool shared by all threads |
| Thread library (`thread.rs`) | `THREAD_LIB_INITIALIZED`, the C library, the current-thread pointer of each OS thread | lazy init, fini by the last drop, `current`, `attach`, `get_current` | environment, application framework |
| `SpdkEnv` (`env.rs`) | `ENV_INITIALIZED`, the C environment, the guard | `build`, drop, `is_initialized` | thread library |
| `SpdkApp` (`app.rs`) | reactors, an app thread, a boxed callback | `run`, `run_async`, `stop` | environment, thread library, `block_on` |
| `Bdev`, `BdevDesc` (`bdev.rs`) | handles, open descriptors, I/O in flight | `get_by_name`, `open`, `get_io_channel`, `read`, `write`, completion and event callbacks, drop | completion pairs, channels, buffers |
| `IoChannel` (`channel.rs`), `DmaBuf` (`dma.rs`) | a reference, a block of DMA memory | take/put, allocate/free | bdev and NVMe I/O |
| `SpdkEvent`, `Cores` (`event.rs`) | an allocated C event with a boxed closure | `new`, `call`, `call_on`, `call_on_async`, drop | reactors of other cores |
| `spdk_poller`, `spdk_poller_limited`, `YieldNow` (`poller.rs`) | iterations left | poll, yield when idle | a local executor, an SPDK thread |
| NVMe driver (`nvme/`) | controllers, qpairs, I/O in flight, a thread-local connect slot | `connect`, `connect_async`, `alloc_io_qpair`, `read`, `write`, `process_completions`, drops | completion pairs, nobody polls for it |
| NVMe-oF target (`nvmf/`) | target, transports, subsystems and the state changes SPDK has queued on them | `create_subsystem`, `find_subsystem`, `add_transport`, `listen`, `add_namespace`, `add_listener`, `start`, `stop`, drop | completion pairs |
| `pkgconf` (build-time parser) | the ordered list of link flags | `probe`: `parse` and `parse_cflags`; `to_cargo_directive` | Cargo |

Hard behaviours, each with its line in `PROJECT.json` under `hazards`:

* a poll inside a poll: a message closure may poll or `block_on` its own thread,
  so a thread is a stack of activations, each with messages it has dequeued;
* messages against drops: handles are raw pointers that outlive the thread; a
  drop drains the ring while closures still send into it;
* mutual waits: two threads that `block_on` calls to each other;
* a future dropped while the device still owns its buffer and C its sender;
* two atomic flags that stand for C-side state and change apart from it;
* wakers: a completion is delivered by whoever polls the SPDK thread, perhaps another
  task inside `block_on`, and must wake the task that waits;
* state changes of a subsystem that SPDK queues behind others, whose futures may be gone;
* partial failure: early returns after a flag was set or a box leaked to C.

What makes each component correct: *pair* – a pointer given to C comes back once,
and the receiver gets the value that was sent, or learns that none will come;
*messaging* – a closure runs at most once, on its target, after those sent before
it, is never lost by a drop, and its answer means it ran; *lifecycle* – C state is
up when Rust values that need it exist; *bdev* – the caller hears the device's
verdict unchanged, and the memory of an I/O outlives it; *events*, *NVMe* and
*NVMe-oF* – the same promises as pair and bdev, under other schedulers.

## 2. The modules

| Module | What it models |
|---|---|
| `Completion` | the pair of `complete.rs`, as action fragments the others share: `NewPair`, `Deliver`, `Ready`, `Outcome`, `Resolve`, `DropReceiver` |
| `AsyncOp` | abstract: what one asynchronous operation promises its caller, without boxes, pointers and callbacks |
| `ThreadMsg` | `ThreadHandle::send`/`call`, `SpdkThread::poll`/drop and `block_on`, for any number of threads and operations |
| `BdevIo` | bdev handles, descriptors, channels, buffers, `read`/`write` futures and their callbacks |
| `NvmeIo` | queue pairs of an NVMe controller, `read`/`write` futures of its namespaces, `process_completions`, drops of queue pairs and controller |
| `NvmeConnect` | `connect`, `connect_async` with its thread-local result, drop of controllers |
| `Event` | `SpdkEvent` on the reactors of several cores, the callback of `SpdkApp::run`/`run_async`, `stop` |
| `Executor` | tasks of a local executor, among them `spdk_poller`/`spdk_poller_limited`; wakers; `block_on` inside a task |
| `Nvmf` | `NvmfTarget`, `NvmfTransport`, `NvmfSubsystem`, their four asynchronous calls and their callbacks |
| `Lifecycle` | `SpdkEnv`, the thread library behind `SpdkThread`, and what `SpdkApp::run` initialises and finalises |
| `PkgConfig` | `PkgConfigParser::probe`: `parse`, the state machine over link flags, and `parse_cflags` |
| `...MC` | finite instances, and symmetry sets, for TLC |
| `..._proofs` | theorems about these modules, and their proofs; `Nvme_proofs` has those about `NvmeIo` and `NvmeConnect` |

`ThreadMsg`, `BdevIo`, `NvmeIo`, `Event`, `Executor` and `Nvmf` EXTEND `Completion`. `BdevIo`,
`NvmeIo` and `Nvmf` are shown to implement `AsyncOp`, once for each operation
(`Async(o) == INSTANCE AsyncOp WITH ...`).

An operator whose name begins with `Slip` is a seeded fault, a plausible slip of the
definition that follows it; no specification uses it. `PROJECT.json` pairs each
property of a passing run with the fault that it must detect.

### ThreadMsg and the code

`Threads` are OS threads with one `SpdkThread` each. `stack[t]` is the C stack of
`t`, innermost activation first: a *poll* (`spdk_thread_poll`, with the messages it
has dequeued into its local array, and the closure it runs), a *block_on*, a *drop*.
`queue[t]` is the thread's message ring. `status[o]` follows the boxed closure of
operation `o`; `tx`, `rx` and `slot` its completion pair if it is a `call`; `holder`
says which user code owns the receiver.

| Action | Code |
|---|---|
| `SendBegin`, `SendEnd` | `send` and `call`; `spdk_thread_send_msg` checks the state of the target, then takes a message from the pool and enqueues it, so the two halves are apart. A refusal leaks the closure, because the return code is discarded |
| `PollBegin`, `RunMsg`, `FinishMsg`, `PollEnd` | one `spdk_thread_poll` and the `msg_callback`s it makes. The end of a poll is where SPDK makes an exiting thread with an empty ring exited |
| `BlockOn`, `BlockOnReturn` | the two branches of `block_on`'s loop; the Pending branch is `PollBegin` |
| `ForgetCall` | the receiver of a `call` is dropped |
| `DropBegin`, `DropEnd` | `SpdkThread::drop`; its loop is `PollBegin` |

SPDK's C functions are not part of the repository. They are modelled as far as the
crate relies on them, and so marked in `PROJECT.json`: the message pool is one
counter (`PoolSize`), of which SPDK's per-thread caches may withhold up to `Cached` messages from a sender, a poll dequeues at most
`Batch` messages, and SPDK's 5 s limit on a thread that does not exit is left out.
Panics in closures abort the process (they would unwind into C) and end a behaviour.

Three constants say what the callers do, because safe Rust does not say it:

* `HandleScope`: `"any"` – a handle is used whenever one likes; `"owned"` – only while
  the owner has not begun to drop the thread, or by closures on the thread itself
  (the joins of `thread_test.rs`); `"running"` – not even by those;
* `ClosuresPoll`: whether a closure polls its thread `"never"`, while the thread is
  `"running"`, or at `"any"` time, also while it is being dropped;
* `CarryReceivers`: whether a closure may take along the receiver of an earlier call.

### BdevIo and the code

Everything here lives on one SPDK thread (the types are `!Send`); the interleaving
is that of futures and callbacks. A future is lazy: `Create` is the call of `read` or
`write`, `Submit`/`SubmitFails` its first poll, `Complete` the callback
`bdev_io_completion_cb`, `Resume` the poll that finds the receiver ready, `Abandon`
its drop. `Alive`, `Borrowed` and `BufferFree` are the borrow checker: a buffer can be
freed only when no live future borrows it. One bdev; hot removal (`Remove`) may come
at any time. That a `Bdev` handle is not used after its bdev was freed is the
caller's rule, the guard of `Open`.

### Lifecycle and the code

Each step between two accesses to shared state is an action; `pc[p]` names the place in
the code where the OS thread `p` stands (`"lib_init"`: flag swapped, C library not
initialised yet; `"count"`: thread destroyed, `count()` not read yet; and so on).
`Nested` is the discipline of `thread_test.rs`, where the main thread's SpdkThread
outlives those of the others. `run` is `AppStart` (up to `start_callback`),
`AppStartFails` and `AppFini`.

### NvmeIo and the code

As `BdevIo`, but nobody polls for the caller. The device posts a completion (`Post`: a
16-bit status word, on the queue `cq` of the queue pair); `nvme_io_complete` runs when user code
calls `process_completions` (`ProcessCompletions`), or when SPDK frees the queue pair
and aborts what is left (`DropQpair`, `Detach`). `RawWord` is the layout of the NVMe
specification, `Decode` the shifts of `nvme_io_complete`. Lifetimes are what the borrow
checker enforces: a live future borrows its queue pair, its buffer and the controller;
an `NvmeQpair` borrows nothing, so `Detach` may leave it `"dangling"`. `Depth` bounds the
requests of a queue pair, and a full one refuses with ENOMEM.

### NvmeConnect and the code

`stack[p]` holds the `connect_async` calls under way on OS thread `p`: while one is
`"polling"` (inside `thread.poll()`), a closure may start another. `cell[p]` is
`ATTACHED_CTRLR`. SPDK's part is which way a probe goes: refused, pending and later
attached (`ProbeAttaches`: `attach_cb` runs inside the probe poll that returns 0), failing, or
finding a controller that is attached already, whose reference count then grows.
`answer[c]` is the `Result` that connect `c` returned. (The names of this module differ from those of
`NvmeIo`, so that `Nvme_proofs` can extend both.)

### Event and the code

A core's reactor takes up to `Batch` events off its ring, runs their closures one
after the other (`running`), and does nothing else meanwhile. `wait[c]` says that the
activity of core `c` waits for the answer of a `call_on_async`; the start callback does so
with `block_on`, which polls the app thread only, so it lets the message of `stop` run but no
event. `closure[o]` is `closure_ptr`, `frees[o]` counts `Box::from_raw`. SPDK's pool is
counted (`PoolSize`); an event object that is dropped uncalled never returns to it.

### PkgConfig and the code

One step is one round of the second loop of `parse`. Tokens, directories and archives are
what the branches of the loop tell apart; `input` is any list from `Inputs`.
The `String`s, and the file system behind `is_static_available`, are given by `Archives`
and `SystemDirs`. When `parse` is done, `parse_cflags` reads `cinput` (`ReadCflag`,
`SkipCflag`); an `-I` or `-D` token is known by its text, which `seen` compares.

### Executor and the code

One OS thread, one SPDK thread, one executor; `current` is the task that it polls, `ready` those
that were woken. `PollerIteration` is one round of the loop of `spdk_poller` or, with
`limit` # 0, of `spdk_poller_limited`: it runs every callback that is due, goes round again
if there was any work, and else does what `YieldNow` does: wakes its own task and is Pending.
`Start` begins an operation, whose receiver may stay unpolled for a while, as that of
`ThreadHandle::call` does; `Await`, `AwaitReturns` and `Park` are an await of one or (as in a
select) of several receivers, `BlockOn`, `BlockOnPolls` and `BlockOnReturns` a `block_on` of the
same within the task. `waker[o]` is what the oneshot channel keeps: the waker of the last
poll, which for `block_on` is the `NoopWaker` (`None`). `RemoteDone` is a call's closure that
ends on another thread. The executor is external: any that polls one task at a time and polls
each woken one again, in whatever order.

### Nvmf and the code

As in `BdevIo`, a call makes a lazy future, its first poll hands the sender to SPDK, and a
callback answers; but SPDK may call back inside that first poll (`AnswerAtOnce`) or long
after (`Pend`, then `AddTransportDone`, `AddListenerDone`, `ChangeStateDone`). What the crate relies on
of SPDK's target library is modelled and marked external: one transport of a type (a
second one gets EEXIST); listeners and namespaces for an inactive subsystem without queued
changes only (EAGAIN), and for an address the target listens on (EINVAL); state changes of a
subsystem queued in `changes[s]` and made one by one, or answered at once if there is nothing to do.
`handle[s]` says that the caller has an `NvmfSubsystem`, a pointer without a lifetime, from
`create_subsystem` or `find_subsystem`. That subsystems are stopped and nothing is under way when the target is
dropped, and no handle is used afterwards, are the caller's rules, the guards of `DropTarget`
and `Usable`. `transport[t] = "lost"` is one that nobody will free.

## 3. What the runs check

| Run | Question | Result |
|---|---|---|
| `msg_join` | Is messaging safe if handles stay inside the thread's life, with closures that poll and block? | `OnePlace`, `ReclaimedOnce`, `DrainedOnDrop`, `ReplyMeansRan`, `InOrderUnlessNested` and `NoWaitCycle` hold |
| `msg_live` | Does everything finish? | every sent closure runs, every `block_on` and every drop returns |
| `bdev_io` | What are callers of `read` and `write` promised, if they may drop futures? | SPDK's verdict, once, unchanged, in the end; the callback's box is there; while awaited, the memory is theirs |
| `bdev_dma` | ... and the memory of an I/O whose future was dropped? | not protected (`NotSharedDuringIo`): it can be lent to another I/O while the device works on it |
| `nvme_io` | The same of NVMe, with queue pairs and the controller dropped at any time the compiler allows | holds, if the queue pair is polled; drops settle the I/O in flight |
| `nvme_connect` | Does each connect get its own controller through the cell all share, and own one reference? | yes, nested, refused, failing and abandoned as they may be |
| `event` | Do events run once, in order, and do answers mean what they say? Do waits, and the run, end? | yes; the waits only if callers keep them acyclic and stop after waiting |
| `executor` | Do tasks get woken, whoever polls the thread? Do awaits end? Does the limited poller? | no wakeup is lost; awaits end with `spdk_poller`, unless other work keeps it from ever yielding; `spdk_poller_limited` returns |
| `nvmf` | Does Ok mean that the target is so, whatever other and dropped futures have SPDK do? Is every call answered, unchanged? | yes |
| `pkg_parse` | Does the single pass give each library the kind that the docs promise for the whole list, in the order of the list? Are compiler flags kept once, in order? | yes, but for the kind of a library that `-pthread` brings in (section 5) |
| `life_nested` | Do flags, library, environment and current-thread pointers agree when lifetimes nest? | yes |
| `life_race` | ... and when they do not? | no: an `SpdkThread` can be made before the library is, or lose it |

**Bounds.** `ThreadMsg`: two threads and two or three operations are the least with which
two senders race for one ring, two threads wait for each other, one poll overtakes
another and a closure sends to its own exiting thread; `Batch = 2` lets a batch hold a
message back while a nested poll runs and starts a third, later one. In `msg_join` the pool has three messages, one of
which (`Cached = 1`) the cache of another thread may withhold or not, so that the third send is accepted in some behaviours
and refused in others; in `msg_live`, where no send may be refused, nothing is withheld. `BdevIo`: two futures on two buffers with one
descriptor and one channel are the least with sharing, reuse and reordering; there is
one errno. `NvmeIo`: two futures on two queue pairs, one of depth 1, where the second
submission gets ENOMEM, and one of depth 2, where `process_completions(1)` leaves a
completion behind; the status words differ in phase tag, code, type and retry bit.
`NvmeConnect`: four connects on two OS threads hold a nested pair on one, a rival on the
other and a second attachment of a controller. `Event`: two cores, three events, batches of
two, and a pool of two, so that it runs dry. `PkgConfig`: all 37449 lists of up to
five of eight tokens, two libraries and two directories, one of them a system one, and
the 121 lists of up to four of three compiler-flag tokens. `Nvmf`: three calls are the
least with a start, a stop and a listener between them, two changes queued behind a third, or a
transport that comes second; one subsystem, two transports, one address, one errno.
Operations and transports start in a fixed order (`InOrder`), which loses nothing as they are
interchangeable, and behaviours with namespaces, which no other action reads, are followed to the
first call. `Executor`: two tasks and three operations are the least with a select in one task
while the other is in `block_on`; the limited poller polls twice, so that it may yield
never, once or at its end.
`Lifecycle`: three OS threads and four thread objects let one object be made,
another dropped and a third be the last one while an init or fini is under way. No
other variable is a counter that needs a cap (the executor's count of polls stops at
`limit`): an operation, future, connect or thread object is used once.
Every module defines its `TypeOK` (`NvmeConnect` calls it `ConnectType`); the runs of the two systems with the most to prove about,
`msg_join` and `bdev_io`, check it.

**Fairness.** `ThreadMsg!FairSpec`: an OS thread goes on with what it is doing (WF of
`ThreadStep`, which includes the rounds of the loops of `block_on` and drop, and the drop
of the `SpdkThread` at the end of its scope), and a closure does not poll for ever
(SF of `FinishMsg`). It does not include sends, new waits or polls of the users' choice.
`BdevIo!FairSpec`: the device answers (the thread is polled), and a woken future is
polled again. `NvmeIo!FairSpec`: besides, somebody calls `process_completions`; the crate
does not (`docs/design/future.md:118` gives it to a poller of the application; the tests
poll in a loop of their own).
`Nvmf!FairSpec`: SPDK gets on with what it has (the thread is polled), woken futures are
polled. `Executor!FairSpec` is about the source of these: the executor polls every woken task
(SF, as it must also get its turn), code that runs goes on, operations end. It does not say that a poll of the
SPDK thread ever finds nothing: `AwaitsReturn` has that as a premise (`[]<>(current # Poller)`), and that
the poller is not limited, as TLC finds a task that starves without either.
`Event!FairSpec`: reactors loop, and closures and the callback end unless they wait for
something that does not come. Its liveness properties have the premise
`Disciplined`, which the crate does not enforce: event closures do not wait for events, the
callback does not wait for its own core (`WaitsDown`), and nobody waits once `stop` was called
(`StopsLate`). Without either half TLC finds a wait that never ends.

**Deadlock** is checked in the `ThreadMsg` runs (`Terminated` is the only stop). The other
systems stop when their objects are used up, or the list of tokens is read.

## 4. What is proved

Every invariant and action property of the passing runs, and the refinement of `AsyncOp` wherever it
is claimed, is a theorem: it holds for every value of the constants that the `ASSUME`s admit,
not only for the instances above. No assumption is made elsewhere; where a theorem needs
a discipline of the callers, its statement says so. Each proof has the same shape: an invariant
`IInv` that is inductive, one lemma `Next...` for each of its parts, `InvHolds`, and the
properties as consequences. TLC checked each `IInv` on an instance before it was proved.

### ThreadMsg

`ThreadMsg_proofs` proves, for all `Threads`, `Ops`, `Results`, `PoolSize`, `Batch` and
callers' disciplines that the `ASSUME`s of `ThreadMsg` and `Completion` admit:

| Theorem | Statement |
|---|---|
| `TypeCorrect` | `Spec => []TypeOK` |
| `InvHolds` | `Spec => []IInv`, the inductive invariant |
| `OnePlaceHolds` | a message is in one ring, batch or running closure, on its target thread |
| `ReclaimedHolds` | the box of a closure is reclaimed at most once |
| `ReplyHolds` | a resolved call carries the value of a closure that ran to its end |
| `DrainedHolds` | unless `HandleScope = "any"`: a destroyed thread has run all it accepted |
| `OrderHolds` | `Spec => []Order`, the invariant about order and waits |
| `InOrderHolds` | a message starts only when those its ring took before it have started, or wait in the batch of a poll whose closure polls |
| `InOrderWithoutPolls` | if `ClosuresPoll = "never"`: messages to one thread start in the order its ring took them |
| `NoWaitCycleHolds` | unless `CarryReceivers`: no set of threads waits in a circle, each buried under another's `block_on` |

None of these is inductive. `IInv` is
`TypeOK /\ Placed /\ Shape /\ Tracked /\ Senders /\ Quiet /\ Replies`, each part there
because a step of another needs it:

* `Placed` says the same as `OnePlace` position by position: an index of a ring, an
  index of the batch of some activation, or a running closure; who is there is there
  once, with the status and the target of that place. Polls move messages between
  the three, so each excludes the other two through the status.
* `Shape` says what a stack can look like: a drop is at its bottom, only a poll holds
  messages, and a destroyed thread has none. `DropEnd` and `BlockOnReturn` pop an
  activation and must know that no message goes with it.
* `Tracked` is the converse of `Placed`: a message whose status names a place is there.
  Without it, an empty ring and stack would not show that a destroyed thread ran all it accepted.
* `Senders` is about the gap inside `spdk_thread_send_msg`, between the check of the
  target's state and the enqueue: who stands there, and that under the discipline the
  target has not exited meanwhile.
* `Quiet`: under the discipline, an exited or destroyed thread has an empty ring, and no
  send found its thread gone (which `DrainedHolds` needs to rule that status out).
* `Replies` ties `tx`, `rx` and `slot` of a call to the status of its closure.

The proof that `Next` preserves `IInv` has a lemma for each action (`SendBeginKeeps` ...
`DropEndKeeps`). These rest on a few lemmas about pushing, popping and replacing the
innermost activation (`PushStack`, `PopStack`, `SwapStack`, and their counterparts
for places and shapes) and on `SplitRing`, which says that a poll splits a ring in two.

`Order` is inductive together with `IInv`. `Recorded`: `accepted`, the history of what the rings took,
has each message that was sent, once. `RingOrder` and `BatchOrder`: a ring and a batch are in that
order; `QueuedLast`: what a poll has taken came before what is still in the ring. That
gives `InOrderUnlessNested`: only `RunMsg` starts a closure, the head of the innermost batch (`StartedIsHead`), and
what came before it is no longer in the ring, nor behind it in that batch. Without closures that poll (`Unnested`) a thread has one
poll at most, and what it has in its batch came after all it has started. `OwnCalls` is for `NoWaitCycle`: as long as
receivers do not travel, a closure holds only receivers of calls it made while it ran
(`HolderRuns`), and so of messages that are younger than all that is in its stack below it
(`HeldLater`, and `AwaitedLater` for a receiver in `block_on`). Suppose a circle: each of its threads waits for a message
that lies in another's stack under a `block_on`, and that `block_on` waits for a younger one. Then no
member waits for the youngest. The set of threads may be of any size; it is the position in `accepted`
that ends the descent (`LastPosition`, `BuriedBefore`).

### Executor

`Executor_proofs` proves, for all `Tasks`, `Ops`, `Results` and `MaxIters`:

| Theorem | Statement |
|---|---|
| `TypeCorrect` | `Spec => []TypeOK` |
| `NothingSleepsOn` | `Spec => []NoLostWakeup` |

`NoLostWakeup` says that a sleeping task awaits something and nothing it awaits is ready. To
know that the next completion wakes it, `Sleeping` adds that the waker of each of these
receivers is that task's. Three more parts keep the others away from those wakers: a task
awaits its own unresolved futures (`Awaited`), what was not started has no owner (`Fresh`), and
`block_on` runs in the current task, which awaits nothing meanwhile, on futures of its own
(`Blocked`). `KeepsSleeping` states once what a step must do to keep this; each action is an
instance of it, but for `Park`, the only one that puts a task to sleep.

### BdevIo

`BdevIo_proofs` proves, for all `Ops`, `Descs`, `Chans`, `Bufs` and `Errnos`:

| Theorem | Statement |
|---|---|
| `TypeCorrect` | `Spec => []TypeOK` |
| `InvHolds` | `Spec => []IInv`, the inductive invariant |
| `FromRawOnceHolds` | the callback finds its box, and nobody has it afterwards |
| `AwaitedIoCoveredHolds` | an awaited I/O has its handles and its memory |
| `Implements` | `Spec => ImplementsAsyncOp`: a step is a step of `AsyncOp`, or a stutter, for every operation |

Its `IInv` has three parts besides the types. `Pairs` says how far the future, the I/O and the
pair of an operation can be apart: nothing before the submission; then the box with SPDK and no
verdict; then the verdict in the slot, if the future still waits. `FromRawOnce` is a part
of it, and it shows for the refinement that a ready future returns the verdict and never
`Cancelled`. `Uses` and `Exclusive` are what the borrow checker maintains: a live future's handles
are open, and a buffer that one reads into is its own. `AwaitedIoCovered` follows, as an I/O
in flight whose future is not live is that of a dropped one.

### NvmeIo and NvmeConnect

`Nvme_proofs` proves of `NvmeIo`, for all `Ops`, `Qpairs`, `Bufs`, `Errnos`, `Statuses` and every `Depth`:

| Theorem | Statement |
|---|---|
| `RawWordRead` | for every status, `Decode` of its 16-bit word is its meaning: neither the phase tag nor the retry bits leak into the code |
| `TypeCorrect`, `InvHolds` | types, and the inductive invariant |
| `FromRawOnceHolds` | the callback finds its box, and nobody has it afterwards |
| `DropsSettleIoHolds` | no I/O is in flight on a queue pair that is gone |
| `AwaitedIoCoveredHolds` | an awaited I/O has its controller, its queue pair and its memory |
| `Implements` | `NvmeIo` implements `AsyncOp` for each operation |

`Pairs`, `Uses` and `Exclusive` are as in `BdevIo`, with one more stage: a status that is posted and
not processed, where the word decodes to the verdict. `Queued` says that a completion queue
holds posted operations of its own queue pair, each once; `process_completions` and the drops, which
settle many at a time, need it to know that each box is consumed once. `Frees` describes
`DropQpair` and `Detach` by one relation, so that what both do is argued once.

And of `NvmeConnect`, for all `Procs` and `Calls`, finite or not:

| Theorem | Statement |
|---|---|
| `ConnectTypeCorrect`, `ConnectInvHolds` | types, and the inductive invariant |
| `ResultIsOwnHolds` | a connect returns the controller announced for it, and "not found" only if none was |
| `RefsMatchHolds` | a controller has one reference for each value and each connect under way that holds it, and for those left behind |

`Stacks` says that a connect below the innermost is in its poll, and that a connect which ever polled had nothing
announced before; `CellsTracked`, that the cell of an OS thread belongs to its innermost connect. Together
they are why one cell suffices: a nested connect that clears the cell clears nothing of those
below it. `Values` ties what was returned to where a connect stands. `Counted` is `RefsMatch`, with the set it
counts shown to be finite, and `Known` says that a controller with references was made by its own connect.

### Nvmf

`Nvmf_proofs` proves, for all `Ops`, `Subs`, `Transports`, addresses and errnos:

| Theorem | Statement |
|---|---|
| `TypeCorrect`, `InvHolds` | types, and the inductive invariant |
| `OkMeansDoneHolds` | while the target lives, what a call returned Ok for is so |
| `Implements` | `Nvmf` implements `AsyncOp` for each asynchronous call |

`Pairs` ties a future to SPDK's answer. `OkHolds` is the property for what SPDK has said, whether the
caller has heard it or not. It would not survive a step without `Moves` (a transport under way is
nobody else's), `Listeners` (a listener's address is one the target listens on), `Known` (no
call comes before its target and its subsystem, none is under way after the target), and `Queued` (the
changes under way on a subsystem are pending calls, each once, and the last of them is the last accepted).

### Event

`Event_proofs` proves, for all `Cores`, `Ops`, `Batch` and `PoolSize`, and callers of any discipline:

| Theorem | Statement |
|---|---|
| `TypeCorrect`, `InvHolds` | types, and the inductive invariant |
| `BoxReclaimedOnceHolds` | the box of an event's closure is reclaimed once at most, and never before the event is through with it |
| `StartsInOrderHolds` | the events of one core start in the order of their calls |
| `ReplyMeansRanHolds` | a resolved `call_on_async` has the value of a closure that ran to its end |

What waits on a core, batch and ring together, is its line. A line has events of that core, each once
(`Placed`), all of them while the application runs (`Kept`), in the order of the calls (`InStep`, over `History`). Taking a
batch leaves a line as it is. `Boxes`, `Runs` and `Pairs` count an event's box and follow its sender;
`Phases` says what is left of rings and batches when reactors stop.

### Lifecycle

`Lifecycle_proofs` proves, for all `Procs` and `Objs`, with and without `SpdkApp::run`:

| Theorem | Statement |
|---|---|
| `InvHolds` | the inductive invariant |
| `EnvExclusiveHolds` | one OS thread at a time initialises, owns or finalises the environment |
| `CurrentNeverDanglesHolds` | the current thread of an OS thread is alive and its own |
| `LibUpWhileLiveHolds` | if `Nested`: the library is up while an `SpdkThread` lives |
| `LibFlagTracksHolds` | if `Nested`: the flag says whether the library is up, when nobody is between the two |
| `CreatesInLibHolds` | if `Nested`: `spdk_thread_create` is called with environment and library up |

The first two hold without any discipline. `EnvGuarded` says that whoever stands between the swap of
`ENV_INITIALIZED` and the store that takes it back has the flag alone; `Made`, that an
`SpdkThread` under construction is nobody else's. The other three need the nesting of `thread_test.rs`: without it
`life_race` violates what it checks. `Nesting` says where nested lifetimes keep the library: only the main thread initialises
and finalises it, and another OS thread has an `SpdkThread`, or is in the middle of making or
dropping one, only while the main thread has one.

### PkgConfig

`PkgConfig_proofs` proves, for inputs of any length over any libraries, directories and archives:

| Theorem | Statement |
|---|---|
| `TypeCorrect` | types; an index that is stored is a place in the flags |
| `KindIsPromisedHolds` | after every token, each library, unless `-pthread` introduced it, has the kind that the docs promise for all that was read |
| `OrderKeptHolds` | the flags are those of the tokens that make one, each at the rank of its token |

`KindIsPromised` looks at the whole prefix, the parser at the last token and its state. It excepts a library whose first mention is
`-pthread`, for which the code does not keep the promise (section 5); `KindIsGiven`, the inductive form, says what that library gets instead. `SeenRead` and
`CSeenRead` say what that state stands for: `seen` are the names mentioned, the region is the bracket of the next token,
`parse_cflags`' `seen` the texts read. `Indexed` says that a name that was seen has one flag, to which its index
points unless `-pthread` came first; so an upgrade hits the one flag of its library, and a library of `-pthread` gets none. `FlaggedOne` and `FlaggedNone`
say what a token with and without a flag does to the ranks, by `Ranks`.

### What stays with TLC

Liveness: `SentClosureRuns`, `BlockOnReturns`, `DropReturns`, `EveryIoAnswered`, `EveryCallAnswered`,
`RunReturns`, `CalledRuns`, `AwaitsReturn`, `PollerEnds`. Liveness under fairness and `ENABLED` are beyond
the proof system's present backends, and so is induction over data. The two runs that end in a violation
say what does not hold, and need no proof.

## 5. Known deviations

The runs that end in a violation:

* `bdev_dma`: a future of `read` or `write` that is dropped in flight ends its borrow of
  the buffer, although the device still works on it; the buffer can be lent to another I/O, or freed, against
  `docs/design/memory.md:69` ("not shared during I/O"). (NVMe futures behave alike.)
* `life_race`: `THREAD_LIB_INITIALIZED` and the library it stands for change apart.

Others, seen while modelling, that take a single step or a caller outside the
discipline; the models contain them, and no property claims their absence:

* a submission that SPDK refuses leaves the boxed sender to nobody (`bdev.rs:274`,
  `namespace.rs:130`: `SubmitFails`), a failing `spdk_app_start` leaves the boxed callback
  (`app.rs:336`: `RunFails`), and a `connect_async` without a current thread leaves the probe
  and its controller (`controller.rs:213`: `ConnectNoThread`);
* a `build` of the environment that fails on a name or core mask with a NUL byte leaves
  `ENV_INITIALIZED` set (`env.rs:207`: `EnvBadString`): `is_initialized` stays true, and every later `build` fails;
* `spdk_poller` yields only when a poll found no work, so a busy SPDK thread starves the tasks
  of its executor (`poller.rs:74`), and `spdk_poller_limited` returns with tasks still waiting, whose
  awaits then need somebody else to poll (`poller.rs:102`);
* `into_ptr` gives a transport away before SPDK has taken it (`nvmf/transport.rs:79` speaks of a
  transfer of ownership): if `add_transport` fails, or its future is never polled, or the
  `NvmfTransport` is just dropped, it is never freed (`transport[t] = "lost"`);
* `create_subsystem` that fails to set a serial or model number leaves the subsystem in the target
  (`nvmf/target.rs:149`): `find_subsystem` finds it and a second attempt is refused;
* `NvmfTarget::drop` starts the destruction and returns, although its comment says "we need to
  block here" (`nvmf/target.rs:192`), and an `NvmfSubsystem` can be used after it;
* `start` and `stop` that SPDK refuses leave the boxed sender to nobody, like `SubmitFails`
  (`nvmf/subsystem.rs:134`, `153`: `ChangeStateFails`);
* `send` discards the return code: with an empty message pool, or an exited thread, the
  closure is leaked and never runs (`SendEnd`). `msg_live` therefore has a pool that suffices;
* closures that poll a thread while it is being dropped make it exited under
  themselves; a later call to their own thread is refused, and their `block_on` and the drop
  spin for ever. `msg_live` therefore has `ClosuresPoll = "running"`;
* `SpdkApp::stop` leaves behind events called late, and who waits for one waits for ever;
  so does a closure or callback that waits for an event on its own core (`event.rs:256`);
* after `SpdkApp::run` has returned, `THREAD_LIB_INITIALIZED` is still set, and a
  later `SpdkThread` finds no library (`thread.rs:103`; `life_nested` makes no thread then);
* an `NvmeQpair` may outlive its `NvmeController`; its drop then frees it again
  (`qpair.rs:70`: `"dangling"`);
* `open`, `read` and `write` of a bdev return `Error::Os(rc)` with SPDK's negative code
  (`bdev.rs:142`, `275`, `330`), while `error.rs:59` documents an errno and `from_rc` exists
  to negate it;
* `SpdkThread::drop` clears the current thread of the OS thread even if it is another
  SpdkThread's (`thread.rs:432`): after one of two is dropped, `get_current` is `None` and
  `block_on` panics;
* `pkgconf` promises Static or WholeArchive for every library with an archive outside of the system directories
  (`lib.rs:521`), an upgrade inside brackets (`523-524`), and WholeArchive "always" for the forced ones (`327-331`, `385`). A library that
  `-pthread` brings in before any `-l` names it is added as Default and without an index (`584-590`), so it stays Default whatever its
  archive, the brackets and `force_whole_archive` say. `KindIsPromised` excepts it; without the exception TLC refutes it with
  `-pthread -L/opt`, where `/opt/libpthread.a` exists;
* a forced library without such an archive is Default (`lib.rs:630-637`), as `522` says and against the "always" of `327`;
* whole-archive markers are "consumed internally" (`lib.rs:124-126`) and not emitted (comment at `558`), but a `-Wl` token that also holds
  `export-dynamic` or `as-needed` is passed on whole (`555-557`): `-Wl,--no-whole-archive,--as-needed` reaches the linker with its marker.
  `OrderKept` asks only for the arguments that are no markers;
* a `ThreadHandle` (`thread.rs:549-556`) or a copied `Bdev` can be used after what it points to is gone. With `HandleScope = "any"` the
  model of the former reaches `status[o] = "dangling"`; with the other values it cannot, by the guards of the callers alone, so no property claims it. With
  `CarryReceivers` and closures that poll TLC finds two threads that wait for ever
  for closures buried in each other's stack (`NoWaitCycle`).

## 6. Plan

Done, in this order: `Completion`, `ThreadMsg`, `AsyncOp`, `BdevIo`, `Lifecycle`,
`ThreadMsg_proofs`, `NvmeIo`, `NvmeConnect`, `Event`, `PkgConfig`, `Nvmf`, `Executor`,
`Executor_proofs`, `BdevIo_proofs`, `Lifecycle_proofs`, `Nvmf_proofs`, `Event_proofs`, `Nvme_proofs`, order
and waits in `ThreadMsg_proofs`, `PkgConfig_proofs`. Next, most important first:

1. The safety halves of what liveness rests on. In `ThreadMsg`, that some activation can go on whenever the run is not
   `Terminated`, written with the guards of the actions instead of `ENABLED`; in `Executor`, that with no task ready
   every task waits for something that SPDK or another thread still owes.
2. In `Lifecycle`, which part of `Nested` each of the three theorems needs: a weaker discipline that
   `SpdkThread` could check itself.

## 7. Not modelled

Contents of buffers and names; option structs copied field by field; logging; accessors
that only read; the run of `pkg-config` and the conversions of flags to strings in `pkgconf`;
`TransportId` (`nvme/transport.rs`), which copies strings into fixed fields, refuses those
too long and cuts those with a NUL byte at it; `process_admin_completions`, which touches no state of the crate;
bindgen output (`spdk-io-sys`); the crate root and the test helper; tests, CI
and infrastructure files, which were read for the way the crate is used.
