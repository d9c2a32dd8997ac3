# Verification of sk-cio

TLA+ models, TLC runs and TLAPS proofs for sk-cio, a header-only C++ library of
coroutine-based asynchronous I/O (`src/include/sk`). Paths below are relative to
that directory. `PROJECT.json` lists components, runs, mutants, the map from
definitions to source lines, findings, hazards and theorems.

## 1. The system

| Part | State | Operations | Talks to |
|---|---|---|---|
| `task` (`task.hxx`) | coroutine frame; promise: `previous`, `ready` (TS only), `task_executor`, result, exception | `co_await` (await_suspend, await_resume), final_awaiter, `start`, destructor | executors resume it |
| `mt_executor` (`executor.hxx`) | `_work`, `_threads`, `_stop`, `_mtx`, `_cv` | `post`, `run`, `start_threads`, `stop` | reactors post to it |
| `wait`, `wait_executor` (`wait.hxx`) | `_work`, the task | `post`, `run`, `wait` | starts a task, reactors post to it |
| `co_detach` (`co_detach.hxx`) | a self-destroying coroutine | `co_detach` | inherits its parent's executor |
| `async_invoke` (`async_invoke.hxx`) | callable, future, mutex | await_suspend, await_resume | a new thread, executor |
| epoll reactor (`posix/detail/epoll_reactor.hxx`) | `_state[fd]` (read_waiter, write_waiter, event mask), epoll fd, shutdown pipe, thread | associate, deassociate, register interest, `async_fd_*`, start, stop | kernel, executors, sockets |
| io_uring reactor (`posix/detail/io_uring_reactor.hxx`) | ring, `_pending`, thread | `_put_sq`, completion thread, start, stop | kernel, executors, files |
| reactor handles (`reactor.hxx`, `posix/detail/linux_reactor.hxx`, `co_main.hxx`) | `reactor_refs`, `reactor_mutex`, the two reactors | shared and weak `get`, destructors, `start`, `stop` | every channel takes a weak handle |
| stream sockets, fds (`posix/detail/streamsocket.hxx`, `posix/fd.hxx`) | `_fd` | connect, listen, accept, read, write, close | reactor |
| file channels (`posix/detail/filechannel_base.hxx`, `channel/filechannel.hxx`) | fd, positions | open, read, write, close | reactor |
| buffers (`buffer/*.hxx`, `static_vector.hxx`) | data, read and write pointers, extents | read, write, ranges, commit, discard | `channel/read.hxx`, `channel/write.hxx` |
| `memchannel`, `charchannel`, `pmr_channel` | positions in memory; forwarded channel | read, write | buffers |
| addresses, URI, patricia trie (`net/*.hxx`, `patricia.hxx`) | values; tree nodes | conversions; insert, find, remove | application |
| Windows backend (`win32/`) | completion port, thread; OVERLAPPED with its mutex in each awaiter | associate, `overlapped_begin`, completion thread, start, stop | kernel, executors |

How they work together: a program's `main` takes a `shared_reactor_handle`, and
`wait()` runs the outermost task. A task awaits others; the innermost one awaits a
reactor awaiter, which parks it in the reactor. A reactor thread later posts the
coroutine's handle to the executor recorded in the promise, and whichever thread
runs that executor resumes it.

What is hard here:

- the coroutine may be resumed on another thread before the thread that suspended
  it has left `await_suspend`;
- edge-triggered one-shot events: readiness can change between the failed system
  call and the registration, an event can be in a batch already pulled when its fd
  is deregistered or its number reused;
- two mutexes taken in opposite orders by the epoll thread and by `await_suspend`;
- the coroutines-TS handshake in which two threads decide who continues a caller;
- condition variables: lost notifications, threads sleeping through `stop()`;
- rings that fill up: submissions that are refused, taken in part or kept aside,
  and completions that overflow;
- a reference count that is only partly protected by a mutex;
- start and stop that consist of several steps, any of which can fail;
- an executor that lives on the stack of `wait()` while other threads post to it;
- overlapped operations that complete before the call that began them has returned;
- ranges of a buffer that are lent across a `co_await`, while the other end of the
  buffer moves its pointer, retires extents or fails half way;
- a tree whose removals leave nodes, keys and roots behind for later insertions.

What makes each part correct: a suspended operation is resumed exactly once and is
not forgotten; pointers in the fd table do not dangle; locks do not form a cycle;
the executor is a FIFO queue that loses and repeats nothing and can be stopped; an
await chain behaves like a call stack; a handle always refers to a running reactor;
`wait()` returns, and not before nobody needs its executor; a buffer delivers what was
put in, in order; a trie is a set of keys with longest-prefix search.
`PROJECT.json` "hazards" has the list, each at its source line.

## 2. Modules

| Module | Models | Notes |
|---|---|---|
| `EpollReactor` | epoll reactor | the main model; kernel side (readiness, ready list, one-shot mask, `epoll_wait`) marked external in the map |
| `EpollReactorProofs` | | inductive invariant and theorems |
| `WorkQueue` | what an executor promises | abstract specification |
| `MtExecutor`, `MtExecutorProofs` | `mt_executor` | implements `WorkQueue` |
| `CallStack` | what `co_await` promises | abstract specification |
| `TaskAwait`, `TaskAwaitProofs` | `task` | implements `CallStack` |
| `ReactorHandle` | reactor handles, `linux_reactor::start/stop` | |
| `IoUring`, `IoUringProofs` | io_uring reactor | rings and kernel marked external in the map |
| `SyncWait`, `SyncWaitProofs` | `wait`, `wait_executor`, `co_detach`, `async_invoke` | composed: threads, executors, awaiters |
| `IocpReactor` | the Windows reactor and its awaiters | the kernel's completions marked external |
| `ReactorProofs` | | theorems about `ReactorHandle` and `IocpReactor` (whose `IocpInit`, `IocpNext` and `IocpSpec` have their names so that one module can extend both) |
| `BoundedStream` | what a bounded buffer promises | abstract specification |
| `CircularBuffer` | pointer arithmetic of `circular_buffer` | operators only |
| `Pipe`, `PipeProofs` | `circular_buffer` with the loops of `channel/read.hxx`, `channel/write.hxx` | implements `BoundedStream` |
| `DynamicBuffer`, `DynamicBufferProofs` | `dynamic_buffer` with the same loops | |
| `Patricia` | `patricia_trie` | recursive operators, for TLC only |
| `MC*` | constants for TLC | |

Definitions whose comment starts with "mutant" are deliberate faults: `PROJECT.json`
names, for each property, one that TLC must catch.

### EpollReactor

`assoc`, `waiter`, `events` are `_state[fd]`: non-null, the two waiter pointers, the
event mask. `stale` says that a socket which was closed and is not destroyed yet still
holds the number (`unique_fd::close` keeps it). `added`, `mask`, `rdl`, `avail`, `hup`,
`pipe` are the kernel's view. `epc`, `inflight`, `shutEv`, `holds` are the epoll thread;
`cpc`, `cmtx`, `tail`, `jobs` the coroutines. `_state_mtx` is not a variable: the epoll
thread holds it exactly while `epc = "locked"`, and every other section under it has no
inner blocking point, so it is one step enabled when the mutex is free. The awaiter's
mutex is explicit (`cmtx`), because the epoll thread can block on it while holding
`_state_mtx`. The awaiter sits at one place in the coroutine frame, so successive
awaiters of a coroutine share one lock word; `tail[c]` counts `await_suspend` calls that
have registered and not yet released it, which can be more than one because a resumed
coroutine may suspend again before the first call has returned.

Steps: `Associate`, `Deassociate` (destructor of an open channel), `AsyncClose` (of a
stream socket, which releases the number), `Close` (`close()`, and `async_close` of a
server, which leave the number), `DestroyClosed` and `DestroyFaults` (the destructor after
that: `EPOLL_CTL_DEL` fails, or hits the socket that has the number by then); `Start`, `Complete`,
`WouldBlock`, `Register`/`RegisterAborts`, `EndSuspend`, `Resume` (coroutines);
`CallWait`, `EpollWait`, `LockState`, `Dispatch`, `SkipBit`, `SkipHup`,
`UnlockWaiter`, `EndBatch`, `Shutdown` (epoll thread); `StopWrite`, `StopClose`,
`StopJoin`; `Arrive`, `Vanish`, `PeerClose` (network). `NDEBUG` chooses between a
build in which `assert` and `SK_CHECK` abort and one in which they vanish. A destructor
that takes down somebody else's socket ends the model (`fault = "stolen"`): what the program
does after that is not described. The resume job of a writer captures a local variable by
reference (202, 206); the model lets it resume the right coroutine, which does not matter
while EPOLLOUT is never requested and that branch never taken.

Assumptions taken from how the library is used: at most one reader and one sender
on an fd (`OneWaiterAssumption`: the table has one field for each); a channel is
destroyed or closed only when no operation on it is outstanding; `stop()` is called
when no coroutine is running, though suspended ones may be left.

### MtExecutor and WorkQueue

Each critical section under `_mtx` is a step. `_cv.wait` is the state "waiting",
left by `NotifyOne`, `NotifyAll` or `Spurious`. `Runners` are threads of the program
that call `run()` themselves; `Pool` are those of `start_threads()`. The refinement
maps `_work` to the pending queue and the items of running threads to the active
set.

### TaskAwait and CallStack

A chain of tasks, level i + 1 awaited by level i. `run[i]` are the threads inside
the body of level i, `inAwait[i]` the thread whose stack holds `await_suspend` for
callee i, `inFinal[i]` the thread about to resume `promise.previous`. The innermost
task may suspend; its job may be taken by any idle thread at once. `CallStack` says
that a caller goes on only when its callee is done and that frames are created and
destroyed in stack order; the refinement mapping is the identity on `frame`.

### ReactorHandle

`get()`, the destructors and each part of `linux_reactor::start` and `stop` are
separate steps, since only `get()` holds the mutex. `MainHolds` is the usage of
`co_main.hxx`: `main` owns a handle around everything else. `CanFail` is the set of
steps of `start()` that can fail; "ring" is `make()` answering `nullptr`, which leaves the
`io_uring_reactor` of last time in `_uring`, to be started again although it was stopped
(`uring = "rerun"`). Destroying a reactor whose thread is joinable is
`std::terminate` (`fault = "terminate"`); a failed `SK_CHECK` of a weak handle is
`fault = "check"`. Weak handles follow their documented contract: taken while a
shared handle exists and dropped before the last one.

### IoUring

`pending`, `sq`, `cq` are `_pending` and the two rings (the overflow list of the
kernel is the end of `cq`), `kernel` counts the requests in progress. A request is
named by the coroutine its `user_data` points to; `Nop` is the shutdown request.
Sections under `_sq_mutex` (`Put`, `Drain`, `StopPut`) contain no blocking point and
are single steps; the awaiter's mutex `cmtx` is explicit. `SubmitOutcomes` is what
`io_uring_submit` may do: take a prefix of the ring, refuse with -EBUSY while
completions overflow, or (`CanFail`) fail and take nothing. The coroutine runs
`Suspend`, `Put`, `Suspended`, `Resume`; the thread `WaitCqe`, `Shutdown`,
`LockAwaiter`, `PostResume`, `CqeSeen`, `PeekCqe`, `Drain`. The awaiter exists while
the coroutine is not "idle". Operations are not started once `stop()` was called;
those outstanding then may stay unanswered.

### SyncWait

A waiter is the thread that calls `wait()`, its executor and its task: the three live
and die together. `stack[t]` are the coroutines a thread is inside of, so that a
coroutine started by `co_detach` runs on top of its parent until it suspends. `queue`,
`wpc` are `wait_executor` (`Sleep`, `Spurious`, `RunJob`, `Returns` are the loop of
`run()`; `Post` is `post()`); the pool is abstracted to a queue, as `WorkQueue`
promises. `worker[c]` is the thread of `std::async`: the callable ends or throws, posts
the job to the executor, and returns; the future is ready only then, and `Get` waits for
it. `mtx` is the awaiter's mutex, which the job takes and releases before it resumes the
coroutine. `DetachTo` says whether `co_detach` is passed an executor ("pool") or takes
that of its parent. The coroutines of `Throwing` may throw at any time they run: a task
keeps the exception, a detached coroutine rethrows it (`co_detach.hxx:59`) into its parent
(`Throw`), out of `run()` and `wait()` when a job has resumed it there (`ThrowOutOfWait`,
which destroys the executor), or out of a thread of the pool (`Terminate`, after which
`gone` stops the model). That is what standard coroutines do; with the coroutines TS the
resumption happens inside a `noexcept` function, and the process ends instead.

### IocpReactor

`io[c]` follows one overlapped operation: pending in the kernel, a packet in the port,
taken by the thread, or lost (no packet will come). `Begin` is `ReadFile`/`WriteFile`
with its three outcomes: completed at once (a packet is queued all the same), pending,
failed. `result` holds what the awaiter's `success` and `was_pending` say, `outcome` what
the kernel said, so that a result taken from the wrong side shows. `StopClose` closes the
port (packets in it are lost), `StopJoin` joins. The reactor may be started again. The
model is of the release build.

### CircularBuffer, BoundedStream and Pipe

`CircularBuffer` has one operator for each method, a function of the two pointers; a
list of ranges is a record of two starts and lengths. `Pipe` lets two coroutines share a
buffer. A call of a read or write function is two or more steps: it takes its ranges
(`ReadBegin`, `WriteBegin`), the channel fills or takes any part of them (`ReadSome`,
`WriteSome`, repeated by the `_all` functions) or fails (`ReadFails`, `WriteFails`), and
the last one commits or discards. In between the other coroutine runs. `Write` and
`Read` are the buffer's own copying functions. Elements are numbered, and slots that were
never written hold `Junk`, so that the sink shows every fault. `in` and `out` count what
`commit` and `discard` took; they are the refinement mapping to `BoundedStream`.

### DynamicBuffer

`ext` is the list of extents from `_head`, `tail` the place of `_tail` in it, spares
behind. Every turn of a loop of the code (`write`, `commit`, `read`, `discard`, the loop
of `read_all` over ranges) is a step that moves a chunk of elements; `loop` is the loop
under way and what it has left to move. The coroutines share a thread, so that no other
call begins before the loop has ended. `async_read_some` holds a range across its
`co_await` (`lent`), and `async_write_some` and `async_write_all` hold theirs (`call`:
the ranges, where the function has come to and what was accepted). `in` counts what was
committed, `sink` is what the consumer has received. A `discard()` at a head with nothing
to read takes turns for ever that change nothing, as the code does. `read_all` is the
synchronous one; `async_read_all` into a `dynamic_buffer` that another coroutine reads is
left out, because the code does not support it (section 5, `dynamic_buffer.hxx:276`).
The model is of the release build, where an `SK_CHECK` that fails has no effect:
`ReadSomeBegin` at a full tail gets an empty range.

### Patricia

The heap of nodes is a function from numbers to records; each method is an operator from
trie to trie, with a step of the model for each `insert` and `remove`. `contents` is the
set the trie should be. `crashed` means that `insert_node` had to go above a root
without an `old_parent`: the code then dereferences null (1445), or, when the key is a
prefix of the root's, puts an unconnected node in place of the root, deletes the whole
trie with it and writes to the deleted node (1423-1424). The model ends there and keeps
the last trie. `KeysAssumption`: what extends a key goes on with bit 0, as every byte of
ASCII text does; `patricia_key` of other data has further faults that the model does not
look at.

## 3. Runs

| Run | Result | Shows |
|---|---|---|
| `epoll_readers` | pass, 2 003 000 states | two sockets, a reader each, debug build, numbers used again while a closed socket holds them: no lost or doubled wakeup, no dangling waiter, no null `fd_state`, no lock cycle; before `stop()` nothing aborts but the destructor of a closed socket |
| `epoll_duplex` | pass, 31 300 states | reader and sender on one socket, release build: the same for the reader (`Safety`); a readable reader is resumed and `stop()` returns |
| `epoll_sender` | violation | a suspended sender is never resumed: line 334 registers EPOLLIN |
| `executor` | pass, 6 700 states | refinement of `WorkQueue`; `PoolSafe`: no overslept item, `stop()` reaches everybody and leaves no pool thread behind; posted work runs, `stop()` returns |
| `task_ts` | pass, 2 600 states | refinement of `CallStack`; `FramesSafe`: one activity, no use of a destroyed promise; the caller continues |
| `handle_main` | pass, 933 states | handles are live and counted (`CountSafe`) when `main` owns one, whatever fails in `start()` |
| `uring` | pass, 29 000 states | a full ring, refused submissions, entries in `_pending`: `RequestSafe`: each request is in one place, completes into a live awaiter and is never left lying; it is answered; `stop()` returns |
| `sync_wait` | pass, 30 700 states | `AwaiterSafe`: the future is assigned and nobody is left in the awaiter when the coroutine goes on, and two threads meet in one coroutine only at the awaiter's mutex; executors outlive those who use them; `wait()` returns and detached coroutines on a pool end; all of it with coroutines and callables that may throw |
| `iocp` | pass, 16 000 states | the OVERLAPPED is live while the kernel or the thread uses it; `AnswerSafe`: one answer, and the right one; operations are answered; `stop()` returns |
| `pipe` | pass, 1 800 states | refinement of `BoundedStream`; `StreamIntact`: order kept, nothing lost or doubled, lent ranges disjoint; everything is delivered |
| `dynamic` | pass, 71 000 states | order kept while extents are retired and used again; `ExtentsSound`: spare extents are empty, the head is not used up and a commit finds room, at every turn of a loop, which is what four of the internal checks ask; the consumer is cut off only behind a partly filled extent |
| `patricia` | pass, 22 000 states | `find`, `prefix_match` and iteration agree with the set of keys and the tree stays well formed after all sequences of insertions and removals; where they do not is stated exactly |

`Safety`, `PoolSafe`, `FramesSafe`, `CountSafe`, `RequestSafe`, `AwaiterSafe`,
`AnswerSafe`, `StreamIntact` and `ExtentsSound` are conjunctions of named invariants, each
with its own comment, and of the module's type invariant.

Bounds. Epoll: two fds make batches, reuse of a number and events for a neighbour
possible; `SockBuf = 1` distinguishes empty from non-empty, which is all readiness
depends on; `Threads = 2` lets a coroutine suspend again while its first `await_suspend`
is unfinished; `MaxEvents` 1 and 2 give single events and whole batches; at most one
closed socket holds a number, and `ReuseStale` lets the number be given out again
meanwhile. Executor: two pool threads, one runner and three items, so that posts meet
sleeping, waking and running threads. Task: five levels on four threads, so that several
`await_suspend` calls of different threads are open at once. Handles: `main` and four
threads. Io_uring: rings of one entry, three coroutines and `stop()`, so that the ring
fills, `_pending` holds several entries and completions overflow. A submission is taken
in part only when the ring has two entries, and then three coroutines cannot fill it
while a completion is waiting: an instance with four coroutines and `SqSize = CqSize =
2` (202 000 states) was checked apart and has all four properties, but never uses
`_pending`, for which it takes five; so the run keeps the ring of one, and `RequestSafe`
is proved for rings of every size. SyncWait: one `wait()`, two detached coroutines and
two pool threads, so that coroutines are detached from detached ones, and jobs of all
meet. Iocp: two coroutines and three starts, so that operations of one generation of the
reactor meet the next. Pipe: a buffer of four elements and fourteen to deliver, so that
both pointers go round more than twice and meet the end of the array in every
combination of ranges. Dynamic: extents of two elements, lists of two ranges and nine
elements: extents are retired, used again and left partly filled. Patricia: five keys,
one a prefix of two others; the run with a sixth key (201 000 states) passes too. Where
there are theorems they remove these bounds.

Deadlock checking is off where the system may stop: after `stop()`, after an abort,
when all items are posted or delivered.

Fairness. Threads that can run do run (weak fairness of each thread's steps), and a
thread waiting for a mutex gets it in the end (strong fairness of `Register`, which
needs `_state_mtx`). The kernel serves its ready list in order: strong fairness for
taking an fd off it, and for reporting the shutdown pipe. A completion port gives its
packets out in order: strong fairness of `Dequeue` for each. Work items and callables
return. The kernel completes the requests it has taken. `AllDelivered` of `Pipe` is about
a program that goes on reading and writing, over channels that do not fail every time
they are asked (strong fairness of `ReadSome`, `WriteSome`). Elsewhere nothing
is assumed of the network, of the program's calls, of the bodies of coroutines, or
of a call of `stop()`.

## 4. Proofs

All proofs are checked by TLAPS with SMT, Zenon and, for the temporal step, LS4.

- **EpollReactorProofs**: `NoLostWakeup`, `ResumeOnce`, `WaiterIsLive`,
  `NoNullDeref`, `NoLockCycle` and the type invariant, for all fds, coroutines,
  batch sizes and both builds; `AbortsOnlyAfterClose` when there are no senders.
  None is inductive alone. The invariant adds: a waiter pointer leads to the
  suspended coroutine that registered it, and conversely an unposted suspended
  coroutine is its fd's waiter (`WaiterInv`, `CoroInv`); a read_waiter's event is
  armed or in flight (`ArmInv`) and what is armed and ready is on the ready list
  (`EdgeInv`); EPOLLIN is armed or in flight only on behalf of a waiter
  (`StaleInv`), which is why an event pulled before `deassociate_fd` cannot meet a
  null `fd_state`: the fd of a pulled event has an outstanding operation; a locked
  awaiter mutex has a holder that will release it (`MutexInv`).
- **MtExecutorProofs**: `WorkConserving`, `NobodySleepsAfterStop`, `PoolStopped`
  and that `MtExecutor` implements `WorkQueue`. The added invariant says that an
  item is in one place only (`OnePlace`) and that every pool thread that has not
  left `run()` is still in `_threads` (`PoolInv`).
- **TaskAwaitProofs**: `SingleActivity`, `NoUseAfterDestroy` and that `TaskAwait`
  implements `CallStack`, for every depth, every set of threads and both coroutine
  implementations. The added invariant is the protocol on `promise.ready`
  (`ReadyInv`): before both swaps the callee is live and `await_suspend` is open,
  after both exactly one party is left to continue the caller.
- **ReactorProofs**, handles: `HandleIsLive`, `RefsCountHandles`, `ChecksHold` and the
  type invariant for any number of threads and any failures of `start()`, assuming that
  `main` owns a handle. (`ChecksHold` is about the checks of weak handles.) The added
  invariant says that other threads are active only while `main` owns its handle, so
  `main` alone starts and stops the reactor.
- **ReactorProofs**, Windows: `OverlappedIsLive` and `AnswerSafe`, for any number of
  coroutines and of restarts. The mutex is held exactly while the coroutine is inside
  `await_suspend` (`InSuspend`), hence the thread stores a result only after
  `await_suspend` has stored its own (`ResultInv`); a packet that was taken is in the
  thread's hands until it becomes a job (`TakenInv`), so that the coroutine cannot have
  gone on meanwhile.
- **PipeProofs**: `StreamIntact`, and that `Pipe` implements `BoundedStream`, for every
  size of the `circular_buffer` and every length of the source. The first part says what
  each method does in terms of places around the ring (`At(p, j)`, the slot `j` places
  after `p`) and of the number of elements between the pointers (`Occ`): the cases of the
  code on which pointer is in front occur there only. Two of these lemmas answer doubts a
  reader of the code may have: `commit()`, whose wrapped case is bounded by the read
  pointer and not by the free space, takes exactly what it is told of as long as that is
  free (`CommitAll`), and `discard()` likewise (`DiscardAll`). `StreamIntact` is not
  inductive; the invariant adds that the slots between the pointers hold the next
  elements to deliver (`Filled`), that the ranges lent to the producer are the slots from
  the write pointer on, filled in order up to where the call has come (`ProdInv`), and
  that those lent to the consumer are the slots from the read pointer on (`ConsInv`).
  Both survive a step of the other side because a commit only adds used slots and a
  discard only adds free ones.
- **DynamicBufferProofs**: `ElementsInOrder`, `ExtentsSound` and `StallsOnlyBehindGap`, for
  extents of every size, any number of ranges and a source of any length. None of them is
  inductive: they say nothing of what the extents hold. The invariant numbers the places:
  there are numbers `b` such that place `j` of extent `i` is for element `b[i] + j` of the
  source, where an extent that the tail has left ends at its write pointer and the others
  at their end (`Numbers`), and the places up to what has been filled in hold the elements
  of their numbers (`Holds`). The state determines the numbers, but as a sum over the list
  of extents, whose properties would need induction; so the invariant says that there are
  such numbers, and the proof of each step says which they are after it: a retired extent
  gets new ones, the others keep theirs. Between the head's read pointer and
  the tail's write pointer lie exactly the elements from the first one the consumer has
  not discarded to the last one committed. Then each method has a lemma about lists of
  extents alone (the tail advances or the list grows: `NextExtent`, `GrowChain`; a range
  is filled: `FillChain`, `FillNext`; a pointer moves; a used up head goes behind the tail
  or starts again: `KillHead`, `ClearHead`), and the steps of the specification put them
  together. `LentInv` and `CallInv` say why a range that is held across a `co_await` is
  still good when it is used: the consumer moves no write pointer and retires only extents
  in front of the tail, and the producer changes nothing in front of the write pointers.
- **IoUringProofs**: `RequestSafe` and `MutexOutlivesHolder`, for any number of coroutines,
  rings of any size, whatever part of the ring the kernel takes or refuses with -EBUSY, and
  also when `_pending` cannot grow. The argument counts. The first lemmas say how often a
  request occurs in a sequence that is cut, joined, extended or shortened; `SubmitMoves`
  and `PutAdds` say that `io_uring_submit` moves requests and that `_put_sq` adds one
  exactly when it reports success. `RequestConserved` then adds up over `_pending`, both
  rings, the kernel and the jobs, and is inductive; so is `NothingStranded`, because the
  thread submits before it sleeps and the kernel takes at least one entry when no
  completion waits. That a completion meets a live awaiter (`AwaiterIsLive`) follows from
  the count; that the mutex outlives the thread's lock needs two additions: the thread
  has a completion in hand while it works on one (`HeadInv`), and a coroutine inside
  `await_suspend` holds its mutex (`LockInv`), so that the thread gets it only after. The
  theorems have the hypothesis `SubmitWorks` (`io_uring_submit` does not fail with an
  error of its own): without it the statement is false, and the code is at fault
  (section 5, `io_uring_reactor.hxx:234`).
- **SyncWaitProofs**: `AwaiterSafe` and `ExecutorOutlivesUsers`, for any number of `wait()`
  calls, coroutines and threads and both uses of `co_detach`. What makes it work is that
  a coroutine is in at most one queue, once, and only while it is suspended and its worker
  has posted (`QueueInv`); that a stack holds running coroutines only, but for its first,
  which may be inside `await_suspend` or `await_resume` (`StackInv`); and that two threads
  meet in a coroutine only at the mutex (`MeetInv`). `AwaitInv` ties the mutex to the
  future, `WorkInv` the worker to the coroutine, `WaiterInv` the return of `wait()` to the
  end of its task. With exceptions comes the order of a stack: under a coroutine of a
  waiter's thread lies the task waited for or the job that `run()` took, and nothing else
  (`RootInv`); a coroutine that has thrown is nowhere any more (`ThrewInv`); and a `wait()`
  that was left by an exception was left by a coroutine detached onto it (`UnwindInv`).
  Queues and stacks are sequences without repetitions; a few lemmas on
  `Has` and `Once` are all that is used of them.
Each inductive invariant was model-checked, on the constants of the run of its component,
before it was proved. Assumptions of the proofs are the named `ASSUME`s of the modules,
which TLC evaluates in every run, and the hypotheses written in the theorems
(`SubmitWorks`, no senders, `main` owns a handle).

The conjunctions that the runs check (`Safety`, `WaitersSafe`, `PoolSafe`, `FramesSafe`,
`CountSafe`, `RequestSafe`, `AwaiterSafe`, `AnswerSafe`, `StreamIntact`, `ExtentsSound`) are
theorems.

Only model-checked: the liveness properties (`ReadableReaderResumes`, `StopReturns`,
`PostedRuns`, `CallerContinues`, `RequestAnswered`, `WaitReturns`, `DetachedFinishes`,
`OperationAnswered`, `AllDelivered`), which are out of this prover's reach, and the
properties of `Patricia`: its methods walk a tree with recursive operators, which the prover
cannot handle, and what they compute would have to be shown by induction over the tree.

Premises and exemptions. Each is there because TLC finds a counterexample without it,
and each counterexample is a fault of the code (section 5):

- `RequestAnswered` of `IoUring` has the premise `CompletionsPause`: the thread's loop
  over completions ends again and again. The loop submits `_pending` only after it has
  found no completion left, and while other coroutines keep completing, newer requests
  overtake the one kept in `_pending`.
- `ExecutorOutlivesUsers` and `DetachedFinishes` exempt coroutines detached onto the
  executor of a `wait()`, and the first also a `wait()` that such a coroutine has left by an
  exception (`Unwound`); `WaitReturns` a task whose callable has thrown, and the exceptions of
  detached coroutines, which leave `wait()` or end the process.
- `AbortsOnlyAfterClose` says which destructor brings the process down.
- `HandleIsLive` says nothing of an `io_uring_reactor` that was started again.
- `OperationAnswered` exempts calls that failed at once.
- `StallsOnlyBehindGap` says which state of a `dynamic_buffer` cuts the consumer off.
- `FindsContents` exempts a value put back into an emptied node, `IterationIsSorted` a
  root that is a leaf, `LongestPrefix` matches without a value;
  `CrashesOnlyWithNewRoot` says when `insert` dereferences null or deletes the trie.

## 5. Findings

`PROJECT.json` has the first as a run. The others of the first table were found with the
same modules; a configuration with these constants shows them again.

| Where | What | To reproduce |
|---|---|---|
| `epoll_reactor.hxx:334` | `register_write_interest` registers EPOLLIN: a sender that fills its socket is not resumed when space becomes free | run `epoll_sender` |
| `epoll_reactor.hxx:308,331` | a reader and a sender cannot be suspended on one socket in a debug build | `MCEpollReactor` as in `EpollDuplex.cfg` with `NDEBUG = FALSE`, `Threads = 1`, `SPECIFICATION Spec`, `INVARIANT AssertionsHold` |
| `epoll_reactor.hxx:381,413` | `await_resume` does not take the mutex, so the awaiter can be destroyed while the epoll thread holds it | the same with `Writers = {}`, `INVARIANT MutexOutlivesHolder` |
| `io_uring_reactor.hxx:234` | after a failed `io_uring_submit` the entry stays in the ring while its coroutine goes on; its completion reaches a destroyed awaiter | `MCIoUring`, two coroutines, rings of two, `CanFail = {"submit"}`, `INVARIANT AwaiterIsLive` |
| `reactor.hxx:136` | the last handle stops the reactor outside `reactor_mutex`: `get()` can return a handle to a reactor being stopped | `MCReactorHandle`, `Users = {Main, u1}`, `HasUring = FALSE`, `MainHolds = FALSE`, `CanFail = {}`, `INVARIANT HandleIsLive` |
| `linux_reactor.hxx:150` | when `make()` answers `nullptr` on a second `start()`, the stopped `io_uring_reactor` of last time is started again; the shutdown request is still in its ring and its thread ends at once | `MCReactorHandle`, `Users = {Main}`, `HasUring = TRUE`, `MainHolds = TRUE`, `CanFail = {"ring"}`, `INVARIANT` a definition `uring # "rerun"` |
| `linux_reactor.hxx:163` | a failed start of io_uring leaves the epoll thread running; the next `get()` terminates the process | `MCReactorHandle`, `Users = {Main}`, `MainHolds = TRUE`, `CanFail = {"uring"}`, `INVARIANT NoFault` |

Found while the properties of section 4 were stated and checked without their exemptions:

| Where | What |
|---|---|
| `co_detach.hxx:117` | a coroutine detached inside `wait()` without an executor uses that of `wait()`, which is gone when `wait()` has returned |
| `co_detach.hxx:59` | a detached coroutine that throws after `run()` has resumed it unwinds `wait()`, whose executor is destroyed while the awaited task still needs it; on a pool thread it terminates the process |
| `epoll_reactor.hxx:293` | `close()` of a socket or server, and `async_close` of a server, leave the number in `unique_fd` (`posix/fd.hxx:95`); the destructor then deassociates it: a debug build aborts on the failing `EPOLL_CTL_DEL`, and if the number is in use again, another socket loses its `fd_state` and is closed |
| `async_invoke.hxx:70` | a callable that throws posts nothing: the coroutine, and the `wait()` for it, stay for ever |
| `win32/async_api.hxx:97` | an overlapped call that fails at once suspends its coroutine for ever |
| `dynamic_buffer.hxx:419` | a full tail with a spare behind it aborts a debug build in `writable_ranges`, and makes `read_some` and `read_all` return at once in a release build |
| `dynamic_buffer.hxx:462,483` | the check of `readable_ranges` on an unreadable head fails for an empty buffer, and both it and that of `discard` in the case of the next line |
| `dynamic_buffer.hxx:372,483` | after `_ensure_minfree` has moved on from a partly filled tail, the consumer stops at it: `read` returns 0 and `discard` loops for ever, with elements behind it |
| `patricia.hxx:1445` | an insertion above a root that a removal has put in place dereferences null, or (1423-1424) deletes the whole trie and writes to a deleted node |
| `patricia.hxx:1405` | a key inserted again into the branch its removal has left is not found |
| `patricia.hxx:590` | advancing an iterator at a root without children dereferences null |
| `patricia.hxx:1353` | `prefix_match` may return a branch without a value though a shorter prefix is in the trie |

Seen while reading and without a property:

- `mt_executor::stop()` joins the threads of `start_threads()` only, not those that
  called `run()`; every restart of the Linux reactor starts more threads in the executor
  (`linux_reactor.hxx:154`);
- the io_uring operations return a negative errno as a successful result
  (`io_uring_reactor.hxx:335`), and `async_fd_close` compares a negative errno with -1
  (`epoll_reactor.hxx:515`);
- `epoll_wait` interrupted by a signal ends the epoll thread (`epoll_reactor.hxx:175`);
- `epoll_reactor::stop()` closes the epoll fd and leaves its number in `unique_fd`
  (`epoll_reactor.hxx:250`), so that the destructor closes a number that may belong to
  somebody else;
- `dynamic_buffer.hxx:276`: a head that is retired while `async_read_all` waits for a
  channel goes between the tail and a spare that the call has filled already, and `commit`
  then takes the retired extent in its place (`channel/read.hxx:328-336`);
- `iocp_reactor.hxx:147`: a second `start()` fails an `SK_CHECK` in a debug build;
- `write_some` of a buffer (`channel/write.hxx:97,316`) and `patricia_trie::clear`
  (`patricia.hxx:924`) name functions that do not exist.

## 6. Not modelled, and the plan

Left out for good: third-party code (Catch, fmt, expected); the formatting of
text; shims of the standard library; wrappers that only forward (`charchannel`,
`pmr_channel`, `pmr_buffer`, `tcpchannel`, `unixchannel`, the Windows calls); conversions of
addresses and the URI parser, which have no state and whose subject is text;
`fixed_buffer`, `range_buffer`, `memchannel` and `static_vector`, which move pointers over
memory of a single owner; signals interrupting `epoll_wait`; memory exhaustion except
where `start()` and `_put_sq` report it; copies, moves and `clear()` of the containers.

Plan, in this order:

1. `FdOwnership`: `unique_fd` with moves and assignment, and the destructors of the reactor.
   `close()` and the destructors of sockets, with reuse of their numbers, are in
   `EpollReactor` already. Property: a number is closed only by its owner, except after a
   `close()` that kept it.
2. `FileChannel`: positions, open flags and results of requests.
3. A statement of what `find` and `prefix_match` of `Patricia` return that needs no recursion
   over the tree, so that it can be proved.
