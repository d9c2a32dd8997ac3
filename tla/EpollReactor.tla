---------------------------- MODULE EpollReactor ----------------------------
(***************************************************************************)
(* The Linux epoll reactor (posix/detail/epoll_reactor.hxx): how a         *)
(* coroutine that finds a socket not ready is parked on the fd, and how    *)
(* the epoll thread gives it back to its executor.                         *)
(*                                                                         *)
(* Actors: the coroutines (one operation async_fd_recv/accept/send each,   *)
(* restarted for ever), the epoll thread, the thread in stop(), the owner  *)
(* of each channel (associate, deassociate, close) and the kernel.         *)
(* _state_mtx is held by the epoll thread exactly while epc = "locked";    *)
(* every other critical section under it is a single step, enabled while   *)
(* the mutex is free.  The mutex of an awaiter's epoll_coro_state is the   *)
(* lock word cmtx[c]; the awaiter lives at one place in the coroutine's    *)
(* frame, so a later awaiter of the same coroutine reuses that word.       *)
(***************************************************************************)
EXTENDS Integers, FiniteSets

CONSTANTS
    Fds,        \* file descriptor numbers the program uses
    Readers,    \* coroutines in async_fd_recv / async_fd_accept
    Writers,    \* coroutines in async_fd_send
    FdOf,       \* the fd each coroutine works on
    None,       \* the null pointer
    SockBuf,    \* bound: units a socket buffer holds
    MaxEvents,  \* max_events of epoll_thread_fn
    Threads,    \* bound: executor threads that can be inside one coroutine
    NDEBUG,     \* TRUE: assert and SK_CHECK compile to nothing
    ReuseStale  \* bound: a number may be given out again while a closed socket holds it

Coros == Readers \cup Writers
Dirs == {"IN", "OUT"}                  \* EPOLLIN, EPOLLOUT
Bits == Dirs \cup {"HUP"}              \* EPOLLHUP and EPOLLERR
DirOf(c) == IF c \in Readers THEN "IN" ELSE "OUT"

ASSUME CoroAssumption ==
    /\ Readers \cap Writers = {}
    /\ None \notin Coros
    /\ FdOf \in [Coros -> Fds]

\* The code keeps one read_waiter and one write_waiter for an fd: at most one
\* reader and one writer may use it at a time.
ASSUME OneWaiterAssumption ==
    \A c, d \in Coros : FdOf[c] = FdOf[d] /\ DirOf(c) = DirOf(d) => c = d

ASSUME BoundAssumption ==
    /\ SockBuf \in Nat \ {0}
    /\ MaxEvents \in Nat \ {0}
    /\ Threads \in Nat \ {0}
    /\ NDEBUG \in BOOLEAN
    /\ ReuseStale \in BOOLEAN

VARIABLES
    \* epoll_reactor::_state[fd]
    assoc,      \* _state[fd] is not null
    waiter,     \* read_waiter ("IN") and write_waiter ("OUT")
    events,     \* event.events without EPOLLET | EPOLLONESHOT
    \* the channels
    stale,      \* a closed socket not destroyed yet still holds the number
    \* the kernel's epoll object and sockets
    added,      \* fd is in the epoll set
    mask,       \* what the kernel reports for fd; {} once the one shot fired
    rdl,        \* fds on the kernel's ready list
    avail,      \* units to read, units of free send space
    hup,        \* the peer has closed
    pipe,       \* shutdown pipe: "empty", "ready" or "fired" (one shot)
    \* the epoll thread
    epc,        \* "call", "wait", "pulled", "locked", "exited"
    inflight,   \* events returned by epoll_wait and not handled yet
    shutEv,     \* the shutdown event is among them
    holds,      \* the coroutine whose cstate.mutex the thread holds
    \* the coroutines
    cpc,        \* "idle", "try", "locked" (await_suspend), "waiting"
    cmtx,       \* lock word of the awaiter's mutex
    tail,       \* await_suspend calls that registered and have not returned
    jobs,       \* resume jobs posted to the executor
    \* the reactor as a whole
    stop,       \* "running", "written", "closed", "stopped"
    fault       \* "none"; the process is gone: "assert", "check", "del", "segv";
                \* "stolen": a socket was taken down by one that is not its owner

fdVars == <<assoc, waiter, events, stale>>
kernelVars == <<added, mask, rdl, avail, hup, pipe>>
threadVars == <<epc, inflight, shutEv, holds>>
coroVars == <<cpc, cmtx, tail, jobs>>
vars == <<fdVars, kernelVars, threadVars, coroVars, stop, fault>>

\* What poll() would report for fd.
Ready(f) ==
    {d \in Dirs : avail[f][d] > 0 \/ hup[f]} \cup {b \in {"HUP"} : hup[f]}

\* An operation is in progress on fd.
Busy(f) == \E c \in Coros : FdOf[c] = f /\ cpc[c] # "idle"

EpollOpen == stop \in {"running", "written"}

Init ==
    /\ assoc = [f \in Fds |-> FALSE]
    /\ waiter = [f \in Fds |-> [d \in Dirs |-> None]]
    /\ events = [f \in Fds |-> {}]
    /\ stale = [f \in Fds |-> FALSE]
    /\ added = [f \in Fds |-> FALSE]
    /\ mask = [f \in Fds |-> {}]
    /\ rdl = {}
    /\ avail = [f \in Fds |-> [d \in Dirs |-> 0]]
    /\ hup = [f \in Fds |-> FALSE]
    /\ pipe = "empty"
    /\ epc = "call"
    /\ inflight = [f \in Fds |-> {}]
    /\ shutEv = FALSE
    /\ holds = None
    /\ cpc = [c \in Coros |-> "idle"]
    /\ cmtx = [c \in Coros |-> FALSE]
    /\ tail = [c \in Coros |-> 0]
    /\ jobs = [c \in Coros |-> 0]
    /\ stop = "running"
    /\ fault = "none"

-----------------------------------------------------------------------------
(* The channel's owner.  A channel is only destroyed or closed when no      *)
(* operation on it is outstanding; its fd number may then be used again.    *)

\* EPOLL_CTL_ADD with EPOLLET | EPOLLONESHOT; the kernel adds the hang-up bits.
AddMaskWithIn == {"IN", "HUP"}    \* mutant: EPOLLIN is asked for at once
AddMask == {"HUP"}

\* associate_fd; a fresh socket has nothing to read and free send space.
\* EPOLL_CTL_ADD may fail (ok = FALSE): the fd_state is left behind.
Associate(f, ok) ==
    /\ epc # "locked" /\ stop = "running"
    /\ ~added[f] /\ (stale[f] => ReuseStale)
    /\ assoc' = [assoc EXCEPT ![f] = TRUE]
    /\ waiter' = IF assoc[f] THEN waiter
                 ELSE [waiter EXCEPT ![f] = [d \in Dirs |-> None]]
    /\ events' = [events EXCEPT ![f] = {}]
    /\ added' = [added EXCEPT ![f] = ok]
    /\ mask' = [mask EXCEPT ![f] = IF ok THEN AddMask ELSE {}]
    /\ avail' = [avail EXCEPT ![f] = [d \in Dirs |-> IF d = "OUT" THEN SockBuf ELSE 0]]
    /\ hup' = [hup EXCEPT ![f] = FALSE]
    /\ UNCHANGED <<stale, rdl, pipe, threadVars, coroVars, stop, fault>>

\* The kernel forgets a closed fd and its buffers.
Forget(f) ==
    /\ avail' = [avail EXCEPT ![f] = [d \in Dirs |-> 0]]
    /\ hup' = [hup EXCEPT ![f] = FALSE]
    /\ added' = [added EXCEPT ![f] = FALSE]
    /\ mask' = [mask EXCEPT ![f] = {}]
    /\ rdl' = rdl \ {f}

\* deassociate_fd, from the destructor of an open channel, which then closes
\* the fd: EPOLL_CTL_DEL succeeds.
Deassociate(f) ==
    /\ epc # "locked" /\ stop = "running"
    /\ added[f] /\ ~Busy(f)
    /\ Forget(f)
    /\ assoc' = [assoc EXCEPT ![f] = FALSE]
    /\ UNCHANGED <<waiter, events, stale, pipe, threadVars, coroVars, stop, fault>>

\* streamsocket::async_close: release() takes the number out of the unique_fd,
\* and the fd is closed and never deassociated, so _state[fd] stays.
AsyncClose(f) ==
    /\ added[f] /\ ~Busy(f)
    /\ Forget(f)
    /\ UNCHANGED <<fdVars, pipe, threadVars, coroVars, stop, fault>>

\* close() of a socket or a server, and async_close of a server: the fd is
\* closed, but the unique_fd goes on holding its number.  Bound: at most one
\* closed socket holds a number.
Close(f) ==
    /\ added[f] /\ ~Busy(f) /\ ~stale[f]
    /\ Forget(f)
    /\ stale' = [stale EXCEPT ![f] = TRUE]
    /\ UNCHANGED <<assoc, waiter, events, pipe, threadVars, coroVars, stop, fault>>

\* The destructor of such a socket, in a release build: EPOLL_CTL_DEL fails,
\* which SK_CHECK does not see, and _state[fd] is reset.
DestroyClosed(f) ==
    /\ epc # "locked" /\ stop = "running"
    /\ stale[f] /\ ~added[f] /\ NDEBUG
    /\ stale' = [stale EXCEPT ![f] = FALSE]
    /\ assoc' = [assoc EXCEPT ![f] = FALSE]
    /\ UNCHANGED <<waiter, events, kernelVars, threadVars, coroVars, stop, fault>>

\* The same destructor when SK_CHECK aborts a debug build ("del"), or when the
\* number belongs to another socket by now: that one is taken out of the epoll
\* set, loses its fd_state and is closed.  Nothing is said of what follows.
DestroyFaults(f) ==
    /\ epc # "locked" /\ stop = "running"
    /\ stale[f] /\ (added[f] \/ ~NDEBUG)
    /\ fault' = IF added[f] THEN "stolen" ELSE "del"
    /\ UNCHANGED <<fdVars, kernelVars, threadVars, coroVars, stop>>

-----------------------------------------------------------------------------
(* The network: data arrives or is acknowledged, a queued datagram or       *)
(* connection is dropped after it was announced, the peer closes.           *)

\* ep_poll_callback: an armed fd joins the ready list.
Wake(f, bits) == rdl' = IF mask[f] \cap bits # {} THEN rdl \cup {f} ELSE rdl

Arrive(f, d) ==
    /\ added[f] /\ avail[f][d] < SockBuf
    /\ avail' = [avail EXCEPT ![f][d] = @ + 1]
    /\ Wake(f, {d})
    /\ UNCHANGED <<fdVars, added, mask, hup, pipe, threadVars, coroVars, stop, fault>>

Vanish(f) ==
    /\ added[f] /\ avail[f]["IN"] > 0
    /\ avail' = [avail EXCEPT ![f]["IN"] = 0]
    /\ UNCHANGED <<fdVars, added, mask, rdl, hup, pipe, threadVars, coroVars, stop, fault>>

PeerClose(f) ==
    /\ added[f] /\ ~hup[f]
    /\ hup' = [hup EXCEPT ![f] = TRUE]
    /\ Wake(f, Bits)
    /\ UNCHANGED <<fdVars, added, mask, avail, pipe, threadVars, coroVars, stop, fault>>

-----------------------------------------------------------------------------
(* The coroutines: the retry loops of async_fd_recv, async_fd_accept and    *)
(* async_fd_send, and the awaiters co_fd_is_readable, co_fd_is_writable.    *)

Start(c) ==
    /\ cpc[c] = "idle" /\ added[FdOf[c]] /\ stop = "running"
    /\ tail[c] < Threads
    /\ cpc' = [cpc EXCEPT ![c] = "try"]
    /\ UNCHANGED <<fdVars, kernelVars, threadVars, cmtx, tail, jobs, stop, fault>>

\* The system call transfers k units, or reports end of file or an error.
Complete(c) ==
    LET f == FdOf[c] d == DirOf(c) IN
    /\ cpc[c] = "try" /\ d \in Ready(f)
    /\ \E k \in 1 .. SockBuf :
          /\ k <= avail[f][d] \/ hup[f]
          /\ avail' = [avail EXCEPT ![f][d] = IF k <= @ THEN @ - k ELSE 0]
    /\ cpc' = [cpc EXCEPT ![c] = "idle"]
    /\ UNCHANGED <<fdVars, added, mask, rdl, hup, pipe, threadVars, cmtx, tail, jobs, stop, fault>>

\* Mutant: the waiter is published before _state_mtx is taken.
WouldBlockPublishing(c) ==
    /\ cpc[c] = "try" /\ DirOf(c) \notin Ready(FdOf[c])
    /\ cpc' = [cpc EXCEPT ![c] = "locked"]
    /\ cmtx' = [cmtx EXCEPT ![c] = TRUE]
    /\ waiter' = [waiter EXCEPT ![FdOf[c]][DirOf(c)] = c]
    /\ UNCHANGED <<assoc, events, stale, kernelVars, threadVars, tail, jobs, stop, fault>>

\* EWOULDBLOCK: the awaiter is built and await_suspend takes cstate.mutex.
WouldBlock(c) ==
    /\ cpc[c] = "try" /\ DirOf(c) \notin Ready(FdOf[c])
    /\ cpc' = [cpc EXCEPT ![c] = "locked"]
    /\ cmtx' = [cmtx EXCEPT ![c] = TRUE]
    /\ UNCHANGED <<fdVars, kernelVars, threadVars, tail, jobs, stop, fault>>

\* epoll_ctl(EPOLL_CTL_MOD, fd, ev): re-arms the one shot and, when fd is
\* ready for what was asked, puts it on the ready list.
Modify(f, ev) ==
    /\ mask' = [mask EXCEPT ![f] = ev \cup {"HUP"}]
    /\ rdl' = IF Ready(f) \cap (ev \cup {"HUP"}) # {} THEN rdl \cup {f} ELSE rdl

\* Mutants: the call is left out, or only made when EPOLLIN was not yet set.
ArmNever(f, ev) == UNCHANGED <<mask, rdl>>
ArmIfNew(f, ev) ==
    IF "IN" \in events[f] THEN UNCHANGED <<mask, rdl>> ELSE Modify(f, ev)

\* The call fails with EBADF after stop() has closed the epoll fd.
Arm(f, ev) == IF EpollOpen THEN Modify(f, ev) ELSE UNCHANGED <<mask, rdl>>

\* What the asserts of register_read_interest and register_write_interest
\* require of the fd.
AssertsHold(f) == assoc[f] /\ waiter[f]["OUT"] = None /\ "IN" \notin events[f]

\* register_read_interest and register_write_interest: both add EPOLLIN.
Register(c) ==
    LET f == FdOf[c] ev == events[f] \cup {"IN"} IN
    /\ cpc[c] = "locked" /\ epc # "locked"
    /\ NDEBUG \/ AssertsHold(f)
    /\ NDEBUG \/ EpollOpen
    /\ waiter' = [waiter EXCEPT ![f][DirOf(c)] = c]
    /\ events' = [events EXCEPT ![f] = ev]
    /\ Arm(f, ev)
    /\ cpc' = [cpc EXCEPT ![c] = "waiting"]
    /\ tail' = [tail EXCEPT ![c] = @ + 1]
    /\ UNCHANGED <<assoc, stale, added, avail, hup, pipe, threadVars, cmtx, jobs, stop, fault>>

\* The same call in a debug build that aborts.
RegisterAborts(c) ==
    /\ cpc[c] = "locked" /\ epc # "locked" /\ ~NDEBUG
    /\ ~(AssertsHold(FdOf[c]) /\ EpollOpen)
    /\ fault' = IF AssertsHold(FdOf[c]) THEN "check" ELSE "assert"
    /\ UNCHANGED <<fdVars, kernelVars, threadVars, coroVars, stop>>

KeepLocked(c) == UNCHANGED cmtx    \* mutant: the lock_guard is leaked
Unlock(c) == cmtx' = [cmtx EXCEPT ![c] = FALSE]

\* await_suspend's lock_guard goes out of scope.
EndSuspend(c) ==
    /\ tail[c] > 0
    /\ tail' = [tail EXCEPT ![c] = @ - 1]
    /\ Unlock(c)
    /\ UNCHANGED <<fdVars, kernelVars, threadVars, cpc, jobs, stop, fault>>

\* An executor thread runs the posted job: await_resume does nothing, the
\* awaiter and its mutex are destroyed and the loop calls recv/send again.
Resume(c) ==
    /\ jobs[c] > 0 /\ tail[c] < Threads
    /\ jobs' = [jobs EXCEPT ![c] = @ - 1]
    /\ cpc' = [cpc EXCEPT ![c] = "try"]
    /\ UNCHANGED <<fdVars, kernelVars, threadVars, cmtx, tail, stop, fault>>

-----------------------------------------------------------------------------
(* The epoll thread, epoll_thread_fn.                                       *)

\* Calling epoll_wait fails with EBADF once stop() has closed the epoll fd.
CallWait ==
    /\ epc = "call"
    /\ epc' = IF EpollOpen THEN "wait" ELSE "exited"
    /\ UNCHANGED <<fdVars, kernelVars, inflight, shutEv, holds, coroVars, stop, fault>>

Revents(f) == Ready(f) \cap mask[f]

\* epoll_wait takes up to max_events fds off the ready list, drops those that
\* are no longer ready, and disarms the one shot of those it returns.
EpollWait(S, shut) ==
    LET D == {f \in S : Revents(f) # {}} IN
    /\ epc = "wait"
    /\ shut => pipe = "ready"
    /\ S # {} \/ shut
    /\ Cardinality(S) + (IF shut THEN 1 ELSE 0) <= MaxEvents
    /\ rdl' = rdl \ S
    /\ mask' = [f \in Fds |-> IF f \in D THEN {} ELSE mask[f]]
    /\ inflight' = [f \in Fds |-> IF f \in D THEN Revents(f) ELSE inflight[f]]
    /\ shutEv' = shut
    /\ pipe' = IF shut THEN "fired" ELSE pipe
    /\ epc' = IF D = {} /\ ~shut THEN "wait" ELSE "pulled"
    /\ UNCHANGED <<fdVars, added, avail, hup, holds, coroVars, stop, fault>>

LockState ==
    /\ epc = "pulled"
    /\ epc' = "locked"
    /\ UNCHANGED <<fdVars, kernelVars, inflight, shutEv, holds, coroVars, stop, fault>>

\* The next step of the loop for fd's event: EPOLLIN before EPOLLOUT.
Handles(f, d) ==
    /\ epc = "locked" /\ holds = None
    /\ d \in inflight[f]
    /\ d = "OUT" => "IN" \notin inflight[f]

\* Mutants: one of the two assignments of Unpark is missing.
UnparkKeepsWaiter(f, d) ==
    events' = [events EXCEPT ![f] = @ \ {d}] /\ UNCHANGED waiter
UnparkKeepsEvent(f, d) ==
    waiter' = [waiter EXCEPT ![f][d] = None] /\ UNCHANGED events

\* read_waiter = nullptr; event.events &= ~EPOLLIN (and EPOLLOUT alike).
Unpark(f, d) ==
    /\ waiter' = [waiter EXCEPT ![f][d] = None]
    /\ events' = [events EXCEPT ![f] = @ \ {d}]

\* Resume the waiter: lock its mutex, clear the waiter and the event, post.
\* The code for EPOLLOUT differs in that its job refers to a handle on the
\* thread's stack, which is gone when the job runs; it is never reached,
\* because nobody asks for EPOLLOUT (StaleInv of EpollReactorProofs).
Dispatch(f, d) ==
    LET w == waiter[f][d] IN
    /\ Handles(f, d) /\ assoc[f] /\ w # None
    /\ ~cmtx[w]
    /\ cmtx' = [cmtx EXCEPT ![w] = TRUE]
    /\ holds' = w
    /\ Unpark(f, d)
    /\ jobs' = [jobs EXCEPT ![w] = @ + 1]
    /\ inflight' = [inflight EXCEPT ![f] = @ \ {d}]
    /\ UNCHANGED <<assoc, stale, kernelVars, epc, shutEv, cpc, tail, stop, fault>>

\* No one waits for the event; or _state[fd] is null, and state->read_waiter
\* is read through it all the same.
SkipBit(f, d) ==
    /\ Handles(f, d) /\ (assoc[f] => waiter[f][d] = None)
    /\ inflight' = [inflight EXCEPT ![f] = @ \ {d}]
    /\ fault' = IF assoc[f] THEN fault ELSE "segv"
    /\ UNCHANGED <<fdVars, kernelVars, epc, shutEv, holds, coroVars, stop>>

\* Only EPOLLHUP or EPOLLERR: neither branch is taken.
SkipHup(f) ==
    /\ epc = "locked" /\ holds = None
    /\ inflight[f] = {"HUP"}
    /\ inflight' = [inflight EXCEPT ![f] = {}]
    /\ UNCHANGED <<fdVars, kernelVars, epc, shutEv, holds, coroVars, stop, fault>>

\* h_lock goes out of scope, after the post.
UnlockWaiter ==
    /\ epc = "locked" /\ holds # None
    /\ Unlock(holds)
    /\ holds' = None
    /\ UNCHANGED <<fdVars, kernelVars, epc, inflight, shutEv, cpc, tail, jobs, stop, fault>>

\* Every event is handled: state_lock goes out of scope.
EndBatch ==
    /\ epc = "locked" /\ holds = None /\ ~shutEv
    /\ \A f \in Fds : inflight[f] = {}
    /\ epc' = "call"
    /\ UNCHANGED <<fdVars, kernelVars, inflight, shutEv, holds, coroVars, stop, fault>>

\* The shutdown pipe's event returns from the loop; later events are dropped.
Shutdown ==
    /\ epc = "locked" /\ holds = None /\ shutEv
    /\ epc' = "exited"
    /\ inflight' = [f \in Fds |-> {}]
    /\ shutEv' = FALSE
    /\ UNCHANGED <<fdVars, kernelVars, holds, coroVars, stop, fault>>

-----------------------------------------------------------------------------
(* stop(): called when no coroutine is running; coroutines parked on an fd  *)
(* may be left.                                                             *)

NoWake == UNCHANGED pipe    \* mutant: stop() only closes the epoll fd
WakeThread == pipe' = "ready"

StopWrite ==
    /\ stop = "running"
    /\ \A c \in Coros : cpc[c] \in {"idle", "waiting"}
    /\ WakeThread
    /\ stop' = "written"
    /\ UNCHANGED <<fdVars, added, mask, rdl, avail, hup, threadVars, coroVars, fault>>

StopClose ==
    /\ stop = "written"
    /\ stop' = "closed"
    /\ UNCHANGED <<fdVars, kernelVars, threadVars, coroVars, fault>>

StopJoin ==
    /\ stop = "closed" /\ epc = "exited"
    /\ stop' = "stopped"
    /\ UNCHANGED <<fdVars, kernelVars, threadVars, coroVars, fault>>

-----------------------------------------------------------------------------
ThreadStep ==
    \/ CallWait \/ LockState \/ UnlockWaiter \/ EndBatch \/ Shutdown
    \/ \E f \in Fds : SkipHup(f) \/ \E d \in Dirs : SkipBit(f, d) \/ Dispatch(f, d)

KernelWait == \E S \in SUBSET rdl, shut \in BOOLEAN : EpollWait(S, shut)

CoroStep(c) ==
    \/ Start(c) \/ Complete(c) \/ WouldBlock(c)
    \/ Register(c) \/ RegisterAborts(c) \/ EndSuspend(c) \/ Resume(c)

OwnerStep(f) ==
    \/ \E ok \in BOOLEAN : Associate(f, ok)
    \/ Deassociate(f) \/ AsyncClose(f) \/ Close(f)
    \/ DestroyClosed(f) \/ DestroyFaults(f)

NetStep(f) == Vanish(f) \/ PeerClose(f) \/ \E d \in Dirs : Arrive(f, d)

StopStep == StopWrite \/ StopClose \/ StopJoin

Step ==
    \/ ThreadStep \/ KernelWait \/ StopStep
    \/ \E c \in Coros : CoroStep(c)
    \/ \E f \in Fds : OwnerStep(f) \/ NetStep(f)

\* After a fault nothing is looked at any more.
Next == fault = "none" /\ Step

Spec == Init /\ [][Next]_vars

(***************************************************************************)
(* Fairness: threads that can run do run.  The kernel serves the ready     *)
(* list in order, so an fd that is put back on it again and again is       *)
(* reported in the end (strong fairness); the pipe's event stays on it.    *)
(* Nothing is assumed of the network, the owner or the start of stop().    *)
(***************************************************************************)
Fairness ==
    /\ WF_vars(Next /\ ThreadStep)
    /\ \A f \in Fds : SF_vars(Next /\ KernelWait /\ f \in rdl /\ f \notin rdl')
    /\ SF_vars(Next /\ KernelWait /\ pipe' # pipe)
    /\ WF_vars(Next /\ (StopClose \/ StopJoin))
    /\ \A c \in Coros : WF_vars(Next /\ EndSuspend(c))
    /\ \A c \in Coros : WF_vars(Next /\ Resume(c))
    /\ \A c \in Coros : WF_vars(Next /\ (Complete(c) \/ WouldBlock(c)))
    /\ \A c \in Coros : SF_vars(Next /\ (Register(c) \/ RegisterAborts(c)))

FairSpec == Spec /\ Fairness
-----------------------------------------------------------------------------
(* Properties.                                                              *)

\* Every variable has its type (epoll_reactor, fd_state, epoll_coro_state).
TypeOK ==
    /\ assoc \in [Fds -> BOOLEAN]
    /\ waiter \in [Fds -> [Dirs -> Coros \cup {None}]]
    /\ events \in [Fds -> SUBSET Dirs]
    /\ stale \in [Fds -> BOOLEAN]
    /\ added \in [Fds -> BOOLEAN]
    /\ mask \in [Fds -> SUBSET Bits]
    /\ rdl \subseteq Fds
    /\ avail \in [Fds -> [Dirs -> 0 .. SockBuf]]
    /\ hup \in [Fds -> BOOLEAN]
    /\ pipe \in {"empty", "ready", "fired"}
    /\ epc \in {"call", "wait", "pulled", "locked", "exited"}
    /\ inflight \in [Fds -> SUBSET Bits]
    /\ shutEv \in BOOLEAN
    /\ holds \in Coros \cup {None}
    /\ cpc \in [Coros -> {"idle", "try", "locked", "waiting"}]
    /\ cmtx \in [Coros -> BOOLEAN]
    /\ tail \in [Coros -> Nat]
    /\ jobs \in [Coros -> Nat]
    /\ stop \in {"running", "written", "closed", "stopped"}
    /\ fault \in {"none", "assert", "check", "del", "segv", "stolen"}

\* No lost wakeup: while the reactor runs, a reader suspended in
\* co_fd_is_readable either has its resume job posted, or is the fd's
\* read_waiter with the one shot armed or its event already pulled by the
\* epoll thread; and an armed fd that is readable is on the ready list.
NoLostWakeup ==
    stop = "running" =>
        \A c \in Readers : LET f == FdOf[c] IN
            cpc[c] = "waiting" =>
                \/ jobs[c] > 0
                \/ /\ waiter[f]["IN"] = c
                   /\ \/ "IN" \in inflight[f]
                      \/ "IN" \in mask[f] /\ ("IN" \in Ready(f) => f \in rdl)

\* A coroutine is resumed once for each suspension: a posted job finds its
\* coroutine suspended, and nothing else can post it again.
ResumeOnce ==
    \A c \in Coros : jobs[c] > 0 =>
        /\ jobs[c] = 1 /\ cpc[c] = "waiting"
        /\ \A f \in Fds, d \in Dirs : waiter[f][d] # c

\* read_waiter and write_waiter never point to a destroyed awaiter, whatever
\* happens to the fd number (async_close keeps the fd_state for its reuse).
WaiterIsLive ==
    \A f \in Fds, d \in Dirs : waiter[f][d] # None =>
        LET w == waiter[f][d] IN
        cpc[w] = "waiting" /\ FdOf[w] = f /\ added[f]

\* A wait object is used while it exists, and resumed once: both of the above.
WaitersSafe == WaiterIsLive /\ ResumeOnce

\* An event pulled by epoll_wait before deassociate_fd is never handled
\* through the null _state[fd] that deassociate_fd leaves.
NoNullDeref == fault # "segv"

\* The epoll thread takes _state_mtx then cstate.mutex, await_suspend the
\* other way round; still no cycle: whenever the epoll thread is held up by
\* the mutex of a waiter, its holder has left register_*_interest.
NoLockCycle ==
    \A f \in Fds, d \in Dirs :
        LET w == waiter[f][d] IN
        Handles(f, d) /\ w # None => (cmtx[w] => tail[w] > 0)

\* A reader and a sender that share the fd_state of a socket, the single event
\* mask and the one shot do not make each other lose a wakeup, resume one of
\* them twice or through a dead pointer, or block the epoll thread.
Safety == TypeOK /\ NoLostWakeup /\ WaitersSafe /\ NoNullDeref /\ NoLockCycle

\* Until stop() is called a debug build with readers only is brought down by
\* nothing but the destructor of a socket that close(), or a server's
\* async_close, has closed before: by the SK_CHECK on EPOLL_CTL_DEL when the
\* number is free, through another socket when it is in use.  Neither the
\* asserts and checks of register_read_interest nor the epoll thread do it.
AbortsOnlyAfterClose ==
    fault # "none" /\ stop = "running" =>
        \E f \in Fds : stale[f] /\ fault = (IF added[f] THEN "stolen" ELSE "del")

\* A reader parked on a readable fd is resumed, or the data vanishes, or the
\* reactor is stopped.
ReadableReaderResumes ==
    \A c \in Readers :
        cpc[c] = "waiting" /\ "IN" \in Ready(FdOf[c])
            ~> \/ cpc[c] # "waiting" \/ "IN" \notin Ready(FdOf[c])
               \/ stop # "running" \/ fault # "none"

\* stop() returns: the epoll thread always notices the shutdown.
StopReturns == stop # "running" ~> (stop = "stopped" \/ fault # "none")

\* A sender parked on a socket whose peer keeps it writable is resumed, as a
\* suspended async_write_some must be to return.
WritableSenderResumes ==
    \A c \in Writers :
        cpc[c] = "waiting" /\ "OUT" \in Ready(FdOf[c])
            ~> cpc[c] # "waiting" \/ stop # "running" \/ fault # "none"

\* The asserts of register_read_interest and register_write_interest hold.
AssertionsHold == fault # "assert"

\* A wait object is not destroyed before the reactor has released its lock.
MutexOutlivesHolder == holds # None => cpc[holds] = "waiting"
=============================================================================
