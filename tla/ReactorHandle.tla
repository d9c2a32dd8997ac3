--------------------------- MODULE ReactorHandle ----------------------------
(***************************************************************************)
(* The global reactor's lifetime: shared_reactor_handle and                *)
(* weak_reactor_handle (reactor.hxx) around linux_reactor::start and       *)
(* stop (posix/detail/linux_reactor.hxx).                                  *)
(*                                                                         *)
(* get() runs under reactor_mutex; the destructors and the weak handle     *)
(* only use the atomic count reactor_refs.  The steps of start() and       *)
(* stop() are separate, since the two can overlap.                         *)
(***************************************************************************)
EXTENDS Integers, FiniteSets

CONSTANTS
    Users,      \* threads of the program
    Main,       \* the main thread
    None,       \* nobody
    HasUring,   \* SK_CIO_HAVE_IO_URING, and the kernel supports it
    MainHolds,  \* main() owns a shared handle around everything else
    CanFail     \* steps of start() that can fail: "make", "ring", "epoll", "uring"

ASSUME HandleAssumption ==
    /\ IsFiniteSet(Users)
    /\ Main \in Users /\ None \notin Users
    /\ HasUring \in BOOLEAN /\ MainHolds \in BOOLEAN
    /\ CanFail \subseteq {"make", "ring", "epoll", "uring"}

VARIABLES
    refs,       \* reactor_refs
    mutex,      \* holder of reactor_mutex
    epoll,      \* the epoll_reactor: "null", "fresh", "running", "stopped"
    uring,      \* the io_uring_reactor, likewise, or "rerun" (started again: see below)
    pc,         \* what each thread is doing
    fault       \* "none", "terminate" (std::terminate), "check" (SK_CHECK)

vars == <<refs, mutex, epoll, uring, pc, fault>>

Goto(u, l) == pc' = [pc EXCEPT ![u] = l]

\* The threads that own a handle.
Holders == {u \in Users : pc[u] \in {"shared", "weak"}}

Shared == {u \in Users : pc[u] = "shared"}

\* With MainHolds, the other threads live while main owns its handle.
MayStart(u) == MainHolds /\ u # Main => pc[Main] = "shared"
\* A weak handle is dropped before the last shared one ("there must always be
\* a shared_reactor_handle holding a ref").
MayDrop(u) ==
    /\ MainHolds /\ u = Main => \A v \in Users \ {Main} : pc[v] = "out"
    /\ Shared = {u} => Holders = {u}

Init ==
    /\ refs = 0
    /\ mutex = None
    /\ epoll = "null"
    /\ uring = "null"
    /\ pc = [u \in Users |-> "out"]
    /\ fault = "none"

-----------------------------------------------------------------------------
(* shared_reactor_handle::get().                                            *)

Lock(u) ==
    /\ pc[u] = "out" /\ mutex = None /\ MayStart(u)
    /\ mutex' = u
    /\ Goto(u, "test")
    /\ UNCHANGED <<refs, epoll, uring, fault>>

TestNever(u) == Goto(u, "inc")     \* mutant: the reactor is not started
\* if (reactor_refs == 0) start it
TestFirst(u) == Goto(u, IF refs = 0 THEN "epoll_new" ELSE "inc")

Test(u) ==
    /\ pc[u] = "test"
    /\ TestFirst(u)
    /\ UNCHANGED <<refs, mutex, epoll, uring, fault>>

\* start() fails: the mutex is released and the error returned.
Fail(u) == Goto(u, "out") /\ mutex' = None

\* make_unique<epoll_reactor>() destroys the previous object, whose thread
\* must have been joined.
NewEpoll(u) ==
    /\ pc[u] = "epoll_new"
    /\ IF epoll = "running"
       THEN fault' = "terminate" /\ UNCHANGED <<epoll, pc>>
       ELSE epoll' = "fresh" /\ Goto(u, "uring_new") /\ UNCHANGED fault
    /\ UNCHANGED <<refs, mutex, uring>>

\* io_uring_reactor::make() and _uring = std::move(*ur).  make() reports an error,
\* or gives nullptr, when there is no io_uring or the ring cannot be made, and
\* _uring stays as it is, or gives a reactor that replaces it.
NewUring(u) ==
    /\ pc[u] = "uring_new"
    /\ \/ /\ HasUring /\ "make" \in CanFail
          /\ Fail(u)
          /\ UNCHANGED <<uring, fault>>
       \/ /\ ~HasUring \/ "ring" \in CanFail
          /\ Goto(u, "epoll_start")
          /\ UNCHANGED <<mutex, uring, fault>>
       \/ /\ HasUring
          /\ IF uring \in {"running", "rerun"}
             THEN fault' = "terminate" /\ UNCHANGED <<uring, pc>>
             ELSE /\ uring' = "fresh"
                  /\ Goto(u, "epoll_start")
                  /\ UNCHANGED fault
          /\ UNCHANGED mutex
    /\ UNCHANGED <<refs, epoll>>

\* start_threads() and _epoll->start().
StartEpoll(u) ==
    /\ pc[u] = "epoll_start"
    /\ \/ "epoll" \in CanFail /\ Fail(u) /\ UNCHANGED epoll
       \/ /\ epoll' = "running"
          /\ Goto(u, IF uring = "null" THEN "inc" ELSE "uring_start")
          /\ UNCHANGED mutex
    /\ UNCHANGED <<refs, uring, fault>>

\* _uring->start(); when it fails the epoll thread is left running.  A reactor
\* that has been stopped still has the shutdown request among its completions
\* (io_uring_thread_fn returns before it marks it seen): the new thread ends at once.
StartUring(u) ==
    /\ pc[u] = "uring_start"
    /\ \/ "uring" \in CanFail /\ Fail(u) /\ UNCHANGED uring
       \/ /\ uring' = IF uring = "stopped" THEN "rerun" ELSE "running"
          /\ Goto(u, "inc")
          /\ UNCHANGED mutex
    /\ UNCHANGED <<refs, epoll, fault>>

\* ++reactor_refs, and the mutex is released.
Increment(u) ==
    /\ pc[u] = "inc"
    /\ refs' = refs + 1
    /\ mutex' = None
    /\ Goto(u, "shared")
    /\ UNCHANGED <<epoll, uring, fault>>

-----------------------------------------------------------------------------
(* ~shared_reactor_handle(), which takes no mutex.                          *)

\* if (--reactor_refs > 0) return
Last(u) == Goto(u, IF refs - 1 > 0 THEN "out" ELSE "stop_epoll")

Drop(u) ==
    /\ pc[u] = "shared" /\ MayDrop(u)
    /\ refs' = refs - 1
    /\ Last(u)
    /\ UNCHANGED <<mutex, epoll, uring, fault>>

\* Joining the thread of a reactor; one that was not started has none.
Stopped(r) == IF r \in {"running", "rerun"} THEN "stopped" ELSE r

StopEpoll(u) ==
    /\ pc[u] = "stop_epoll"
    /\ epoll' = Stopped(epoll)
    /\ Goto(u, IF uring = "null" THEN "out" ELSE "stop_uring")
    /\ UNCHANGED <<refs, mutex, uring, fault>>

StopUring(u) ==
    /\ pc[u] = "stop_uring"
    /\ uring' = Stopped(uring)
    /\ Goto(u, "out")
    /\ UNCHANGED <<refs, mutex, epoll, fault>>

-----------------------------------------------------------------------------
(* weak_reactor_handle: get() and the destructor.                           *)

\* "Get a handle to the global reactor, which must already have been started."
WeakGet(u) ==
    /\ pc[u] = "out" /\ MayStart(u) /\ Shared # {}
    /\ refs' = refs + 1
    /\ Goto(u, "weak")
    /\ fault' = IF refs + 1 > 1 THEN fault ELSE "check"
    /\ UNCHANGED <<mutex, epoll, uring>>

WeakDropKeeping(u) ==     \* mutant: the destructor forgets to decrement
    /\ pc[u] = "weak"
    /\ Goto(u, "out")
    /\ UNCHANGED <<refs, mutex, epoll, uring, fault>>

WeakDrop(u) ==
    /\ pc[u] = "weak"
    /\ refs' = refs - 1
    /\ Goto(u, "out")
    /\ fault' = IF refs - 1 > 0 THEN fault ELSE "check"
    /\ UNCHANGED <<mutex, epoll, uring>>

-----------------------------------------------------------------------------
GetStep(u) ==
    \/ Lock(u) \/ Test(u) \/ NewEpoll(u) \/ NewUring(u)
    \/ StartEpoll(u) \/ StartUring(u) \/ Increment(u)

DropStep(u) == Drop(u) \/ StopEpoll(u) \/ StopUring(u)

Step(u) == GetStep(u) \/ DropStep(u) \/ WeakGet(u) \/ WeakDrop(u)

Next == fault = "none" /\ \E u \in Users : Step(u)

Spec == Init /\ [][Next]_vars
-----------------------------------------------------------------------------
\* Every variable has its type (the static members and linux_reactor's).
TypeOK ==
    /\ refs \in Nat
    /\ mutex \in Users \cup {None}
    /\ epoll \in {"null", "fresh", "running", "stopped"}
    /\ uring \in {"null", "fresh", "running", "stopped", "rerun"}
    /\ pc \in [Users -> {"out", "test", "epoll_new", "uring_new", "epoll_start",
                         "uring_start", "inc", "shared", "stop_epoll",
                         "stop_uring", "weak"}]
    /\ fault \in {"none", "terminate", "check"}

\* Whoever owns a handle finds the reactor started, and stop() has not begun,
\* whatever failed before.  It says nothing of an io_uring reactor that is
\* started again because make() gave nullptr ("rerun"), which serves nobody.
HandleIsLive ==
    Holders # {} =>
        /\ epoll = "running" /\ uring \notin {"fresh", "stopped"}
        /\ HasUring /\ "ring" \notin CanFail => uring = "running"
        /\ \A u \in Users : pc[u] \notin {"stop_epoll", "stop_uring"}

\* reactor_refs counts the handles, so the last owner is recognised.
RefsCountHandles == refs = Cardinality(Holders)

\* No SK_CHECK of the weak handle fires: "no reactor", "lifetime error".
ChecksHold == fault # "check"

\* The count is right, so that neither a weak handle nor the last owner is
\* mistaken about what is left: all of the above.
CountSafe == TypeOK /\ RefsCountHandles /\ ChecksHold

\* The process is never terminated: get() answers with a handle or an error
\* and does not replace a reactor whose thread is still running.
NoFault == fault = "none"
=============================================================================
