---------------------------- MODULE IocpReactor -----------------------------
(***************************************************************************)
(* The Windows reactor: iocp_reactor (win32/detail/iocp_reactor.hxx) and   *)
(* the overlapped awaiters (win32/async_api.hxx), in the release build,    *)
(* where SK_CHECK does nothing.                                            *)
(*                                                                         *)
(* Actors: the coroutines, each doing overlapped operations one after the  *)
(* other on a handle of its own; the completion thread; the kernel; and    *)
(* the owner of the reactor, who starts and stops it.  The OVERLAPPED of   *)
(* an operation, with its mutex, is in the frame of the coroutine and dies *)
(* when co_await returns.                                                  *)
(***************************************************************************)
EXTENDS Integers

CONSTANTS
    Coros,          \* coroutines that do overlapped I/O
    Nobody,         \* no coroutine
    Starts          \* bound: how often the reactor is started

ASSUME IocpAssumption == Nobody \notin Coros /\ Starts \in Nat

VARIABLES
    port,       \* completion_port: "none", "open", "closed"
    tpc,        \* thread: "none", "starting", "wait", "got", "post", "exited"
    cur,        \* the operation whose packet the thread has
    owner,      \* of the reactor: "down", "running", "joining"
    starts,     \* times start() was called
    assoc,      \* coroutines whose handle is associated with the open port
    cpc,        \* "idle", "locked", "begun", "suspended", "resumed"
    io,         \* "none", "pending" in the kernel, "packet" in the port,
                \* "taken" by the thread, "lost": there will be no packet
    outcome,    \* what the kernel says of the operation: "none", "ok", "fail"
    call,       \* what overlapped_begin returned: "none", "ok", "fail", "pending"
    result,     \* success and was_pending of the OVERLAPPED, likewise
    mtx,        \* its mutex is held by await_suspend
    jobs        \* coroutines posted to their executor

ctlVars == <<port, owner, starts, assoc>>
opVars == <<io, outcome, call, result, mtx>>
iocpVars == <<ctlVars, tpc, cur, cpc, opVars, jobs>>

IocpInit ==
    /\ port = "none" /\ tpc = "none" /\ cur = Nobody
    /\ owner = "down" /\ starts = 0 /\ assoc = {}
    /\ cpc = [c \in Coros |-> "idle"]
    /\ io = [c \in Coros |-> "none"]
    /\ outcome = [c \in Coros |-> "none"]
    /\ call = [c \in Coros |-> "none"]
    /\ result = [c \in Coros |-> "none"]
    /\ mtx = [c \in Coros |-> FALSE]
    /\ jobs = {}

-----------------------------------------------------------------------------
(* start(), stop() and associate_handle().                                  *)

\* The port is made, in place of one that was closed, and the thread created.
Start ==
    /\ owner = "down" /\ starts < Starts
    /\ owner' = "running" /\ starts' = starts + 1
    /\ port' = "open" /\ tpc' = "starting"
    /\ UNCHANGED <<assoc, cur, cpc, opVars, jobs>>

\* CreateIoCompletionPort fails, or WSAStartup or the creation of the thread
\* when the port has been made; the caller gets an error.
StartFails ==
    /\ owner = "down" /\ starts < Starts
    /\ starts' = starts + 1
    /\ port' \in {port, "open"}
    /\ UNCHANGED <<owner, assoc, tpc, cur, cpc, opVars, jobs>>

\* A new handle is associated with the port; the handles of the program do not
\* outlive the reactor.
Associate(c) ==
    /\ owner = "running" /\ cpc[c] = "idle" /\ c \notin assoc
    /\ assoc' = assoc \cup {c}
    /\ UNCHANGED <<port, owner, starts, tpc, cur, cpc, opVars, jobs>>

\* stop() closes the port: the packets in it, and those of operations that are
\* still pending, are never seen.
StopClose ==
    /\ owner = "running"
    /\ owner' = "joining" /\ port' = "closed" /\ assoc' = {}
    /\ io' = [c \in Coros |-> IF io[c] \in {"pending", "packet"} THEN "lost" ELSE io[c]]
    /\ UNCHANGED <<starts, tpc, cur, cpc, outcome, call, result, mtx, jobs>>

StopJoin ==
    /\ owner = "joining" /\ tpc = "exited"
    /\ owner' = "down" /\ tpc' = "none"
    /\ UNCHANGED <<port, starts, assoc, cur, cpc, opVars, jobs>>

-----------------------------------------------------------------------------
(* A coroutine in co_await of an overlapped awaiter, and the kernel.        *)

\* await_suspend locks the new OVERLAPPED, stores the coroutine and its executor.
Suspend(c) ==
    /\ cpc[c] = "idle" /\ c \in assoc
    /\ cpc' = [cpc EXCEPT ![c] = "locked"]
    /\ mtx' = [mtx EXCEPT ![c] = TRUE]
    /\ io' = [io EXCEPT ![c] = "none"]
    /\ outcome' = [outcome EXCEPT ![c] = "none"]
    /\ call' = [call EXCEPT ![c] = "none"]
    /\ result' = [result EXCEPT ![c] = "none"]
    /\ UNCHANGED <<ctlVars, tpc, cur, jobs>>

\* overlapped_begin: the operation is pending; or it succeeds at once, and its
\* packet is queued all the same; or it fails at once, without a packet.
Begin(c) ==
    /\ cpc[c] = "locked"
    /\ cpc' = [cpc EXCEPT ![c] = "begun"]
    /\ \E r \in {"pending", "ok", "fail"} :
        /\ call' = [call EXCEPT ![c] = r]
        /\ outcome' = [outcome EXCEPT ![c] = IF r = "pending" THEN "none" ELSE r]
        /\ io' = [io EXCEPT ![c] =
                    CASE r = "fail" \/ c \notin assoc -> "lost"
                      [] r = "pending" /\ c \in assoc -> "pending"
                      [] r = "ok" /\ c \in assoc -> "packet"]
    /\ UNCHANGED <<ctlVars, tpc, cur, result, mtx, jobs>>

\* The kernel completes a pending operation.
Complete(c) ==
    /\ io[c] = "pending"
    /\ io' = [io EXCEPT ![c] = "packet"]
    /\ \E r \in {"ok", "fail"} : outcome' = [outcome EXCEPT ![c] = r]
    /\ UNCHANGED <<ctlVars, tpc, cur, cpc, call, result, mtx, jobs>>

\* Mutant: a coroutine whose operation has completed is not suspended.
SuspendIfPending(c) == IF call[c] = "pending" THEN "suspended" ELSE "resumed"
\* await_suspend always returns true.
AlwaysSuspend(c) == "suspended"

\* await_suspend stores what the call returned, and unlocks the mutex.
Suspended(c) ==
    /\ cpc[c] = "begun"
    /\ result' = [result EXCEPT ![c] = call[c]]
    /\ cpc' = [cpc EXCEPT ![c] = AlwaysSuspend(c)]
    /\ mtx' = [mtx EXCEPT ![c] = FALSE]
    /\ UNCHANGED <<ctlVars, tpc, cur, io, outcome, call, jobs>>

\* The executor runs the job; await_resume takes the mutex.
Resume(c) ==
    /\ c \in jobs /\ ~mtx[c]
    /\ jobs' = jobs \ {c}
    /\ cpc' = [cpc EXCEPT ![c] = "resumed"]
    /\ UNCHANGED <<ctlVars, tpc, cur, opVars>>

\* co_await returns the result; the OVERLAPPED is destroyed.
Finish(c) ==
    /\ cpc[c] = "resumed"
    /\ cpc' = [cpc EXCEPT ![c] = "idle"]
    /\ UNCHANGED <<ctlVars, tpc, cur, opVars, jobs>>

-----------------------------------------------------------------------------
(* completion_thread_fn().                                                  *)

\* The thread reads the handle of the port.
ThreadBegins ==
    /\ tpc = "starting"
    /\ tpc' = "wait"
    /\ UNCHANGED <<ctlVars, cur, cpc, opVars, jobs>>

\* GetQueuedCompletionStatus returns a packet.
Dequeue(c) ==
    /\ tpc = "wait" /\ io[c] = "packet"
    /\ tpc' = "got" /\ cur' = c
    /\ io' = [io EXCEPT ![c] = "taken"]
    /\ UNCHANGED <<ctlVars, cpc, outcome, call, result, mtx, jobs>>

\* Mutant: the thread goes on waiting when it gets no OVERLAPPED.
NeverExit == FALSE
\* overlapped is null: the port was closed.
MayExit == port = "closed"

ThreadExits ==
    /\ tpc = "wait" /\ MayExit
    /\ tpc' = "exited"
    /\ UNCHANGED <<ctlVars, cur, cpc, opVars, jobs>>

\* Mutant: the thread does not lock the OVERLAPPED.
NoLock == TRUE
\* lock_guard of overlapped->mutex.
ThreadMayLock == ~mtx[cur]

\* With the mutex, the result of an operation that was pending is stored.
Store ==
    /\ tpc = "got" /\ ThreadMayLock
    /\ tpc' = "post"
    /\ result' = [result EXCEPT ![cur] = IF @ = "pending" THEN outcome[cur] ELSE @]
    /\ UNCHANGED <<ctlVars, cur, cpc, io, outcome, call, mtx, jobs>>

\* Mutant: an operation that was not pending is not posted.
PostIfPended == call[cur] = "pending"
\* Every packet is posted.
MustPost == TRUE

Post ==
    /\ tpc = "post"
    /\ tpc' = "wait" /\ cur' = Nobody
    /\ jobs' = IF MustPost THEN jobs \cup {cur} ELSE jobs
    /\ UNCHANGED <<ctlVars, cpc, opVars>>

Thread ==
    ThreadBegins \/ (\E c \in Coros : Dequeue(c)) \/ ThreadExits \/ Store \/ Post

Coroutine(c) == Begin(c) \/ Suspended(c) \/ Resume(c) \/ Finish(c)

IocpNext ==
    \/ Start \/ StartFails \/ StopClose \/ StopJoin
    \/ \E c \in Coros : Associate(c) \/ Suspend(c) \/ Coroutine(c) \/ Complete(c)
    \/ Thread

IocpSpec == IocpInit /\ [][IocpNext]_iocpVars

\* Threads are scheduled, the kernel completes what is pending and the port
\* gives its packets out in order, so that each one has its turn; nobody has to
\* start an operation, or to start or stop the reactor.
Fairness ==
    /\ \A c \in Coros :
        WF_iocpVars(Coroutine(c)) /\ WF_iocpVars(Complete(c)) /\ SF_iocpVars(Dequeue(c))
    /\ WF_iocpVars(Thread) /\ WF_iocpVars(StopJoin)

FairSpec == IocpSpec /\ Fairness

-----------------------------------------------------------------------------
(* Properties.                                                              *)

IocpTypeOK ==
    /\ port \in {"none", "open", "closed"}
    /\ tpc \in {"none", "starting", "wait", "got", "post", "exited"}
    /\ cur \in Coros \cup {Nobody}
    /\ owner \in {"down", "running", "joining"}
    /\ starts \in 0 .. Starts
    /\ assoc \subseteq Coros
    /\ cpc \in [Coros -> {"idle", "locked", "begun", "suspended", "resumed"}]
    /\ io \in [Coros -> {"none", "pending", "packet", "taken", "lost"}]
    /\ outcome \in [Coros -> {"none", "ok", "fail"}]
    /\ call \in [Coros -> {"none", "ok", "fail", "pending"}]
    /\ result \in [Coros -> {"none", "ok", "fail", "pending"}]
    /\ mtx \in [Coros -> BOOLEAN]
    /\ jobs \subseteq Coros

\* Neither the kernel nor the completion thread ever uses an OVERLAPPED that
\* has been destroyed: that is why await_suspend returns true even when the
\* operation has completed (co_overlapped_awaiter).
OverlappedIsLive ==
    \A c \in Coros :
        io[c] \in {"pending", "packet"} \/ (tpc \in {"got", "post"} /\ cur = c)
            => cpc[c] \in {"begun", "suspended"}

\* The coroutine gets what the kernel said of its own operation, whether it
\* completed at once, while await_suspend was still running, or later.
ResultIsOutcome ==
    \A c \in Coros : cpc[c] = "resumed" => result[c] = outcome[c] /\ outcome[c] # "none"

\* A coroutine is posted only when await_suspend has let it go, once for an
\* operation, and while nothing else of that operation is outstanding.
PostedOnce ==
    \A c \in jobs :
        cpc[c] = "suspended" /\ io[c] = "taken" /\ ~(tpc \in {"got", "post"} /\ cur = c)

\* An operation is answered once, and rightly, whichever of await_suspend and
\* the completion thread comes first to the awaiter's mutex.
AnswerSafe == IocpTypeOK /\ ResultIsOutcome /\ PostedOnce

\* A suspended coroutine is resumed, unless the reactor is stopped under it or
\* the call failed at once: then the kernel queues no packet, and await_suspend
\* has suspended the coroutine for ever.
OperationAnswered ==
    \A c \in Coros :
        cpc[c] = "suspended" ~> cpc[c] = "idle" \/ c \notin assoc \/ call[c] = "fail"

\* stop() returns, also when the thread has not yet come to read the handle of
\* the port, or holds a packet.
StopReturns == owner = "joining" ~> owner = "down"
=============================================================================
