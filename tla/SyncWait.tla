------------------------------ MODULE SyncWait ------------------------------
(***************************************************************************)
(* wait() and its wait_executor (wait.hxx), async_invoke (async_invoke.hxx)*)
(* and co_detach (co_detach.hxx).                                          *)
(*                                                                         *)
(* Each thread of Waiters calls wait() once.  The task it waits for, named *)
(* by the same value, does Invokes async_invokes and may detach other      *)
(* coroutines, which do the same.  wait() keeps its executor on its stack; *)
(* a coroutine that is detached gets the executor of its parent, or the    *)
(* one passed to co_detach, a pool that lives for ever.  Every async_invoke*)
(* has a thread of its own (std::async).  Coroutines may throw: a task     *)
(* keeps its exception, a detached coroutine lets it out into whoever      *)
(* resumed it.  The model is of standard coroutines, where that unwinds;   *)
(* with the coroutines TS final_awaiter resumes inside a noexcept function *)
(* and the process is terminated.                                          *)
(***************************************************************************)
EXTENDS Integers, Sequences

CONSTANTS
    Waiters,        \* threads that call wait(), and the tasks they wait for
    Detached,       \* coroutines for co_detach
    PoolThreads,    \* threads that run the pool
    Pool,           \* the executor that is not on a stack
    Nobody,         \* no thread
    Invokes,        \* async_invokes of each coroutine
    DetachTo,       \* how co_detach is called: "parent" (no xer), "pool"
    Throwing        \* coroutines that may throw, at any time they run

ASSUME WaitAssumption ==
    /\ Waiters \cap Detached = {} /\ Waiters \cap PoolThreads = {}
    /\ Pool \notin Waiters /\ Nobody \notin Waiters \cup PoolThreads
    /\ Invokes \in Nat \ {0}
    /\ DetachTo \subseteq {"parent", "pool"}
    /\ Throwing \subseteq Waiters \cup Detached

Coros == Waiters \cup Detached
Threads == Waiters \cup PoolThreads
Executors == Waiters \cup {Pool}

VARIABLES
    stack,      \* coroutines each thread is inside of, the innermost first
    wpc,        \* wait() of each waiter: "out", "run", "loop", "waiting", "returned",
                \* "threw" (left by the exception of a job)
    queue,      \* jobs of each executor: the coroutines to resume
    st,         \* coroutines: "none", "running", "suspended", "job", "get", "done", "threw"
    left,       \* async_invokes a coroutine still has to do
    owner,      \* promise.task_executor
    mtx,        \* the awaiter's mutex: the thread inside await_suspend
    fut,        \* the awaiter's future has been assigned
    worker,     \* its thread: "none", "calling", "post", "return", "ready", "threw"
    gone        \* std::terminate has been called

vars == <<stack, wpc, queue, st, left, owner, mtx, fut, worker, gone>>

Init ==
    /\ stack = [t \in Threads |-> <<>>]
    /\ wpc = [w \in Waiters |-> "out"]
    /\ queue = [x \in Executors |-> <<>>]
    /\ st = [c \in Coros |-> "none"]
    /\ left = [c \in Coros |-> Invokes]
    /\ owner = [c \in Coros |-> Pool]
    /\ mtx = [c \in Coros |-> Nobody]
    /\ fut = [c \in Coros |-> FALSE]
    /\ worker = [c \in Coros |-> "none"]
    /\ gone = FALSE

\* Thread t executes c.
Runs(t, c) == stack[t] # <<>> /\ Head(stack[t]) = c

\* The executor exists: the one of a waiter does while wait() is running.
Alive(x) == x = Pool \/ wpc[x] \in {"run", "loop", "waiting"}

-----------------------------------------------------------------------------
(* wait() and wait_executor.                                                *)

\* wait(): the executor is made, the task gets it and is started here.
Wait(w) ==
    /\ wpc[w] = "out"
    /\ wpc' = [wpc EXCEPT ![w] = "run"]
    /\ owner' = [owner EXCEPT ![w] = w]
    /\ st' = [st EXCEPT ![w] = "running"]
    /\ stack' = [stack EXCEPT ![w] = <<w>>]
    /\ UNCHANGED <<queue, left, mtx, fut, worker, gone>>

\* The task or the job has returned to run(), which starts over.
BackInRun(w) ==
    /\ wpc[w] = "run" /\ stack[w] = <<>>
    /\ wpc' = [wpc EXCEPT ![w] = "loop"]
    /\ UNCHANGED <<stack, queue, st, left, owner, mtx, fut, worker, gone>>

\* The predicate of _cv.wait.
Awake(w) == queue[w] # <<>> \/ st[w] = "done"

Sleep(w) ==
    /\ wpc[w] = "loop" /\ ~Awake(w)
    /\ wpc' = [wpc EXCEPT ![w] = "waiting"]
    /\ UNCHANGED <<stack, queue, st, left, owner, mtx, fut, worker, gone>>

\* A spurious wakeup of _cv.wait.
Spurious(w) ==
    /\ wpc[w] = "waiting"
    /\ wpc' = [wpc EXCEPT ![w] = "loop"]
    /\ UNCHANGED <<stack, queue, st, left, owner, mtx, fut, worker, gone>>

\* Mutant: run() ends when there is nothing to do.
EndsWhenIdle(w) == queue[w] = <<>>
\* if (_task.coro_handle.done()) return;
RunEnds(w) == st[w] = "done"

\* run() returns; wait() takes the result and destroys the executor.
Returns(w) ==
    /\ wpc[w] = "loop" /\ RunEnds(w)
    /\ wpc' = [wpc EXCEPT ![w] = "returned"]
    /\ UNCHANGED <<stack, queue, st, left, owner, mtx, fut, worker, gone>>

\* Thread t takes the first job of executor x.
TakeJob(t, x) ==
    /\ queue[x] # <<>>
    /\ queue' = [queue EXCEPT ![x] = Tail(@)]
    /\ stack' = [stack EXCEPT ![t] = <<Head(queue[x])>>]
    /\ st' = [st EXCEPT ![Head(queue[x])] = "job"]
    /\ UNCHANGED <<left, owner, mtx, fut, worker, gone>>

RunJob(w) ==
    /\ wpc[w] = "loop" /\ ~RunEnds(w)
    /\ TakeJob(w, w)
    /\ wpc' = [wpc EXCEPT ![w] = "run"]

RunPoolJob(p) ==
    /\ stack[p] = <<>>
    /\ TakeJob(p, Pool)
    /\ UNCHANGED wpc

\* Mutant: post() does not notify.
NotifyNobody(x) == wpc
\* _cv.notify_one(): the only waiter is the thread in run().
Notify(x) ==
    [w \in Waiters |-> IF w = x /\ wpc[w] = "waiting" THEN "loop" ELSE wpc[w]]

-----------------------------------------------------------------------------
(* async_invoke.                                                            *)

\* await_suspend locks mtx and starts the thread.
Invoke(t, c) ==
    /\ Runs(t, c) /\ st[c] = "running" /\ left[c] > 0
    /\ left' = [left EXCEPT ![c] = @ - 1]
    /\ st' = [st EXCEPT ![c] = "suspended"]
    /\ mtx' = [mtx EXCEPT ![c] = t]
    /\ worker' = [worker EXCEPT ![c] = "calling"]
    /\ UNCHANGED <<stack, wpc, queue, owner, fut, gone>>

\* What std::async returned is assigned to the future.
AssignFuture(t, c) ==
    /\ Runs(t, c) /\ mtx[c] = t /\ ~fut[c]
    /\ fut' = [fut EXCEPT ![c] = TRUE]
    /\ UNCHANGED <<stack, wpc, queue, st, left, owner, mtx, worker, gone>>

\* Mutant: await_suspend leaves mtx locked.
KeepLocked(t) == t
\* The lock_guard of await_suspend unlocks mtx.
Unlocked(t) == Nobody

\* await_suspend returns: the thread leaves the coroutine.
Suspended(t, c) ==
    /\ Runs(t, c) /\ mtx[c] = t /\ fut[c]
    /\ mtx' = [mtx EXCEPT ![c] = Unlocked(t)]
    /\ stack' = [stack EXCEPT ![t] = Tail(@)]
    /\ UNCHANGED <<wpc, queue, st, left, owner, fut, worker, gone>>

\* The callable returns, or throws: then nothing is posted.
CallableEnds(c) ==
    /\ worker[c] = "calling"
    /\ \E r \in {"post", "threw"} : worker' = [worker EXCEPT ![c] = r]
    /\ UNCHANGED <<stack, wpc, queue, st, left, owner, mtx, fut, gone>>

\* task_executor->post(): for a wait_executor push_back and notify_one.  To
\* post to an executor that is gone is undefined behaviour; here the job is lost.
Post(c) ==
    /\ worker[c] = "post"
    /\ worker' = [worker EXCEPT ![c] = "return"]
    /\ IF Alive(owner[c])
       THEN /\ queue' = [queue EXCEPT ![owner[c]] = Append(@, c)]
            /\ wpc' = Notify(owner[c])
       ELSE UNCHANGED <<queue, wpc>>
    /\ UNCHANGED <<stack, st, left, owner, mtx, fut, gone>>

\* The lambda returns: the future is ready.
WorkerReturns(c) ==
    /\ worker[c] = "return"
    /\ worker' = [worker EXCEPT ![c] = "ready"]
    /\ UNCHANGED <<stack, wpc, queue, st, left, owner, mtx, fut, gone>>

\* Mutant: the job does not wait for await_suspend.
NoLock(c) == TRUE
\* The job locks and unlocks mtx.
JobMayPass(c) == mtx[c] = Nobody

ResumeCoro(t, c) ==
    /\ Runs(t, c) /\ st[c] = "job" /\ JobMayPass(c)
    /\ st' = [st EXCEPT ![c] = "get"]
    /\ UNCHANGED <<stack, wpc, queue, left, owner, mtx, fut, worker, gone>>

\* await_resume: future.get() blocks until the thread has returned.
Get(t, c) ==
    /\ Runs(t, c) /\ st[c] = "get" /\ fut[c] /\ worker[c] = "ready"
    /\ st' = [st EXCEPT ![c] = "running"]
    /\ fut' = [fut EXCEPT ![c] = FALSE]
    /\ worker' = [worker EXCEPT ![c] = "none"]
    /\ UNCHANGED <<stack, wpc, queue, left, owner, mtx, gone>>

\* co_return: the task is done() at its final suspend point.
Finish(t, c) ==
    /\ Runs(t, c) /\ st[c] = "running" /\ left[c] = 0
    /\ st' = [st EXCEPT ![c] = "done"]
    /\ stack' = [stack EXCEPT ![t] = Tail(@)]
    /\ UNCHANGED <<wpc, queue, left, owner, mtx, fut, worker, gone>>

-----------------------------------------------------------------------------
(* co_detach.                                                               *)

\* promise.task_executor: xer, or else co_get_executor().
DetachExecutor(c, how) == IF how = "pool" THEN Pool ELSE owner[c]

\* The coroutine is started at once, inside its parent, which goes on when it
\* suspends or returns.
Detach(t, c, d) ==
    /\ Runs(t, c) /\ st[c] = "running"
    /\ st[d] = "none"
    /\ \E how \in DetachTo : owner' = [owner EXCEPT ![d] = DetachExecutor(c, how)]
    /\ st' = [st EXCEPT ![d] = "running"]
    /\ stack' = [stack EXCEPT ![t] = <<d>> \o @]
    /\ UNCHANGED <<wpc, queue, left, mtx, fut, worker, gone>>

-----------------------------------------------------------------------------
(* Exceptions.                                                              *)

\* Between the coroutine and the loop of run() there is no other coroutine.
Outermost(t) == Tail(stack[t]) = <<>>

\* A task keeps its exception and is done(), await_resume throws it again.  A
\* detached coroutine throws it out of start(), and co_await co_detach() throws
\* it in the parent, which catches it or throws in turn.
Throw(t, c) ==
    /\ Runs(t, c) /\ st[c] = "running" /\ c \in Throwing
    /\ c \in Waiters \/ ~Outermost(t)
    /\ st' = [st EXCEPT ![c] = IF c \in Waiters THEN "done" ELSE "threw"]
    /\ stack' = [stack EXCEPT ![t] = Tail(@)]
    /\ UNCHANGED <<wpc, queue, left, owner, mtx, fut, worker, gone>>

\* A detached coroutine that a job has resumed throws out of work() and run():
\* wait() is left at once, and its executor and its task are destroyed.
ThrowOutOfWait(w, d) ==
    /\ Runs(w, d) /\ st[d] = "running" /\ d \in Throwing \cap Detached
    /\ Outermost(w)
    /\ st' = [st EXCEPT ![d] = "threw"]
    /\ stack' = [stack EXCEPT ![w] = <<>>]
    /\ wpc' = [wpc EXCEPT ![w] = "threw"]
    /\ UNCHANGED <<queue, left, owner, mtx, fut, worker, gone>>

\* The same in a thread of the pool, whose function nothing may leave.
Terminate(p, d) ==
    /\ Runs(p, d) /\ st[d] = "running" /\ d \in Throwing \cap Detached
    /\ Outermost(p)
    /\ gone' = TRUE
    /\ UNCHANGED <<stack, wpc, queue, st, left, owner, mtx, fut, worker>>

ThrowStep ==
    \/ \E t \in Threads, c \in Coros : Throw(t, c)
    \/ \E w \in Waiters, d \in Detached : ThrowOutOfWait(w, d)
    \/ \E p \in PoolThreads, d \in Detached : Terminate(p, d)

-----------------------------------------------------------------------------
WaitStep(w) ==
    Wait(w) \/ BackInRun(w) \/ Sleep(w) \/ Returns(w) \/ RunJob(w)

\* The steps of a coroutine that its thread has to take.
CoroStep(t, c) ==
    \/ Invoke(t, c) \/ AssignFuture(t, c) \/ Suspended(t, c)
    \/ ResumeCoro(t, c) \/ Get(t, c) \/ Finish(t, c)

Worker(c) == CallableEnds(c) \/ Post(c) \/ WorkerReturns(c)

Step ==
    \/ \E w \in Waiters : WaitStep(w) \/ Spurious(w)
    \/ \E p \in PoolThreads : RunPoolJob(p)
    \/ \E t \in Threads, c \in Coros : CoroStep(t, c)
    \/ \E t \in Threads, c \in Coros, d \in Detached : Detach(t, c, d)
    \/ \E c \in Coros : Worker(c)

Next == ~gone /\ (ThrowStep \/ Step)

Spec == Init /\ [][Next]_vars

\* Every thread is scheduled; a callable ends.
Fairness ==
    /\ \A w \in Waiters : WF_vars(~gone /\ WaitStep(w))
    /\ \A p \in PoolThreads : WF_vars(~gone /\ RunPoolJob(p))
    /\ \A t \in Threads : WF_vars(~gone /\ \E c \in Coros : CoroStep(t, c))
    /\ \A c \in Coros : WF_vars(~gone /\ Worker(c))

FairSpec == Spec /\ Fairness

-----------------------------------------------------------------------------
(* Properties.                                                              *)

TypeOK ==
    /\ stack \in [Threads -> Seq(Coros)]
    /\ wpc \in [Waiters -> {"out", "run", "loop", "waiting", "returned", "threw"}]
    /\ queue \in [Executors -> Seq(Coros)]
    /\ st \in [Coros -> {"none", "running", "suspended", "job", "get", "done", "threw"}]
    /\ left \in [Coros -> 0 .. Invokes]
    /\ owner \in [Coros -> Executors]
    /\ mtx \in [Coros -> Threads \cup {Nobody}]
    /\ fut \in [Coros -> BOOLEAN]
    /\ worker \in [Coros -> {"none", "calling", "post", "return", "ready", "threw"}]
    /\ gone \in BOOLEAN

\* await_resume calls get() on a future that has been assigned, although the
\* thread may have posted the job before std::async has returned: that is what
\* the mutex of co_async_invoke_awaiter is for.
FutureAssigned == \A c \in Coros : st[c] = "get" => fut[c]

\* A coroutine that goes on after async_invoke, and so destroys the awaiter,
\* leaves no thread behind that is still inside its await_suspend.
AwaiterOutlivesSuspend ==
    \A c \in Coros : mtx[c] # Nobody => st[c] \in {"suspended", "job"}

\* Two threads are inside one coroutine only when one of them is on its way out
\* of await_suspend and the other, with the job, waits for the mutex; and no
\* thread is inside a coroutine that is done or has thrown.
Inside(t, c) == \E i \in DOMAIN stack[t] : stack[t][i] = c
OneThreadInside ==
    \A c \in Coros :
        /\ \A t, u \in Threads :
              t # u /\ Inside(t, c) /\ Inside(u, c) => st[c] = "job" /\ mtx[c] \in {t, u}
        /\ st[c] \in {"none", "done", "threw"} => \A t \in Threads : ~Inside(t, c)

\* async_invoke lets its coroutine go on only with an assigned future, in one
\* thread and with nobody left inside the awaiter, whichever thread is faster.
AwaiterSafe == TypeOK /\ FutureAssigned /\ AwaiterOutlivesSuspend /\ OneThreadInside

\* A detached coroutine that runs on the executor of somebody's wait().
Borrows(c) == c \in Detached /\ owner[c] # Pool

\* A detached coroutine has thrown out of the wait() whose executor it ran on.
Unwound(x) ==
    x \in Waiters /\ wpc[x] = "threw" /\ \E d \in Detached : owner[d] = x /\ st[d] = "threw"

\* Whoever posts to an executor, or has a job in one, finds that it still
\* exists: wait() is left, and takes its wait_executor with it, only when
\* nothing is under way that would use it.  There are two exceptions, both made
\* by coroutines that co_detach gave the executor of a wait(): nothing makes
\* wait() stay for them (Borrows), and one that throws when run() resumes it
\* ends wait() although the awaited task still needs the executor (Unwound).
ExecutorOutlivesUsers ==
    \A c \in Coros : ~Borrows(c) =>
        /\ worker[c] = "post" => Alive(owner[c]) \/ Unwound(owner[c])
        /\ \A x \in Executors :
             (\E i \in DOMAIN queue[x] : queue[x][i] = c) => Alive(x) \/ Unwound(x)

\* wait() returns once its task is done, wherever the jobs come from (the
\* wakeup by post() is never lost), unless a callable of the task has thrown,
\* or an exception of a detached coroutine has left wait() or ended the process.
WaitReturns ==
    \A w \in Waiters :
        wpc[w] = "run" ~> wpc[w] = "returned" \/ worker[w] = "threw" \/ Unwound(w) \/ gone

\* A detached coroutine runs to its end on the executor passed to co_detach,
\* unless it or its callable throws, also when the wait() it was started from
\* has returned.
DetachedFinishes ==
    \A d \in Detached :
        st[d] = "running" ~>
            st[d] \in {"done", "threw"} \/ worker[d] = "threw" \/ Borrows(d) \/ gone
=============================================================================
