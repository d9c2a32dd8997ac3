----------------------------- MODULE MtExecutor -----------------------------
(***************************************************************************)
(* The thread pool mt_executor (executor.hxx).  Every critical section     *)
(* under _mtx is one step; a thread blocked in _cv.wait is in "waiting"    *)
(* and notify_one, notify_all and spurious wakeups move it to "ready",     *)
(* where it takes the lock again and evaluates the predicate.              *)
(***************************************************************************)
EXTENDS Integers, Sequences, FiniteSets

CONSTANTS
    Items,      \* work items; each is posted at most once
    NoItem,     \* no work item
    Pool,       \* bound: thread objects start_threads() can create
    Runners,    \* threads of the program that call run() themselves
    Batch       \* nthreads of start_threads()

ASSUME PoolAssumption ==
    /\ IsFiniteSet(Pool) /\ IsFiniteSet(Runners)
    /\ Pool \cap Runners = {}
    /\ NoItem \notin Items
    /\ Batch \in Nat \ {0}

Threads == Pool \cup Runners

VARIABLES
    work,       \* _work
    stopFlag,   \* _stop
    threads,    \* _threads
    pc,         \* of each thread: "none", "ready", "waiting", "running", "exited"
    item,       \* the item a running thread executes
    stopper,    \* the caller of stop(): "idle", "joining", "returned"
    posted,     \* items handed to post()
    done        \* items executed

vars == <<work, stopFlag, threads, pc, item, stopper, posted, done>>

Waiting == {t \in Threads : pc[t] = "waiting"}
Awake == {t \in Threads : pc[t] = "ready"}
Running == {t \in Threads : pc[t] = "running"}

Init ==
    /\ work = <<>>
    /\ stopFlag = FALSE
    /\ threads = {}
    /\ pc = [t \in Threads |-> "none"]
    /\ item = [t \in Threads |-> NoItem]
    /\ stopper = "idle"
    /\ posted = {}
    /\ done = {}

\* Mutant: post() notifies only when the queue was empty.
NotifyIfEmpty ==
    IF work = <<>> /\ Waiting # {}
    THEN \E t \in Waiting : pc' = [pc EXCEPT ![t] = "ready"]
    ELSE UNCHANGED pc
\* Mutant: post() does not notify.
NotifyNobody == UNCHANGED pc

\* _cv.notify_one()
NotifyOne ==
    IF Waiting # {}
    THEN \E t \in Waiting : pc' = [pc EXCEPT ![t] = "ready"]
    ELSE UNCHANGED pc

Post(i) ==
    /\ i \notin posted
    /\ posted' = posted \cup {i}
    /\ work' = Append(work, i)
    /\ NotifyOne
    /\ UNCHANGED <<stopFlag, threads, item, stopper, done>>

\* run(): the thread holds _mtx and the predicate is false.
Sleep(t) ==
    /\ pc[t] = "ready" /\ work = <<>> /\ ~stopFlag
    /\ pc' = [pc EXCEPT ![t] = "waiting"]
    /\ UNCHANGED <<work, stopFlag, threads, item, stopper, posted, done>>

Spurious(t) ==
    /\ pc[t] = "waiting"
    /\ pc' = [pc EXCEPT ![t] = "ready"]
    /\ UNCHANGED <<work, stopFlag, threads, item, stopper, posted, done>>

Exit(t) ==
    /\ pc[t] = "ready" /\ stopFlag
    /\ pc' = [pc EXCEPT ![t] = "exited"]
    /\ UNCHANGED <<work, stopFlag, threads, item, stopper, posted, done>>

\* Mutant: _stop is looked at only when the queue is empty.
TakeAfterStop(t) ==
    /\ pc[t] = "ready" /\ work # <<>>
    /\ item' = [item EXCEPT ![t] = Head(work)]
    /\ work' = Tail(work)
    /\ pc' = [pc EXCEPT ![t] = "running"]
    /\ UNCHANGED <<stopFlag, threads, stopper, posted, done>>

\* front(), pop_front(), unlock; work() is running from here on.
Take(t) ==
    /\ pc[t] = "ready" /\ ~stopFlag /\ work # <<>>
    /\ item' = [item EXCEPT ![t] = Head(work)]
    /\ work' = Tail(work)
    /\ pc' = [pc EXCEPT ![t] = "running"]
    /\ UNCHANGED <<stopFlag, threads, stopper, posted, done>>

\* work() returns.
Finish(t) ==
    /\ pc[t] = "running"
    /\ done' = done \cup {item[t]}
    /\ item' = [item EXCEPT ![t] = NoItem]
    /\ pc' = [pc EXCEPT ![t] = "ready"]
    /\ UNCHANGED <<work, stopFlag, threads, stopper, posted>>

\* A thread of the program calls run().
CallRun(t) ==
    /\ t \in Runners /\ pc[t] = "none"
    /\ pc' = [pc EXCEPT ![t] = "ready"]
    /\ UNCHANGED <<work, stopFlag, threads, item, stopper, posted, done>>

\* start_threads(); the owner does not call it while it is inside stop().
StartThreads(S) ==
    /\ stopper # "joining"
    /\ S \subseteq Pool /\ Cardinality(S) = Batch
    /\ \A t \in S : pc[t] = "none"
    /\ threads' = threads \cup S
    /\ pc' = [t \in Threads |-> IF t \in S THEN "ready" ELSE pc[t]]
    /\ stopper' = "idle"
    /\ UNCHANGED <<work, stopFlag, item, posted, done>>

NotifyOneAtStop == NotifyOne     \* mutant: notify_one() in stop()
\* _cv.notify_all()
NotifyAll == pc' = [t \in Threads |-> IF pc[t] = "waiting" THEN "ready" ELSE pc[t]]

StopBegin ==
    /\ stopper # "joining"
    /\ stopFlag' = TRUE
    /\ NotifyAll
    /\ stopper' = "joining"
    /\ UNCHANGED <<work, threads, item, posted, done>>

\* join() returns once the thread has left run().
Joinable(t) == t \in threads /\ pc[t] = "exited"

StopJoin(t) ==
    /\ stopper = "joining"
    /\ Joinable(t)
    /\ threads' = threads \ {t}
    /\ UNCHANGED <<work, stopFlag, pc, item, stopper, posted, done>>

StopReturn ==
    /\ stopper = "joining" /\ threads = {}
    /\ stopper' = "returned"
    /\ UNCHANGED <<work, stopFlag, threads, pc, item, posted, done>>

RunStep(t) == Sleep(t) \/ Exit(t) \/ Take(t) \/ Finish(t)

Next ==
    \/ \E i \in Items : Post(i)
    \/ \E t \in Threads : RunStep(t) \/ Spurious(t) \/ CallRun(t) \/ StopJoin(t)
    \/ \E S \in SUBSET Pool : StartThreads(S)
    \/ StopBegin \/ StopReturn

Spec == Init /\ [][Next]_vars

\* Threads that can run do run, work items return, and a caller of stop()
\* goes on when it can.  A thread that waits for _mtx gets it in the end.
Fairness ==
    /\ \A t \in Threads : WF_vars(RunStep(t))
    /\ \A t \in Threads : WF_vars(StopJoin(t))
    /\ WF_vars(StopReturn)

FairSpec == Spec /\ Fairness
-----------------------------------------------------------------------------
\* Every variable has its type (mt_executor's members).
TypeOK ==
    /\ work \in Seq(Items)
    /\ stopFlag \in BOOLEAN
    /\ threads \subseteq Pool
    /\ pc \in [Threads -> {"none", "ready", "waiting", "running", "exited"}]
    /\ item \in [Threads -> Items \cup {NoItem}]
    /\ stopper \in {"idle", "joining", "returned"}
    /\ posted \subseteq Items
    /\ done \subseteq Items

\* The executor is a work queue: FIFO, each item at most once, nothing is
\* started after stop().
Queue == INSTANCE WorkQueue WITH
    pending <- work,
    active <- {item[t] : t \in Running},
    finished <- done,
    closed <- stopFlag
ImplementsQueue == Queue!Spec

\* One notify_one for each post() is enough: while a thread sleeps in
\* _cv.wait, every queued item has a thread that is awake and on its way.
WorkConserving == Waiting # {} => Len(work) <= Cardinality(Awake)

\* stop() has told every thread: none sleeps for ever once _stop is set.
NobodySleepsAfterStop == stopFlag => Waiting = {}

\* When stop() returns, every thread created by start_threads() has left
\* run(): no work item is executing on the pool.
PoolStopped == stopper = "returned" => \A t \in Pool : pc[t] \in {"none", "exited"}

\* No thread sleeps over work or over stop(), and none is left behind by it:
\* what the notifications and joins of the executor are for.
PoolSafe == TypeOK /\ WorkConserving /\ NobodySleepsAfterStop /\ PoolStopped

\* A posted item is executed unless the executor is stopped.
PostedRuns ==
    \A i \in Items : i \in posted /\ (\E t \in Threads : pc[t] # "none")
        ~> i \in done \/ stopFlag

\* stop() returns: every thread it joins leaves run().
StopReturns == stopper = "joining" ~> stopper = "returned"
=============================================================================
