------------------------------ MODULE IoUring -------------------------------
(***************************************************************************)
(* The io_uring reactor (posix/detail/io_uring_reactor.hxx): file          *)
(* operations are requests to the kernel, and a thread gives the coroutine *)
(* of each completed request back to its executor.                         *)
(*                                                                         *)
(* Actors: the coroutines (one async_fd_* operation each, restarted for    *)
(* ever), the completion thread, the thread in stop() and the kernel.  The *)
(* sections under _sq_mutex are single steps.  A request is named by the   *)
(* coroutine whose awaiter (co_sqe_wait) its user_data points to; the      *)
(* awaiter, with its mutex cmtx, exists while the coroutine is not idle.   *)
(***************************************************************************)
EXTENDS Integers, Sequences, FiniteSets

CONSTANTS
    Coros,          \* coroutines that do file operations
    Nop,            \* the shutdown request of stop(), whose user_data is null
    SqSize,         \* entries of the submission ring (_max_queue_size)
    CqSize,         \* entries of the completion ring; more wait in the kernel
    CanFail         \* calls of _put_sq that can fail: "submit", "alloc"

Entries == Coros \cup {Nop}

ASSUME RingAssumption ==
    /\ Nop \notin Coros
    /\ SqSize \in Nat \ {0}
    /\ CqSize \in Nat /\ CqSize >= SqSize
    /\ CanFail \subseteq {"submit", "alloc"}

VARIABLES
    pending,    \* _pending
    sq,         \* submission ring: entries the kernel has not taken
    kernel,     \* how many requests of each entry the kernel works on
    cq,         \* completions, with those that overflow the ring at the end
    tpc,        \* the thread: "wait", "handle", "post", "seen", "peek", "drain", "exited"
    cpc,        \* coroutines: "idle", "locked", "put", "failed", "waiting"
    cmtx,       \* lock word of the awaiter's mutex
    jobs,       \* resume jobs posted to the executor
    stop        \* "running", "joining", "stopped"

ringVars == <<pending, sq, kernel, cq>>
vars == <<ringVars, tpc, cpc, cmtx, jobs, stop>>

Init ==
    /\ pending = <<>> /\ sq = <<>> /\ cq = <<>>
    /\ kernel = [e \in Entries |-> 0]
    /\ tpc = "wait"
    /\ cpc = [c \in Coros |-> "idle"]
    /\ cmtx = [c \in Coros |-> FALSE]
    /\ jobs = [c \in Coros |-> 0]
    /\ stop = "running"

Goto(c, l) == cpc' = [cpc EXCEPT ![c] = l]

-----------------------------------------------------------------------------
(* The submission ring.                                                     *)

\* What io_uring_submit can do with a ring of n entries: the kernel takes a
\* prefix (it stops early at an entry it has to reject or cannot allocate),
\* refuses with -EBUSY while completions overflow, or fails and takes nothing.
SubmitOutcomes(n) ==
    [taken : IF n = 0 THEN {0} ELSE 1 .. n, r : {"ok"}]
    \cup [taken : {0}, r : {x \in {"busy"} : n > 0 /\ Len(cq) > CqSize}]
    \cup [taken : {0}, r : {x \in {"error"} : n > 0 /\ "submit" \in CanFail}]

\* How often s holds e.
Occurrences(s, e) == Cardinality({i \in DOMAIN s : s[i] = e})

\* io_uring_submit when the ring holds s.
Submit(s, o) ==
    /\ sq' = SubSeq(s, o.taken + 1, Len(s))
    /\ kernel' = [e \in Entries |->
                    kernel[e] + Occurrences(SubSeq(s, 1, o.taken), e)]

\* Whether _put_sq reports what io_uring_submit returned as an error.
FailsUnlessOk(r) == r # "ok"    \* mutant: -EBUSY is an error too
SubmitFails(r) == r = "error"

\* push_back to _pending succeeds, or reports bad_alloc.
PushOutcomes == {TRUE} \cup {FALSE : x \in CanFail \cap {"alloc"}}

PushNothing(e) == pending       \* mutant: the entry is dropped
PushBack(e) == Append(pending, e)

\* _put_sq: the entry is put into the ring and submitted, or kept in _pending
\* when the ring is full; ok says whether success is returned.
PutSq(e, ok) ==
    \/ /\ Len(sq) < SqSize
       /\ \E o \in SubmitOutcomes(Len(sq) + 1) :
            Submit(Append(sq, e), o) /\ ok = ~SubmitFails(o.r)
       /\ UNCHANGED pending
    \/ /\ Len(sq) = SqSize
       /\ ok \in PushOutcomes
       /\ pending' = IF ok THEN PushBack(e) ELSE pending
       /\ UNCHANGED <<sq, kernel>>

-----------------------------------------------------------------------------
(* A coroutine in co_await co_sqe_wait.                                     *)

\* await_suspend takes the mutex of the new awaiter.  Nobody starts an
\* operation on a reactor that is being stopped.
Suspend(c) ==
    /\ cpc[c] = "idle" /\ stop = "running"
    /\ Goto(c, "locked")
    /\ cmtx' = [cmtx EXCEPT ![c] = TRUE]
    /\ UNCHANGED <<ringVars, tpc, jobs, stop>>

\* await_suspend calls _put_sq.
Put(c) ==
    /\ cpc[c] = "locked"
    /\ \E ok \in BOOLEAN : PutSq(c, ok) /\ Goto(c, IF ok THEN "put" ELSE "failed")
    /\ UNCHANGED <<cq, tpc, cmtx, jobs, stop>>

\* await_suspend returns and lets the mutex go.  When it returns false the
\* coroutine is not suspended: it goes on with ret = -1, its awaiter destroyed.
Suspended(c) ==
    /\ cpc[c] \in {"put", "failed"}
    /\ Goto(c, IF cpc[c] = "put" THEN "waiting" ELSE "idle")
    /\ cmtx' = [cmtx EXCEPT ![c] = FALSE]
    /\ UNCHANGED <<ringVars, tpc, jobs, stop>>

\* An executor thread resumes the coroutine; await_resume passes through the
\* mutex and the awaiter is destroyed.
MayResumeUnlocked(c) == TRUE    \* mutant: await_resume does not lock
MayResume(c) == ~cmtx[c]

Resume(c) ==
    /\ jobs[c] > 0 /\ MayResume(c)
    /\ jobs' = [jobs EXCEPT ![c] = @ - 1]
    /\ Goto(c, "idle")
    /\ UNCHANGED <<ringVars, tpc, cmtx, stop>>

-----------------------------------------------------------------------------
(* The kernel, and io_uring_thread_fn.                                      *)

\* A request completes.
Complete(e) ==
    /\ kernel[e] > 0
    /\ kernel' = [kernel EXCEPT ![e] = @ - 1]
    /\ cq' = Append(cq, e)
    /\ UNCHANGED <<pending, sq, tpc, cpc, cmtx, jobs, stop>>

\* io_uring_wait_cqe returns.
WaitCqe ==
    /\ tpc = "wait" /\ cq # <<>>
    /\ tpc' = "handle"
    /\ UNCHANGED <<ringVars, cpc, cmtx, jobs, stop>>

\* user_data is null: the thread ends.
Shutdown ==
    /\ tpc = "handle" /\ Head(cq) = Nop
    /\ tpc' = "exited"
    /\ UNCHANGED <<ringVars, cpc, cmtx, jobs, stop>>

\* The thread locks the awaiter the completion points to.
LockAwaiter ==
    /\ tpc = "handle" /\ Head(cq) # Nop /\ ~cmtx[Head(cq)]
    /\ tpc' = "post"
    /\ cmtx' = [cmtx EXCEPT ![Head(cq)] = TRUE]
    /\ UNCHANGED <<ringVars, cpc, jobs, stop>>

\* It stores the result and posts the coroutine to its executor.
PostResume ==
    /\ tpc = "post"
    /\ tpc' = "seen"
    /\ jobs' = [jobs EXCEPT ![Head(cq)] = @ + 1]
    /\ UNCHANGED <<ringVars, cpc, cmtx, stop>>

\* io_uring_cqe_seen, and the end of the lock_guard's scope.
CqeSeen ==
    /\ tpc = "seen"
    /\ tpc' = "peek"
    /\ cmtx' = [cmtx EXCEPT ![Head(cq)] = FALSE]
    /\ cq' = Tail(cq)
    /\ UNCHANGED <<pending, sq, kernel, cpc, jobs, stop>>

PeekCqe ==
    /\ tpc = "peek"
    /\ tpc' = IF cq # <<>> THEN "handle" ELSE "drain"
    /\ UNCHANGED <<ringVars, cpc, cmtx, jobs, stop>>

\* The thread moves what fits from _pending to the ring and submits; what
\* io_uring_submit returns is not looked at.
SubmitIfMoved(n, s, o) ==       \* mutant: no submit unless _pending had entries
    IF n > 0 THEN Submit(s, o) ELSE UNCHANGED <<sq, kernel>>
SubmitMoved(n, s, o) == Submit(s, o)

PopPending(n) == SubSeq(pending, n + 1, Len(pending))

\* How many entries of _pending are moved: as many as get a slot.
Fitting ==
    LET room == SqSize - Len(sq)
    IN  IF Len(pending) < room THEN Len(pending) ELSE room

Drain ==
    /\ tpc = "drain"
    /\ tpc' = "wait"
    /\ LET n == Fitting
           s == sq \o SubSeq(pending, 1, n)
       IN  /\ \E o \in SubmitOutcomes(Len(s)) : SubmitMoved(n, s, o)
           /\ pending' = PopPending(n)
    /\ UNCHANGED <<cq, cpc, cmtx, jobs, stop>>

-----------------------------------------------------------------------------
(* stop()                                                                   *)

\* The shutdown request is put; whether that worked is ignored.
StopPut ==
    /\ stop = "running"
    /\ stop' = "joining"
    /\ \E ok \in BOOLEAN : PutSq(Nop, ok)
    /\ UNCHANGED <<cq, tpc, cpc, cmtx, jobs>>

StopJoin ==
    /\ stop = "joining" /\ tpc = "exited"
    /\ stop' = "stopped"
    /\ UNCHANGED <<ringVars, tpc, cpc, cmtx, jobs>>

Coroutine(c) == Suspend(c) \/ Put(c) \/ Suspended(c) \/ Resume(c)

Thread ==
    \/ WaitCqe \/ Shutdown \/ LockAwaiter \/ PostResume
    \/ CqeSeen \/ PeekCqe \/ Drain

Next ==
    \/ \E c \in Coros : Coroutine(c)
    \/ \E e \in Entries : Complete(e)
    \/ Thread
    \/ StopPut \/ StopJoin

Spec == Init /\ [][Next]_vars

\* Threads are scheduled, the kernel completes what it has accepted; nobody
\* has to start an operation or to stop the reactor.
Fairness ==
    /\ \A c \in Coros :
        WF_vars(Put(c)) /\ WF_vars(Suspended(c)) /\ WF_vars(Resume(c))
    /\ \A e \in Entries : WF_vars(Complete(e))
    /\ WF_vars(Thread) /\ WF_vars(StopJoin)

FairSpec == Spec /\ Fairness

-----------------------------------------------------------------------------
(* Properties.                                                              *)

TypeOK ==
    /\ pending \in Seq(Entries) /\ sq \in Seq(Entries) /\ cq \in Seq(Entries)
    /\ kernel \in [Entries -> Nat]
    /\ Len(sq) <= SqSize
    /\ tpc \in {"wait", "handle", "post", "seen", "peek", "drain", "exited"}
    /\ cpc \in [Coros -> {"idle", "locked", "put", "failed", "waiting"}]
    /\ cmtx \in [Coros -> BOOLEAN]
    /\ jobs \in [Coros -> Nat]
    /\ stop \in {"running", "joining", "stopped"}

\* A completion whose job has been posted stays in cq until it is marked seen.
Handled(c) == IF tpc = "seen" /\ Head(cq) = c THEN 1 ELSE 0

\* The request of a suspended coroutine is at exactly one place on its way
\* through _pending, the rings, the kernel and the executor (_put_sq and
\* io_uring_thread_fn), and a coroutine that is not suspended has none: nothing
\* is lost, submitted twice or answered twice.
RequestConserved ==
    \A c \in Coros :
        Occurrences(pending, c) + Occurrences(sq, c) + kernel[c]
            + Occurrences(cq, c) - Handled(c) + jobs[c]
        = IF cpc[c] \in {"put", "waiting"} THEN 1 ELSE 0

\* The completion the thread takes from the ring points to an awaiter that
\* still exists and has not been answered (the cast of user_data in
\* io_uring_thread_fn): the coroutine is in its co_await and no job resumes it.
AwaiterIsLive ==
    tpc = "handle" /\ Head(cq) # Nop =>
        cpc[Head(cq)] \in {"put", "failed", "waiting"} /\ jobs[Head(cq)] = 0

\* While the thread holds the awaiter's mutex the coroutine does not get past
\* await_resume, where the awaiter and the mutex are destroyed.
MutexOutlivesHolder ==
    tpc \in {"post", "seen"} => cpc[Head(cq)] = "waiting" /\ cmtx[Head(cq)]

\* The thread never sleeps in io_uring_wait_cqe over requests that only it can
\* submit: when nothing is in the kernel and nothing has completed, the ring
\* and _pending are empty, whatever was refused with -EBUSY or taken in part.
NothingStranded ==
    tpc = "wait" /\ cq = <<>> /\ (\A e \in Entries : kernel[e] = 0) =>
        sq = <<>> /\ pending = <<>>

\* No request is lost, doubled, left lying or completed into an awaiter that is
\* gone, on its way from _put_sq to the executor: all of the above.
RequestSafe == TypeOK /\ RequestConserved /\ AwaiterIsLive /\ NothingStranded

\* The thread empties the completion queue again and again, so that its loop
\* over completions (do ... while of io_uring_thread_fn) ends.
CompletionsPause == []<>(tpc \in {"drain", "wait"})

\* A suspended coroutine is resumed in the end, unless the reactor is stopped,
\* however its request got into the ring; only an endless stream of completions,
\* which keeps the thread from submitting _pending, can delay it for ever.
RequestAnswered ==
    CompletionsPause =>
        \A c \in Coros : cpc[c] = "put" ~> cpc[c] = "idle" \/ stop # "running"

\* stop() returns, also when its request finds the ring full.
StopReturns == stop = "joining" ~> stop = "stopped"
=============================================================================
