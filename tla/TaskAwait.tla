----------------------------- MODULE TaskAwait ------------------------------
(***************************************************************************)
(* co_await of sk::task (task.hxx): a chain of coroutines, level i + 1     *)
(* awaited by level i, whose innermost task does I/O and is resumed by any *)
(* thread of its executor.                                                 *)
(*                                                                         *)
(* With standard coroutines the callee and the caller are resumed by       *)
(* symmetric transfer.  Without them (the coroutines TS) await_suspend     *)
(* calls the callee and, when that returns, swaps promise.ready, as the    *)
(* callee's final_awaiter does: whoever comes second continues the caller. *)
(*                                                                         *)
(* A thread's call stack holds its await_suspend calls, outermost first,   *)
(* with increasing levels; what it executes now is on top of them.  A      *)
(* thread takes work from the executor only when its stack is empty.       *)
(***************************************************************************)
EXTENDS Integers, FiniteSets

CONSTANTS
    N,              \* depth of the chain; level 0 is the outermost task
    Threads,        \* threads that run the executor
    None,           \* no thread
    StdCoroutines   \* SK_HAS_STD_COROUTINES

ASSUME ChainAssumption ==
    /\ N \in Nat \ {0}
    /\ None \notin Threads
    /\ StdCoroutines \in BOOLEAN

Levels == 0 .. N
Callees == 1 .. N

VARIABLES
    frame,      \* coroutine frame of each level: "none", "live", "done"
    ready,      \* promise.ready
    run,        \* threads executing the body of each level
    inAwait,    \* the thread inside task::await_suspend for a callee (TS)
    inFinal,    \* the thread about to resume promise.previous of a callee
    job         \* the innermost task is suspended and its resumption posted

vars == <<frame, ready, run, inAwait, inFinal, job>>

Busy(t) ==
    \/ \E i \in Levels : t \in run[i]
    \/ \E i \in Callees : inAwait[i] = t \/ inFinal[i] = t

Init ==
    /\ frame = [i \in Levels |-> "none"]
    /\ ready = [i \in Callees |-> FALSE]
    /\ run = [i \in Levels |-> {}]
    /\ inAwait = [i \in Callees |-> None]
    /\ inFinal = [i \in Callees |-> None]
    /\ job = FALSE

\* wait() or co_detach() starts the outermost task, and reaps it at the end.
Start(t) ==
    /\ ~Busy(t)
    /\ \A i \in Levels : frame[i] = "none"
    /\ frame' = [frame EXCEPT ![0] = "live"]
    /\ run' = [run EXCEPT ![0] = {t}]
    /\ UNCHANGED <<ready, inAwait, inFinal, job>>

Reap ==
    /\ frame[0] = "done"
    /\ frame' = [frame EXCEPT ![0] = "none"]
    /\ UNCHANGED <<ready, run, inAwait, inFinal, job>>

\* co_await: the callee's frame is created and resumed on this thread.
Call(t, i) ==
    /\ t \in run[i] /\ i < N
    /\ frame' = [frame EXCEPT ![i + 1] = "live"]
    /\ ready' = [ready EXCEPT ![i + 1] = FALSE]
    /\ run' = [run EXCEPT ![i] = @ \ {t}, ![i + 1] = @ \cup {t}]
    /\ inAwait' = IF StdCoroutines THEN inAwait ELSE [inAwait EXCEPT ![i + 1] = t]
    /\ UNCHANGED <<inFinal, job>>

\* Mutant: await_suspend returns false although the resumption is posted.
SuspendRunningOn(t) ==
    /\ t \in run[N]
    /\ job' = TRUE
    /\ UNCHANGED <<frame, ready, run, inAwait, inFinal>>

\* The innermost task suspends; its resumption may be posted at once, before
\* this thread has unwound its await_suspend calls.
Suspend(t) ==
    /\ t \in run[N]
    /\ run' = [run EXCEPT ![N] = @ \ {t}]
    /\ job' = TRUE
    /\ UNCHANGED <<frame, ready, inAwait, inFinal>>

RunJob(t) ==
    /\ job /\ ~Busy(t)
    /\ job' = FALSE
    /\ run' = [run EXCEPT ![N] = @ \cup {t}]
    /\ UNCHANGED <<frame, ready, inAwait, inFinal>>

\* Mutant: the final_awaiter ignores promise.ready.
FinalAlwaysResumes(i) == TRUE
\* final_awaiter::await_suspend: is the caller resumed from here?
FinalResumes(i) == StdCoroutines \/ ready[i]

\* The body of level i is finished; the outermost task has no previous.
Return(t, i) ==
    /\ t \in run[i]
    /\ frame' = [frame EXCEPT ![i] = "done"]
    /\ run' = [run EXCEPT ![i] = @ \ {t}]
    /\ ready' = [k \in Callees |-> k = i \/ ready[k]]
    /\ inFinal' = [k \in Callees |->
                      IF k = i /\ FinalResumes(i) THEN t ELSE inFinal[k]]
    /\ UNCHANGED <<inAwait, job>>

\* Level i - 1 goes on: await_resume reads the result, ~task destroys the
\* callee's frame.
ContinueCaller(t, i) ==
    /\ frame' = [frame EXCEPT ![i] = "none"]
    /\ run' = [run EXCEPT ![i - 1] = @ \cup {t}]

\* promise.previous.resume(), or the symmetric transfer to it.
ResumePrevious(t, i) ==
    /\ inFinal[i] = t
    /\ inFinal' = [inFinal EXCEPT ![i] = None]
    /\ ContinueCaller(t, i)
    /\ UNCHANGED <<ready, inAwait, job>>

\* Mutant: await_suspend always returns true.
AwaitNeverContinues(i) == FALSE
\* await_suspend returns !ready.exchange(true).
AwaitContinues(i) == ready[i]

\* The stack above t's await_suspend for level i is unwound.
OnTop(t, i) ==
    /\ inAwait[i] = t
    /\ \A k \in Levels : t \notin run[k]
    /\ \A k \in Callees : inFinal[k] # t /\ (inAwait[k] = t => k <= i)

\* coro_handle.resume() has returned to await_suspend, which swaps ready.
AwaitReturns(t, i) ==
    /\ OnTop(t, i)
    /\ ready' = [ready EXCEPT ![i] = TRUE]
    /\ inAwait' = [inAwait EXCEPT ![i] = None]
    /\ IF AwaitContinues(i) THEN ContinueCaller(t, i) ELSE UNCHANGED <<frame, run>>
    /\ UNCHANGED <<inFinal, job>>

ThreadStep(t) ==
    \/ Start(t) \/ Suspend(t) \/ RunJob(t)
    \/ \E i \in Levels : Call(t, i) \/ Return(t, i)
    \/ \E i \in Callees : ResumePrevious(t, i) \/ AwaitReturns(t, i)

Next == Reap \/ \E t \in Threads : ThreadStep(t)

Spec == Init /\ [][Next]_vars

\* A thread inside await_suspend or a final_awaiter goes on.  Nothing is
\* assumed of the bodies: they may suspend or call for ever.
Fairness ==
    \A t \in Threads : \A i \in Callees :
        WF_vars(ResumePrevious(t, i)) /\ WF_vars(AwaitReturns(t, i))

FairSpec == Spec /\ Fairness
-----------------------------------------------------------------------------
\* Every variable has its type (task::promise_type, task::final_awaiter).
TypeOK ==
    /\ frame \in [Levels -> {"none", "live", "done"}]
    /\ ready \in [Callees -> BOOLEAN]
    /\ run \in [Levels -> SUBSET Threads]
    /\ inAwait \in [Callees -> Threads \cup {None}]
    /\ inFinal \in [Callees -> Threads \cup {None}]
    /\ job \in BOOLEAN

\* A chain of awaiting tasks is a stack of calls.
Calls == INSTANCE CallStack
ImplementsCalls == Calls!Spec

\* One thread at a time executes the chain: no body runs on two threads, and
\* no two levels run at once, nor while the innermost task's job is pending.
SingleActivity ==
    /\ \A i, j \in Levels, t, u \in Threads :
          t \in run[i] /\ u \in run[j] => t = u /\ i = j
    /\ job => \A i \in Levels : run[i] = {}

\* A promise is used only while its frame exists: by await_suspend after the
\* callee returned to it, by the final_awaiter after the swap, by the body.
NoUseAfterDestroy ==
    /\ \A i \in Callees : inAwait[i] # None \/ inFinal[i] # None => frame[i] # "none"
    /\ \A i \in Levels : run[i] # {} => frame[i] = "live"

\* Both sides of the handshake over promise.ready leave one thread in the chain
\* and touch no frame that the other has destroyed.
FramesSafe == TypeOK /\ SingleActivity /\ NoUseAfterDestroy

\* The caller of a finished task goes on, whoever lost the race.
CallerContinues == \A i \in Callees : frame[i] = "done" ~> frame[i] = "none"
=============================================================================
