-------------------------- MODULE TaskAwaitProofs ---------------------------
(***************************************************************************)
(* A chain of awaiting tasks behaves like a stack of calls, for every      *)
(* depth, every set of threads and both coroutine implementations.         *)
(***************************************************************************)
EXTENDS TaskAwait, TLAPS

\* Every caller of an existing frame is suspended in it.
StackInv ==
    \A i, j \in Levels : frame[i] # "none" /\ j < i => frame[j] = "live"

\* A body runs only on the innermost level, on one thread, and not while the
\* innermost task waits for its job.
RunInv ==
    /\ \A i \in Levels, t \in Threads : t \in run[i] =>
          /\ frame[i] = "live"
          /\ \A j \in Levels : j > i => frame[j] = "none"
          /\ \A u \in Threads : u \in run[i] => u = t
    /\ job => frame[N] = "live" /\ run[N] = {}

\* The protocol on promise.ready: before both swaps the callee is live and
\* its await_suspend has not returned; after both exactly one of the two
\* parties is left to continue the caller.
ReadyInv ==
    \A i \in Callees :
        /\ frame[i] = "none" => inAwait[i] = None /\ inFinal[i] = None
        /\ frame[i] = "live" =>
              /\ inFinal[i] = None
              /\ ~StdCoroutines => (ready[i] <=> inAwait[i] = None)
        /\ frame[i] = "done" =>
              /\ ready[i]
              /\ inAwait[i] = None <=> inFinal[i] # None
        /\ StdCoroutines => inAwait[i] = None

IndInv == TypeOK /\ StackInv /\ RunInv /\ ReadyInv

-----------------------------------------------------------------------------
\* Facts about the levels of a chain.
LEMMA LevelFacts ==
    /\ 0 \in Levels /\ N \in Levels
    /\ \A i \in Callees : i \in Levels /\ i - 1 \in Levels /\ i - 1 < i /\ i # 0
    /\ \A i \in Levels : i < N => i + 1 \in Levels /\ i + 1 \in Callees
    /\ \A i \in Levels : i # 0 => i \in Callees
    /\ Levels \subseteq Int
  BY ChainAssumption DEF Levels, Callees

\* The initial state: no task exists.
LEMMA InitInv == Init => IndInv
<1> SUFFICES ASSUME Init PROVE IndInv
  OBVIOUS
<1>1. TypeOK
  BY DEF Init, TypeOK
<1>2. StackInv /\ RunInv
  BY LevelFacts DEF Init, StackInv, RunInv
<1>3. ReadyInv
  BY LevelFacts DEF Init, ReadyInv
<1> QED BY <1>1, <1>2, <1>3 DEF IndInv

\* wait() and co_detach() start the chain on one thread.
LEMMA StartInv ==
    ASSUME IndInv, NEW t \in Threads, Start(t)
    PROVE  IndInv'
<1> USE LevelFacts DEF IndInv, Start
<1>1. TypeOK'
  BY DEF TypeOK
<1>2. StackInv'
  BY DEF StackInv, TypeOK, Levels
<1>3. RunInv'
  BY ChainAssumption DEF RunInv, TypeOK, Levels
<1>4. ReadyInv'
  BY DEF ReadyInv, TypeOK
<1> QED BY <1>1, <1>2, <1>3, <1>4

\* The outermost task is destroyed when it is done.
LEMMA ReapInv ==
    ASSUME IndInv, Reap
    PROVE  IndInv'
<1> USE LevelFacts DEF IndInv, Reap
<1>1. TypeOK'
  BY DEF TypeOK
<1>2. \A j \in Levels : j > 0 => frame[j] = "none"
  BY DEF StackInv, TypeOK
<1>3. StackInv'
  BY <1>2 DEF StackInv, TypeOK, Levels
<1>4. RunInv'
  BY <1>2, ChainAssumption DEF RunInv, TypeOK, Levels
<1>5. ReadyInv'
  BY DEF ReadyInv, TypeOK
<1> QED BY <1>1, <1>3, <1>4, <1>5

\* A call: the caller stops running, its callee starts on the same thread.
LEMMA CallInv ==
    ASSUME IndInv, NEW t \in Threads, NEW i \in Levels, Call(t, i)
    PROVE  IndInv'
<1>0. /\ i < N /\ t \in run[i] /\ i + 1 \in Callees /\ i + 1 \in Levels
      /\ frame[i] = "live" /\ \A j \in Levels : j > i => frame[j] = "none"
      /\ \A u \in Threads : u \in run[i] => u = t
      /\ i \in Int /\ i + 1 > i
  BY LevelFacts DEF IndInv, RunInv, Call
<1>1. TypeOK'
  BY <1>0 DEF IndInv, TypeOK, Call
<1>2. StackInv'
  <2> SUFFICES ASSUME NEW k \in Levels, NEW j \in Levels,
                      frame'[k] # "none", j < k
               PROVE  frame'[j] = "live"
    BY DEF StackInv
  <2>1. CASE k = i + 1
    <3>1. j = i \/ j < i
      BY <2>1, LevelFacts
    <3>2. frame[j] = "live"
      BY <1>0, <3>1 DEF IndInv, StackInv
    <3> QED BY <1>0, <2>1, <3>2 DEF Call, IndInv, TypeOK
  <2>2. CASE k # i + 1
    <3>1. frame[k] # "none"
      BY <2>2 DEF Call, IndInv, TypeOK
    <3>2. frame[j] = "live"
      BY <3>1 DEF IndInv, StackInv
    <3> QED BY <3>2 DEF Call, IndInv, TypeOK
  <2> QED BY <2>1, <2>2
<1>3. RunInv'
  <2>1. \A k \in Levels : run[k] # {} => k = i
    <3> SUFFICES ASSUME NEW k \in Levels, NEW u \in Threads, u \in run[k]
                 PROVE  k = i
      BY DEF IndInv, TypeOK
    <3>1. frame[k] = "live" /\ \A j \in Levels : j > k => frame[j] = "none"
      BY DEF IndInv, RunInv
    <3> QED BY <1>0, <3>1, LevelFacts
  <2>2. run'[i] = {} /\ run'[i + 1] = {t}
        /\ \A k \in Levels : k # i + 1 => run'[k] = {}
    BY <1>0, <2>1 DEF Call, IndInv, TypeOK
  <2>3. ~job
    BY <1>0, LevelFacts DEF IndInv, RunInv
  <2>4. /\ frame'[i + 1] = "live" /\ job' = job
        /\ \A j \in Levels : j > i + 1 => frame'[j] = "none"
    BY <1>0, LevelFacts DEF Call, IndInv, TypeOK
  <2> QED BY <2>2, <2>3, <2>4 DEF RunInv
<1>4. ReadyInv'
  BY <1>0, ChainAssumption DEF ReadyInv, IndInv, TypeOK, Call
<1> QED BY <1>1, <1>2, <1>3, <1>4 DEF IndInv

\* The innermost task suspends, and its job runs on some thread.
LEMMA JobInv ==
    ASSUME IndInv, NEW t \in Threads, Suspend(t) \/ RunJob(t)
    PROVE  IndInv'
<1>1. TypeOK'
  <2>1. run' \in [Levels -> SUBSET Threads]
    BY LevelFacts DEF IndInv, TypeOK, Suspend, RunJob
  <2>2. job' \in BOOLEAN /\ UNCHANGED <<frame, ready, inAwait, inFinal>>
    BY DEF Suspend, RunJob
  <2> QED BY <2>1, <2>2 DEF IndInv, TypeOK
<1>2. StackInv' /\ ReadyInv'
  BY DEF IndInv, StackInv, ReadyInv, Suspend, RunJob
<1>3. RunInv'
  <2>1. CASE Suspend(t)
    BY <2>1, LevelFacts DEF IndInv, RunInv, TypeOK, Suspend
  <2>2. CASE RunJob(t)
    <3>1. run[N] = {} /\ frame[N] = "live" /\ frame' = frame /\ ~job'
      BY <2>2 DEF IndInv, RunInv, RunJob
    <3>2. run'[N] = {t} /\ \A k \in Levels : k # N => run'[k] = run[k]
      BY <2>2, <3>1, LevelFacts DEF IndInv, TypeOK, RunJob
    <3>3. \A j \in Levels : ~(j > N)
      BY ChainAssumption DEF Levels
    <3> QED BY <3>1, <3>2, <3>3 DEF IndInv, RunInv
  <2> QED BY <2>1, <2>2
<1> QED BY <1>1, <1>2, <1>3 DEF IndInv

\* A body ends; the final_awaiter swaps ready.
LEMMA ReturnInv ==
    ASSUME IndInv, NEW t \in Threads, NEW i \in Levels, Return(t, i)
    PROVE  IndInv'
<1>0. /\ t \in run[i] /\ frame[i] = "live" /\ i \in Int
      /\ \A j \in Levels : j > i => frame[j] = "none"
      /\ \A u \in Threads : u \in run[i] => u = t
  BY LevelFacts DEF IndInv, RunInv, Return
<1>1. TypeOK'
  BY DEF IndInv, TypeOK, Return
<1>2. frame'[i] = "done" /\ \A j \in Levels : j # i => frame'[j] = frame[j]
  BY DEF IndInv, TypeOK, Return
<1>3. StackInv'
  <2> SUFFICES ASSUME NEW k \in Levels, NEW j \in Levels,
                      frame'[k] # "none", j < k
               PROVE  frame'[j] = "live"
    BY DEF StackInv
  <2>1. frame[k] # "none"
    BY <1>0, <1>2
  <2>2. frame[j] = "live" /\ j # i
    BY <1>0, <2>1, LevelFacts DEF IndInv, StackInv
  <2> QED BY <1>2, <2>2
<1>4. RunInv'
  <2>1. run'[i] = {} /\ \A k \in Levels : k # i => run'[k] = run[k]
    BY <1>0 DEF IndInv, TypeOK, Return
  <2>2. ~job /\ ~job'
    <3>1. i = N => ~job
      BY <1>0 DEF IndInv, RunInv
    <3>2. i # N => frame[N] = "none"
      BY <1>0, LevelFacts, ChainAssumption DEF Levels
    <3> QED BY <3>1, <3>2 DEF IndInv, RunInv, Return
  <2>3. \A k \in Levels : k # i => run[k] = {}
    <3> SUFFICES ASSUME NEW k \in Levels, NEW u \in Threads, u \in run[k]
                 PROVE  k = i
      BY DEF IndInv, TypeOK
    <3>1. frame[k] = "live" /\ \A j \in Levels : j > k => frame[j] = "none"
      BY DEF IndInv, RunInv
    <3> QED BY <1>0, <3>1, LevelFacts
  <2> QED BY <2>1, <2>2, <2>3 DEF RunInv
<1>5. ReadyInv'
  <2> SUFFICES ASSUME NEW k \in Callees
               PROVE  /\ frame'[k] = "none" =>
                            inAwait'[k] = None /\ inFinal'[k] = None
                      /\ frame'[k] = "live" =>
                            /\ inFinal'[k] = None
                            /\ ~StdCoroutines => (ready'[k] <=> inAwait'[k] = None)
                      /\ frame'[k] = "done" =>
                            /\ ready'[k]
                            /\ inAwait'[k] = None <=> inFinal'[k] # None
                      /\ StdCoroutines => inAwait'[k] = None
    BY DEF ReadyInv
  <2>1. CASE k = i
    <3>1. ready'[k] /\ inAwait'[k] = inAwait[k]
      BY <2>1 DEF Return
    <3>2. inFinal'[k] = IF FinalResumes(i) THEN t ELSE inFinal[k]
      BY <2>1 DEF Return
    <3>3. t # None
      BY ChainAssumption
    <3> QED BY <1>0, <1>2, <2>1, <3>1, <3>2, <3>3 DEF IndInv, ReadyInv, FinalResumes
  <2>2. CASE k # i
    BY <1>2, <2>2, LevelFacts DEF Return, IndInv, ReadyInv, TypeOK
  <2> QED BY <2>1, <2>2
<1> QED BY <1>1, <1>3, <1>4, <1>5 DEF IndInv

\* Whoever swapped last continues the caller and destroys the callee.
LEMMA ContinueInv ==
    ASSUME IndInv, NEW t \in Threads, NEW i \in Callees,
           frame[i] = "done", ContinueCaller(t, i), UNCHANGED job
    PROVE  StackInv' /\ RunInv'
<1>0. /\ i \in Levels /\ i - 1 \in Levels /\ i \in Int
      /\ frame[i - 1] = "live" /\ \A j \in Levels : j > i => frame[j] = "none"
  BY LevelFacts DEF IndInv, StackInv, TypeOK
<1>1. frame'[i] = "none" /\ \A j \in Levels : j # i => frame'[j] = frame[j]
  BY <1>0 DEF ContinueCaller, IndInv, TypeOK
<1>2. \A k \in Levels : run[k] = {}
  <2> SUFFICES ASSUME NEW k \in Levels, NEW u \in Threads, u \in run[k]
               PROVE  FALSE
    BY DEF IndInv, TypeOK
  <2>1. frame[k] = "live" /\ \A j \in Levels : j > k => frame[j] = "none"
    BY DEF IndInv, RunInv
  <2> QED BY <1>0, <2>1, LevelFacts
<1>3. run'[i - 1] = {t} /\ \A k \in Levels : k # i - 1 => run'[k] = {}
  BY <1>0, <1>2 DEF ContinueCaller, IndInv, TypeOK
<1>4. ~job /\ ~job'
  <2>1. N \in Levels /\ (N = i \/ N > i)
    BY LevelFacts, ChainAssumption DEF Callees
  <2> QED BY <1>0, <2>1 DEF IndInv, RunInv
<1>5. \A j \in Levels : j > i - 1 => j = i \/ j > i
  BY <1>0, LevelFacts
<1>6. RunInv'
  BY <1>0, <1>1, <1>3, <1>4, <1>5 DEF RunInv
<1>7. StackInv'
  <2> SUFFICES ASSUME NEW k \in Levels, NEW j \in Levels,
                      frame'[k] # "none", j < k
               PROVE  frame'[j] = "live"
    BY DEF StackInv
  <2>1. k # i /\ frame[k] # "none" /\ j # i
    BY <1>0, <1>1, LevelFacts
  <2> QED BY <1>1, <2>1 DEF IndInv, StackInv
<1> QED BY <1>6, <1>7

\* previous.resume() and the symmetric transfer.
LEMMA ResumePreviousInv ==
    ASSUME IndInv, NEW t \in Threads, NEW i \in Callees, ResumePrevious(t, i)
    PROVE  IndInv' /\ frame[i] = "done"
<1>1. frame[i] = "done" /\ inAwait[i] = None
  BY ChainAssumption, LevelFacts DEF IndInv, ReadyInv, TypeOK, ResumePrevious
<1>2. TypeOK'
  BY LevelFacts DEF IndInv, TypeOK, ResumePrevious, ContinueCaller
<1>3. StackInv' /\ RunInv'
  BY <1>1, ContinueInv DEF ResumePrevious
<1>4. ReadyInv'
  BY <1>1, LevelFacts DEF IndInv, TypeOK, ReadyInv, ResumePrevious, ContinueCaller
<1> QED BY <1>1, <1>2, <1>3, <1>4 DEF IndInv

\* await_suspend swaps ready after its callee returned to it.
LEMMA AwaitReturnsInv ==
    ASSUME IndInv, NEW t \in Threads, NEW i \in Callees, AwaitReturns(t, i)
    PROVE  IndInv' /\ (ready[i] => frame[i] = "done")
<1>1. inAwait[i] # None /\ ~StdCoroutines /\ i \in Levels
  BY ChainAssumption, LevelFacts
  DEF IndInv, ReadyInv, TypeOK, AwaitReturns, OnTop
<1>2. TypeOK'
  BY LevelFacts DEF IndInv, TypeOK, AwaitReturns, ContinueCaller
<1>3. CASE ready[i]
  <2>1. frame[i] = "done" /\ inFinal[i] = None
    BY <1>1, <1>3 DEF IndInv, ReadyInv, TypeOK
  <2>2. ContinueCaller(t, i) /\ UNCHANGED job
    BY <1>3 DEF AwaitReturns, AwaitContinues
  <2>3. StackInv' /\ RunInv'
    BY <2>1, <2>2, ContinueInv
  <2>4. ReadyInv'
    BY <1>1, <2>1, <2>2, LevelFacts
    DEF IndInv, TypeOK, ReadyInv, AwaitReturns, ContinueCaller
  <2> QED BY <1>2, <2>1, <2>3, <2>4 DEF IndInv
<1>4. CASE ~ready[i]
  <2>1. frame[i] = "live"
    BY <1>1, <1>4 DEF IndInv, ReadyInv, TypeOK
  <2>2. UNCHANGED <<frame, run, job, inFinal>>
    BY <1>4 DEF AwaitReturns, AwaitContinues
  <2>3. StackInv' /\ RunInv'
    BY <2>2 DEF IndInv, StackInv, RunInv
  <2>4. ReadyInv'
    BY <1>1, <2>1, <2>2 DEF IndInv, TypeOK, ReadyInv, AwaitReturns
  <2> QED BY <1>2, <1>4, <2>3, <2>4 DEF IndInv
<1> QED BY <1>3, <1>4

\* Every step preserves the invariant.
LEMMA NextInv == IndInv /\ [Next]_vars => IndInv'
<1> SUFFICES ASSUME IndInv, [Next]_vars PROVE IndInv'
  OBVIOUS
<1>1. CASE UNCHANGED vars
  BY <1>1 DEF vars, IndInv, TypeOK, StackInv, RunInv, ReadyInv
<1>2. CASE Next
  BY <1>2, StartInv, ReapInv, CallInv, JobInv, ReturnInv, ResumePreviousInv,
     AwaitReturnsInv DEF Next, ThreadStep
<1> QED BY <1>1, <1>2

\* IndInv is an invariant of the chain.
THEOREM Invariance == Spec => []IndInv
  BY InitInv, NextInv, PTL DEF Spec

\* The promise of each task keeps its type.
THEOREM TypeCorrect == Spec => []TypeOK
<1>1. IndInv => TypeOK
  BY DEF IndInv
<1> QED BY <1>1, Invariance, PTL

\* A chain of tasks is executed by one thread at a time, whichever threads
\* resume it and however the swaps of promise.ready interleave.
THEOREM OneActivity == Spec => []SingleActivity
<1>1. IndInv => SingleActivity
  <2> SUFFICES ASSUME IndInv PROVE SingleActivity
    OBVIOUS
  <2>1. ASSUME NEW i \in Levels, NEW j \in Levels, NEW t \in Threads,
               NEW u \in Threads, t \in run[i], u \in run[j]
        PROVE  t = u /\ i = j
    BY <2>1, LevelFacts DEF IndInv, RunInv
  <2>2. ASSUME job, NEW i \in Levels PROVE run[i] = {}
    <3>1. i = N \/ N > i
      BY ChainAssumption DEF Levels
    <3> QED BY <2>2, <3>1, LevelFacts DEF IndInv, RunInv, TypeOK
  <2> QED BY <2>1, <2>2 DEF SingleActivity
<1> QED BY <1>1, Invariance, PTL

\* No promise is used after its frame was destroyed.
THEOREM PromisesLive == Spec => []NoUseAfterDestroy
<1>1. IndInv => NoUseAfterDestroy
  BY LevelFacts DEF IndInv, NoUseAfterDestroy, ReadyInv, RunInv, TypeOK
<1> QED BY <1>1, Invariance, PTL

\* A chain of awaiting tasks implements a stack of calls.
THEOREM Refinement == Spec => ImplementsCalls
<1>1. Init => Calls!Init
  BY DEF Init, Calls!Init, Levels, Calls!Levels
<1>2. IndInv /\ [Next]_vars => [Calls!Next]_frame
  <2> SUFFICES ASSUME IndInv, [Next]_vars, frame' # frame
               PROVE  Calls!Next
    OBVIOUS
  <2> USE DEF Levels, Calls!Levels
  <2>1. ASSUME NEW t \in Threads, Start(t) PROVE Calls!Next
    BY <2>1 DEF Start, Calls!Next, Calls!Enter
  <2>2. CASE Reap
    BY <2>2, LevelFacts DEF Reap, Calls!Next, Calls!Continue
  <2>3. ASSUME NEW t \in Threads, NEW i \in Levels, Call(t, i) PROVE Calls!Next
    BY <2>3 DEF Call, IndInv, RunInv, Calls!Next, Calls!Call, Calls!Innermost
  <2>4. ASSUME NEW t \in Threads, NEW i \in Levels, Return(t, i) PROVE Calls!Next
    BY <2>4 DEF Return, IndInv, RunInv, Calls!Next, Calls!Return, Calls!Innermost
  <2>5. ASSUME NEW t \in Threads, NEW i \in Callees, ResumePrevious(t, i)
        PROVE Calls!Next
    BY <2>5, ResumePreviousInv, LevelFacts
    DEF ResumePrevious, ContinueCaller, Calls!Next, Calls!Continue
  <2>6. ASSUME NEW t \in Threads, NEW i \in Callees, AwaitReturns(t, i)
        PROVE Calls!Next
    BY <2>6, AwaitReturnsInv, LevelFacts
    DEF AwaitReturns, AwaitContinues, ContinueCaller, Calls!Next, Calls!Continue
  <2>7. ASSUME NEW t \in Threads, Suspend(t) \/ RunJob(t) PROVE Calls!Next
    BY <2>7 DEF Suspend, RunJob
  <2> QED
    BY <2>1, <2>2, <2>3, <2>4, <2>5, <2>6, <2>7 DEF Next, ThreadStep, vars
<1> QED BY <1>1, <1>2, Invariance, PTL DEF Spec, ImplementsCalls, Calls!Spec

\* One thread in the chain, and no frame used after it is destroyed.
THEOREM FramesAreSafe == Spec => []FramesSafe
BY TypeCorrect, OneActivity, PromisesLive, PTL DEF FramesSafe
=============================================================================
