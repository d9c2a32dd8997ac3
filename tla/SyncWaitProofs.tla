--------------------------- MODULE SyncWaitProofs ---------------------------
(***************************************************************************)
(* Proofs about SyncWait: for any threads, coroutines and numbers of       *)
(* async_invokes, whatever executor co_detach is given, async_invoke lets  *)
(* its coroutine go on safely, and wait() does not take its executor away  *)
(* from the task it waits for.                                             *)
(*                                                                         *)
(* The argument: a coroutine is in a queue at most once, and only while it *)
(* is suspended and its thread has posted (QueueInv); so TakeJob finds it  *)
(* on no stack but that of the thread still inside await_suspend, which    *)
(* holds the mutex (StackInv).  A suspended coroutine that nobody holds    *)
(* the mutex of has its future (AwaitInv).  run() ends with the task, and  *)
(* a task that is done has nothing under way (WorkInv, WaiterInv).  The    *)
(* other way out of wait() is an exception, and only a detached coroutine  *)
(* that run() resumed, so one with the executor of this wait(), can send   *)
(* it there (RootInv, ThrewInv).                                           *)
(***************************************************************************)
EXTENDS SyncWait, SequenceTheorems, TLAPS

Has(s, e) == \E i \in DOMAIN s : s[i] = e
First(s, e) == s # <<>> /\ Head(s) = e
Once(s) == \A i, j \in DOMAIN s : i # j => s[i] # s[j]

\* The thread of an async_invoke and the coroutine it works for.
WorkInv(c) ==
    /\ worker[c] \in {"calling", "post", "threw"} => st[c] = "suspended"
    /\ st[c] \in {"none", "running", "done", "threw"} => worker[c] = "none"
    /\ st[c] \in {"job", "get"} => worker[c] \in {"return", "ready"}

\* The mutex and the future of the awaiter.
AwaitInv(c) ==
    /\ mtx[c] # Nobody => st[c] \in {"suspended", "job"}
    /\ mtx[c] = Nobody /\ st[c] \in {"suspended", "job", "get"} => fut[c]

\* wait() and its task.
WaiterInv(w) ==
    /\ wpc[w] = "out" => st[w] = "none"
    /\ wpc[w] = "returned" => st[w] = "done"
    /\ wpc[w] # "run" => stack[w] = <<>>
    /\ st[w] # "none" => owner[w] = w

\* A job belongs to a suspended coroutine, which has posted it to its executor
\* and has no other.
QueueInv(x) ==
    /\ \A c \in Coros : Has(queue[x], c) =>
          st[c] = "suspended" /\ worker[c] \in {"return", "ready"} /\ owner[c] = x
    /\ Once(queue[x])

\* A thread inside await_suspend executes that coroutine; the others on a stack
\* are running, except that the first may be on its way through await_resume.
StackInv(t) ==
    /\ \A c \in Coros : mtx[c] = t => First(stack[t], c)
    /\ \A c \in Coros : Has(stack[t], c) =>
          \/ st[c] = "running"
          \/ First(stack[t], c) /\ (mtx[c] = t \/ st[c] \in {"job", "get"})
    /\ Once(stack[t])

\* Two threads meet in a coroutine only at the awaiter's mutex.
MeetInv(c) ==
    \A t, u \in Threads :
        t # u /\ Has(stack[t], c) /\ Has(stack[u], c) => st[c] = "job" /\ mtx[c] \in {t, u}

IndInv ==
    /\ TypeOK
    /\ \A c \in Coros : WorkInv(c) /\ AwaitInv(c) /\ MeetInv(c)
    /\ \A w \in Waiters : WaiterInv(w)
    /\ \A x \in Executors : QueueInv(x)
    /\ \A t \in Threads : StackInv(t)

-----------------------------------------------------------------------------
(* Queues and stacks without repetitions.                                   *)

\* None, and one.
LEMMA EmptyHas == Once(<<>>) /\ \A e : ~Has(<<>>, e)
BY DEF Has, Once

LEMMA SingleHas ==
    ASSUME NEW S, NEW d \in S
    PROVE  Once(<<d>>) /\ Head(<<d>>) = d /\ <<d>> # <<>> /\ \A e : Has(<<d>>, e) <=> e = d
BY DEF Has, Once

\* The first is taken away.
LEMMA TailHas ==
    ASSUME NEW S, NEW s \in Seq(S), s # <<>>, Once(s)
    PROVE  /\ Tail(s) \in Seq(S) /\ Head(s) \in S /\ Has(s, Head(s))
           /\ Once(Tail(s))
           /\ \A e : Has(Tail(s), e) <=> Has(s, e) /\ e # Head(s)
<1>1. Len(s) \in Nat \ {0} /\ DOMAIN s = 1 .. Len(s) /\ Head(s) = s[1]
  BY EmptySeq
<1>2. /\ Tail(s) \in Seq(S) /\ Head(s) \in S /\ DOMAIN Tail(s) = 1 .. Len(s) - 1
      /\ \A i \in 1 .. Len(s) - 1 : Tail(s)[i] = s[i + 1]
  BY <1>1, HeadTailProperties, LenProperties
<1>3. Once(Tail(s))
  BY <1>1, <1>2 DEF Once
<1>4. ASSUME NEW e PROVE Has(Tail(s), e) <=> Has(s, e) /\ e # Head(s)
  <2>1. ASSUME NEW i \in 1 .. Len(s) - 1, Tail(s)[i] = e PROVE Has(s, e) /\ e # Head(s)
    BY <1>1, <1>2, <2>1 DEF Has, Once
  <2>2. ASSUME NEW i \in 1 .. Len(s), s[i] = e, e # Head(s) PROVE Has(Tail(s), e)
    <3>1. i - 1 \in 1 .. Len(s) - 1 /\ Tail(s)[i - 1] = e
      BY <1>1, <1>2, <2>2
    <3> QED BY <1>2, <3>1 DEF Has
  <2> QED BY <1>1, <1>2, <2>1, <2>2 DEF Has
<1>5. Has(s, Head(s))
  BY <1>1 DEF Has
<1> QED BY <1>2, <1>3, <1>4, <1>5

\* One is put in front.
LEMMA ConsHas ==
    ASSUME NEW S, NEW s \in Seq(S), NEW d \in S, Once(s), ~Has(s, d)
    PROVE  LET r == <<d>> \o s IN
           /\ r \in Seq(S) /\ r # <<>> /\ Head(r) = d
           /\ Once(r) /\ \A e : Has(r, e) <=> e = d \/ Has(s, e)
<1> DEFINE r == <<d>> \o s
<1>1. Len(s) \in Nat /\ DOMAIN s = 1 .. Len(s)
  OBVIOUS
<1>2. r \in Seq(S) /\ Len(r) = Len(s) + 1 /\ DOMAIN r = 1 .. Len(s) + 1
  BY ConcatProperties
<1>3. r[1] = d /\ \A i \in 2 .. Len(s) + 1 : r[i] = s[i - 1]
  BY <1>1
<1>4. r # <<>> /\ Head(r) = d
  BY <1>1, <1>2, <1>3
<1> HIDE DEF r
<1>5. Once(r)
  <2>1. ASSUME NEW i \in 2 .. Len(s) + 1 PROVE i - 1 \in DOMAIN s /\ r[i] = s[i - 1] /\ r[i] # d
    BY <1>1, <1>3 DEF Has
  <2>2. ASSUME NEW i \in DOMAIN r, NEW j \in DOMAIN r, i # j PROVE r[i] # r[j]
    <3>1. CASE i = 1 \/ j = 1
      BY <1>1, <1>2, <1>3, <2>1, <2>2, <3>1
    <3>2. CASE i # 1 /\ j # 1
      <4>1. i \in 2 .. Len(s) + 1 /\ j \in 2 .. Len(s) + 1 /\ i - 1 # j - 1
        BY <1>1, <1>2, <2>2, <3>2
      <4> QED BY <2>1, <4>1 DEF Once
    <3> QED BY <3>1, <3>2
  <2> QED BY <2>2 DEF Once
<1>6. ASSUME NEW e PROVE Has(r, e) <=> e = d \/ Has(s, e)
  <2>1. ASSUME NEW i \in 1 .. Len(s), s[i] = e PROVE Has(r, e)
    <3>1. i + 1 \in 2 .. Len(s) + 1 /\ r[i + 1] = e
      BY <1>1, <1>3, <2>1
    <3> QED BY <1>1, <1>2, <3>1 DEF Has
  <2>2. ASSUME NEW i \in 1 .. Len(s) + 1, r[i] = e, e # d PROVE Has(s, e)
    <3>1. i - 1 \in 1 .. Len(s) /\ s[i - 1] = e
      BY <1>1, <1>3, <2>2
    <3> QED BY <1>1, <3>1 DEF Has
  <2>3. Has(r, d)
    BY <1>1, <1>2, <1>3 DEF Has
  <2> QED BY <1>1, <1>2, <2>1, <2>2, <2>3 DEF Has
<1> QED BY <1>2, <1>4, <1>5, <1>6 DEF r

\* One is put at the end.
LEMMA AppendHas ==
    ASSUME NEW S, NEW s \in Seq(S), NEW d \in S, Once(s), ~Has(s, d)
    PROVE  LET r == Append(s, d) IN
           r \in Seq(S) /\ Once(r) /\ \A e : Has(r, e) <=> Has(s, e) \/ e = d
<1> DEFINE r == Append(s, d)
<1>1. Len(s) \in Nat /\ DOMAIN s = 1 .. Len(s)
  OBVIOUS
<1>2. /\ r \in Seq(S) /\ DOMAIN r = 1 .. Len(s) + 1
      /\ r[Len(s) + 1] = d /\ \A i \in 1 .. Len(s) : r[i] = s[i]
  BY <1>1, AppendProperties
<1> HIDE DEF r
<1>3. Once(r)
  BY <1>1, <1>2 DEF Once, Has
<1>4. ASSUME NEW e PROVE Has(r, e) <=> Has(s, e) \/ e = d
  BY <1>1, <1>2 DEF Has
<1> QED BY <1>2, <1>3, <1>4 DEF r

-----------------------------------------------------------------------------
(* One lemma for each action, or for a few that do much the same.           *)

\* Nothing has been started.
LEMMA InitInv == Init => IndInv
<1> SUFFICES ASSUME Init PROVE IndInv
  OBVIOUS
<1>1. TypeOK
  <2>1. <<>> \in Seq(Coros) /\ Pool \in Executors /\ Invokes \in 0 .. Invokes
    BY WaitAssumption DEF Executors
  <2>2. stack \in [Threads -> Seq(Coros)] /\ queue \in [Executors -> Seq(Coros)]
    BY <2>1 DEF Init
  <2>3. left \in [Coros -> 0 .. Invokes] /\ owner \in [Coros -> Executors]
    BY <2>1 DEF Init
  <2>4. /\ wpc \in [Waiters -> {"out", "run", "loop", "waiting", "returned", "threw"}]
        /\ st \in [Coros -> {"none", "running", "suspended", "job", "get", "done", "threw"}]
        /\ worker \in [Coros -> {"none", "calling", "post", "return", "ready", "threw"}]
    BY DEF Init
  <2>5. mtx \in [Coros -> Threads \cup {Nobody}] /\ fut \in [Coros -> BOOLEAN] /\ gone \in BOOLEAN
    BY DEF Init
  <2> QED BY <2>2, <2>3, <2>4, <2>5 DEF TypeOK
<1>2. ASSUME NEW c \in Coros PROVE WorkInv(c) /\ AwaitInv(c) /\ MeetInv(c)
  BY EmptyHas DEF Init, WorkInv, AwaitInv, MeetInv
<1>3. ASSUME NEW w \in Waiters PROVE WaiterInv(w)
  BY DEF Init, WaiterInv, Coros, Threads
<1>4. ASSUME NEW x \in Executors PROVE QueueInv(x)
  BY EmptyHas DEF Init, QueueInv
<1>5. ASSUME NEW t \in Threads PROVE StackInv(t)
  BY EmptyHas, WaitAssumption DEF Init, StackInv, Threads
<1> QED BY <1>1, <1>2, <1>3, <1>4, <1>5 DEF IndInv

\* A step that moves no thread in or out of a coroutine.
LEMMA Unmoved ==
    ASSUME IndInv, UNCHANGED <<stack, st, mtx>>
    PROVE  (\A t \in Threads : StackInv(t)') /\ (\A c \in Coros : MeetInv(c)')
BY DEF IndInv, StackInv, MeetInv

\* A thread that executes a coroutine is inside of it.
LEMMA RunsIn ==
    ASSUME IndInv, NEW t \in Threads, NEW c \in Coros, Runs(t, c)
    PROVE  /\ Has(stack[t], c) /\ stack[t] \in Seq(Coros) /\ Once(stack[t])
           /\ stack[t] # <<>> /\ Head(stack[t]) = c /\ First(stack[t], c)
<1>1. /\ stack[t] \in Seq(Coros) /\ Once(stack[t])
      /\ stack[t] # <<>> /\ Head(stack[t]) = c /\ First(stack[t], c)
  BY DEF IndInv, TypeOK, StackInv, Runs, First
<1> QED BY <1>1, TailHas

\* run() goes around: the job has returned, or _cv.wait begins or ends.
LEMMA LoopInv ==
    ASSUME IndInv, NEW w \in Waiters, BackInRun(w) \/ Sleep(w) \/ Spurious(w)
    PROVE  IndInv'
<1>0. /\ TypeOK /\ \A e \in Coros : WorkInv(e) /\ AwaitInv(e) /\ MeetInv(e)
      /\ \A v \in Waiters : WaiterInv(v)
      /\ \A x \in Executors : QueueInv(x)
      /\ \A u \in Threads : StackInv(u)
  BY DEF IndInv
<1>1. TypeOK'
  BY <1>0 DEF BackInRun, Sleep, Spurious, TypeOK
<1>2. ASSUME NEW e \in Coros PROVE WorkInv(e)' /\ AwaitInv(e)'
  BY <1>0 DEF BackInRun, Sleep, Spurious, WorkInv, AwaitInv
<1>3. ASSUME NEW v \in Waiters PROVE WaiterInv(v)'
  BY <1>0 DEF BackInRun, Sleep, Spurious, TypeOK, WaiterInv
<1>4. ASSUME NEW x \in Executors PROVE QueueInv(x)'
  BY <1>0 DEF BackInRun, Sleep, Spurious, QueueInv
<1>5. UNCHANGED <<stack, st, mtx>>
  BY DEF BackInRun, Sleep, Spurious
<1> QED BY <1>1, <1>2, <1>3, <1>4, <1>5, Unmoved DEF IndInv

\* run() ends, and wait() with it.
LEMMA ReturnsInv ==
    ASSUME IndInv, NEW w \in Waiters, Returns(w)
    PROVE  IndInv'
<1>0. /\ TypeOK /\ \A e \in Coros : WorkInv(e) /\ AwaitInv(e) /\ MeetInv(e)
      /\ \A v \in Waiters : WaiterInv(v)
      /\ \A x \in Executors : QueueInv(x)
      /\ \A u \in Threads : StackInv(u)
  BY DEF IndInv
<1>1. TypeOK'
  BY <1>0 DEF Returns, TypeOK
<1>2. ASSUME NEW e \in Coros PROVE WorkInv(e)' /\ AwaitInv(e)'
  BY <1>0 DEF Returns, WorkInv, AwaitInv
<1>3. ASSUME NEW v \in Waiters PROVE WaiterInv(v)'
  BY <1>0 DEF Returns, RunEnds, WaiterInv
<1>4. ASSUME NEW x \in Executors PROVE QueueInv(x)'
  BY <1>0 DEF Returns, QueueInv
<1>5. UNCHANGED <<stack, st, mtx>>
  BY DEF Returns, RunEnds
<1> QED BY <1>1, <1>2, <1>3, <1>4, <1>5, Unmoved DEF IndInv

\* std::async returns.
LEMMA AssignInv ==
    ASSUME IndInv, NEW t \in Threads, NEW c \in Coros, AssignFuture(t, c)
    PROVE  IndInv'
<1>0. /\ TypeOK /\ \A e \in Coros : WorkInv(e) /\ AwaitInv(e) /\ MeetInv(e)
      /\ \A v \in Waiters : WaiterInv(v)
      /\ \A x \in Executors : QueueInv(x)
      /\ \A u \in Threads : StackInv(u)
  BY DEF IndInv
<1>1. TypeOK'
  BY <1>0 DEF AssignFuture, TypeOK
<1>2. ASSUME NEW e \in Coros PROVE WorkInv(e)' /\ AwaitInv(e)'
  BY <1>0 DEF AssignFuture, WorkInv, AwaitInv
<1>3. ASSUME NEW v \in Waiters PROVE WaiterInv(v)'
  BY <1>0 DEF AssignFuture, WaiterInv
<1>4. ASSUME NEW x \in Executors PROVE QueueInv(x)'
  BY <1>0 DEF AssignFuture, QueueInv
<1>5. UNCHANGED <<stack, st, mtx>>
  BY DEF AssignFuture
<1> QED BY <1>1, <1>2, <1>3, <1>4, <1>5, Unmoved DEF IndInv

\* The thread of async_invoke before and after post().
LEMMA CallableInv ==
    ASSUME IndInv, NEW c \in Coros, NEW r, worker' = [worker EXCEPT ![c] = r],
           \/ worker[c] = "calling" /\ r \in {"post", "threw"}
           \/ worker[c] = "return" /\ r = "ready",
           UNCHANGED <<stack, wpc, queue, st, left, owner, mtx, fut, gone>>
    PROVE  IndInv'
<1>0. /\ TypeOK /\ \A e \in Coros : WorkInv(e) /\ AwaitInv(e) /\ MeetInv(e)
      /\ \A v \in Waiters : WaiterInv(v)
      /\ \A x \in Executors : QueueInv(x)
      /\ \A u \in Threads : StackInv(u)
  BY DEF IndInv
<1>1. TypeOK'
  BY <1>0 DEF TypeOK
<1>2. ASSUME NEW e \in Coros PROVE WorkInv(e)' /\ AwaitInv(e)'
  BY <1>0 DEF WorkInv, AwaitInv
<1>3. ASSUME NEW v \in Waiters PROVE WaiterInv(v)'
  BY <1>0 DEF WaiterInv
<1>4. ASSUME NEW x \in Executors PROVE QueueInv(x)'
  BY <1>0 DEF QueueInv
<1> QED BY <1>1, <1>2, <1>3, <1>4, Unmoved DEF IndInv

\* wait() starts its task.
LEMMA WaitInv ==
    ASSUME IndInv, NEW w \in Waiters, Wait(w)
    PROVE  IndInv'
<1>0. /\ TypeOK /\ \A e \in Coros : WorkInv(e) /\ AwaitInv(e) /\ MeetInv(e)
      /\ \A v \in Waiters : WaiterInv(v)
      /\ \A x \in Executors : QueueInv(x)
      /\ \A u \in Threads : StackInv(u)
  BY DEF IndInv
<1>a. w \in Coros /\ w \in Threads /\ w \in Executors /\ st[w] = "none" /\ stack[w] = <<>>
  BY <1>0 DEF Wait, WaiterInv, Coros, Threads, Executors
<1>b. \A u \in Threads : ~Has(stack[u], w)
  BY <1>0, <1>a, WaitAssumption DEF StackInv, AwaitInv, Threads
<1>c. \A x \in Executors : ~Has(queue[x], w)
  BY <1>0, <1>a DEF QueueInv
<1>d. stack' = [stack EXCEPT ![w] = <<w>>]
  BY DEF Wait
<1>e. /\ stack'[w] = <<w>> /\ \A u \in Threads : u # w => stack'[u] = stack[u]
      /\ Once(stack'[w]) /\ First(stack'[w], w)
      /\ \A e : Has(stack'[w], e) <=> e = w
  BY <1>0, <1>a, <1>d, SingleHas DEF TypeOK, First
<1>m. /\ \A e \in Coros : e # w => st'[e] = st[e] /\ mtx'[e] = mtx[e]
      /\ st'[w] = "running" /\ mtx'[w] = Nobody
  BY <1>0, <1>a, <1>b, <1>c, <1>e DEF Wait, TypeOK, AwaitInv
<1>1. TypeOK'
  BY <1>0 DEF Wait, TypeOK, Coros, Threads, Executors
<1>2. ASSUME NEW e \in Coros PROVE WorkInv(e)' /\ AwaitInv(e)'
  BY <1>0, <1>a DEF Wait, WorkInv, AwaitInv
<1>3. ASSUME NEW v \in Waiters PROVE WaiterInv(v)'
  BY <1>0 DEF Wait, TypeOK, WaiterInv
<1>4. ASSUME NEW x \in Executors PROVE QueueInv(x)'
  BY <1>0, <1>c DEF Wait, QueueInv
<1>5. ASSUME NEW u \in Threads PROVE StackInv(u)'
  <2>1. CASE u # w
    BY <1>0, <1>e, <1>m, <2>1, WaitAssumption DEF StackInv, Threads
  <2>2. CASE u = w
    <3>1. ASSUME NEW e \in Coros, mtx'[e] = w PROVE First(stack'[w], e)
      BY <1>0, <1>a, <1>m, <3>1, WaitAssumption DEF StackInv, First
    <3>2. ASSUME NEW e \in Coros, Has(stack'[w], e)
          PROVE  \/ st'[e] = "running"
                 \/ First(stack'[w], e) /\ (mtx'[e] = w \/ st'[e] \in {"job", "get"})
      BY <1>e, <1>m, <3>2
    <3>3. Once(stack'[w])
      BY <1>e
    <3> QED BY <2>2, <3>1, <3>2, <3>3 DEF StackInv
  <2> QED BY <2>1, <2>2
<1>6. ASSUME NEW e \in Coros PROVE MeetInv(e)'
  <2>1. CASE e # w
    BY <1>0, <1>e, <1>m, <2>1 DEF MeetInv
  <2>2. CASE e = w
    BY <1>b, <1>e, <2>2 DEF MeetInv
  <2> QED BY <2>1, <2>2
<1> QED BY <1>1, <1>2, <1>3, <1>4, <1>5, <1>6 DEF IndInv

\* async_invoke takes the mutex and starts its thread.
LEMMA InvokeInv ==
    ASSUME IndInv, NEW t \in Threads, NEW c \in Coros, Invoke(t, c)
    PROVE  IndInv'
<1>0. /\ TypeOK /\ \A e \in Coros : WorkInv(e) /\ AwaitInv(e) /\ MeetInv(e)
      /\ \A v \in Waiters : WaiterInv(v)
      /\ \A x \in Executors : QueueInv(x)
      /\ \A u \in Threads : StackInv(u)
  BY DEF IndInv
<1>a. First(stack[t], c) /\ Has(stack[t], c) /\ st[c] = "running"
  BY RunsIn DEF Invoke
<1>m. /\ UNCHANGED stack
      /\ \A e \in Coros : e # c => st'[e] = st[e] /\ mtx'[e] = mtx[e]
      /\ st'[c] = "suspended" /\ mtx'[c] = t
  BY <1>0 DEF Invoke, TypeOK
<1>1. TypeOK'
  BY <1>0, WaitAssumption DEF Invoke, TypeOK
<1>2. ASSUME NEW e \in Coros PROVE WorkInv(e)' /\ AwaitInv(e)'
  BY <1>0, WaitAssumption DEF Invoke, TypeOK, WorkInv, AwaitInv, Threads
<1>3. ASSUME NEW v \in Waiters PROVE WaiterInv(v)'
  BY <1>0 DEF Invoke, WaiterInv
<1>4. ASSUME NEW x \in Executors PROVE QueueInv(x)'
  BY <1>0 DEF Invoke, QueueInv
<1>5. ASSUME NEW u \in Threads PROVE StackInv(u)'
  <2>1. CASE u # t
    BY <1>0, <1>a, <1>m DEF StackInv, MeetInv
  <2>2. CASE u = t
    <3>1. ASSUME NEW e \in Coros, mtx'[e] = t PROVE First(stack'[t], e)
      BY <1>0, <1>a, <1>m, <3>1 DEF StackInv
    <3>2. ASSUME NEW e \in Coros, Has(stack'[t], e)
          PROVE  \/ st'[e] = "running"
                 \/ First(stack'[t], e) /\ (mtx'[e] = t \/ st'[e] \in {"job", "get"})
      BY <1>0, <1>a, <1>m, <3>2 DEF StackInv
    <3>3. Once(stack'[t])
      BY <1>0, <1>m DEF StackInv
    <3> QED BY <2>2, <3>1, <3>2, <3>3 DEF StackInv
  <2> QED BY <2>1, <2>2
<1>6. ASSUME NEW e \in Coros PROVE MeetInv(e)'
  <2>1. CASE e # c
    BY <1>0, <1>m, <2>1 DEF MeetInv
  <2>2. CASE e = c
    BY <1>0, <1>a, <1>m DEF MeetInv
  <2> QED BY <2>1, <2>2
<1> QED BY <1>1, <1>2, <1>3, <1>4, <1>5, <1>6 DEF IndInv

\* The job passes through the mutex and resumes the coroutine.
LEMMA ResumeInv ==
    ASSUME IndInv, NEW t \in Threads, NEW c \in Coros, ResumeCoro(t, c)
    PROVE  IndInv'
<1>0. /\ TypeOK /\ \A e \in Coros : WorkInv(e) /\ AwaitInv(e) /\ MeetInv(e)
      /\ \A v \in Waiters : WaiterInv(v)
      /\ \A x \in Executors : QueueInv(x)
      /\ \A u \in Threads : StackInv(u)
  BY DEF IndInv
<1>a. First(stack[t], c) /\ Has(stack[t], c)
  BY RunsIn DEF ResumeCoro
<1>m. /\ UNCHANGED stack
      /\ \A e \in Coros : e # c => st'[e] = st[e] /\ mtx'[e] = mtx[e]
      /\ st[c] = "job" /\ st'[c] = "get" /\ mtx[c] = Nobody /\ mtx'[c] = Nobody
  BY <1>0 DEF ResumeCoro, JobMayPass, TypeOK
<1>1. TypeOK'
  BY <1>0 DEF ResumeCoro, TypeOK
<1>2. ASSUME NEW e \in Coros PROVE WorkInv(e)' /\ AwaitInv(e)'
  BY <1>0 DEF ResumeCoro, JobMayPass, WorkInv, AwaitInv
<1>3. ASSUME NEW v \in Waiters PROVE WaiterInv(v)'
  BY <1>0 DEF ResumeCoro, WaiterInv
<1>4. ASSUME NEW x \in Executors PROVE QueueInv(x)'
  BY <1>0 DEF ResumeCoro, QueueInv
<1>5. ASSUME NEW u \in Threads PROVE StackInv(u)'
  <2>1. CASE u # t
    BY <1>0, <1>m DEF StackInv
  <2>2. CASE u = t
    <3>1. ASSUME NEW e \in Coros, mtx'[e] = t PROVE First(stack'[t], e)
      BY <1>0, <1>m, <3>1 DEF StackInv
    <3>2. ASSUME NEW e \in Coros, Has(stack'[t], e)
          PROVE  \/ st'[e] = "running"
                 \/ First(stack'[t], e) /\ (mtx'[e] = t \/ st'[e] \in {"job", "get"})
      BY <1>0, <1>m, <3>2 DEF StackInv
    <3>3. Once(stack'[t])
      BY <1>0, <1>m DEF StackInv
    <3> QED BY <2>2, <3>1, <3>2, <3>3 DEF StackInv
  <2> QED BY <2>1, <2>2
<1>6. ASSUME NEW e \in Coros PROVE MeetInv(e)'
  <2>1. CASE e # c
    BY <1>0, <1>m, <2>1 DEF MeetInv
  <2>2. CASE e = c
    BY <1>0, <1>m, WaitAssumption DEF MeetInv, Threads
  <2> QED BY <2>1, <2>2
<1> QED BY <1>1, <1>2, <1>3, <1>4, <1>5, <1>6 DEF IndInv

\* await_resume has the result.
LEMMA GetInv ==
    ASSUME IndInv, NEW t \in Threads, NEW c \in Coros, Get(t, c)
    PROVE  IndInv'
<1>0. /\ TypeOK /\ \A e \in Coros : WorkInv(e) /\ AwaitInv(e) /\ MeetInv(e)
      /\ \A v \in Waiters : WaiterInv(v)
      /\ \A x \in Executors : QueueInv(x)
      /\ \A u \in Threads : StackInv(u)
  BY DEF IndInv
<1>a. First(stack[t], c) /\ Has(stack[t], c)
  BY RunsIn DEF Get
<1>m. /\ UNCHANGED stack
      /\ \A e \in Coros : e # c => st'[e] = st[e] /\ mtx'[e] = mtx[e]
      /\ st[c] = "get" /\ st'[c] = "running" /\ mtx'[c] = mtx[c]
  BY <1>0 DEF Get, TypeOK
<1>1. TypeOK'
  BY <1>0 DEF Get, TypeOK
<1>2. ASSUME NEW e \in Coros PROVE WorkInv(e)' /\ AwaitInv(e)'
  BY <1>0 DEF Get, TypeOK, WorkInv, AwaitInv
<1>3. ASSUME NEW v \in Waiters PROVE WaiterInv(v)'
  BY <1>0 DEF Get, WaiterInv
<1>4. ASSUME NEW x \in Executors PROVE QueueInv(x)'
  BY <1>0 DEF Get, QueueInv
<1>5. ASSUME NEW u \in Threads PROVE StackInv(u)'
  <2>1. CASE u # t
    BY <1>0, <1>m DEF StackInv
  <2>2. CASE u = t
    <3>1. ASSUME NEW e \in Coros, mtx'[e] = t PROVE First(stack'[t], e)
      BY <1>0, <1>m, <3>1 DEF StackInv
    <3>2. ASSUME NEW e \in Coros, Has(stack'[t], e)
          PROVE  \/ st'[e] = "running"
                 \/ First(stack'[t], e) /\ (mtx'[e] = t \/ st'[e] \in {"job", "get"})
      BY <1>0, <1>m, <3>2 DEF StackInv
    <3>3. Once(stack'[t])
      BY <1>0, <1>m DEF StackInv
    <3> QED BY <2>2, <3>1, <3>2, <3>3 DEF StackInv
  <2> QED BY <2>1, <2>2
<1>6. ASSUME NEW e \in Coros PROVE MeetInv(e)'
  <2>1. CASE e # c
    BY <1>0, <1>m DEF MeetInv
  <2>2. CASE e = c
    BY <1>0, <1>m DEF MeetInv
  <2> QED BY <2>1, <2>2
<1> QED BY <1>1, <1>2, <1>3, <1>4, <1>5, <1>6 DEF IndInv

\* await_suspend lets the mutex go and the thread leaves the coroutine.
LEMMA SuspendedInv ==
    ASSUME IndInv, NEW t \in Threads, NEW c \in Coros, Suspended(t, c)
    PROVE  IndInv'
<1>0. /\ TypeOK /\ \A e \in Coros : WorkInv(e) /\ AwaitInv(e) /\ MeetInv(e)
      /\ \A v \in Waiters : WaiterInv(v)
      /\ \A x \in Executors : QueueInv(x)
      /\ \A u \in Threads : StackInv(u)
  BY DEF IndInv
<1>a. /\ First(stack[t], c) /\ Has(stack[t], c) /\ stack[t] \in Seq(Coros)
      /\ stack[t] # <<>> /\ Head(stack[t]) = c /\ Once(stack[t])
  BY RunsIn DEF Suspended
<1>d. stack' = [stack EXCEPT ![t] = Tail(stack[t])]
  BY DEF Suspended
<1>e. /\ stack'[t] = Tail(stack[t]) /\ \A u \in Threads : u # t => stack'[u] = stack[u]
      /\ stack'[t] \in Seq(Coros) /\ Once(stack'[t])
      /\ \A e : Has(stack'[t], e) <=> Has(stack[t], e) /\ e # c
  BY <1>0, <1>a, <1>d, TailHas DEF TypeOK
<1>s. \A e \in Coros : Has(stack[t], e) /\ e # c => st[e] = "running" /\ mtx[e] # t
  BY <1>0, <1>a DEF StackInv, First
<1>w. t \in Waiters => wpc[t] = "run"
  BY <1>0, <1>a DEF WaiterInv
<1>m. /\ \A e \in Coros : e # c => st'[e] = st[e] /\ mtx'[e] = mtx[e]
      /\ mtx[c] = t /\ st'[c] = st[c] /\ mtx'[c] = Nobody
  BY <1>0 DEF Suspended, Unlocked, TypeOK
<1>1. TypeOK'
  BY <1>0, <1>e DEF Suspended, Unlocked, TypeOK
<1>2. ASSUME NEW e \in Coros PROVE WorkInv(e)' /\ AwaitInv(e)'
  BY <1>0 DEF Suspended, Unlocked, WorkInv, AwaitInv
<1>3. ASSUME NEW v \in Waiters PROVE WaiterInv(v)'
  BY <1>0 DEF Suspended, WaiterInv
<1>4. ASSUME NEW x \in Executors PROVE QueueInv(x)'
  BY <1>0 DEF Suspended, QueueInv
<1>5. ASSUME NEW u \in Threads PROVE StackInv(u)'
  <2>1. CASE u # t
    BY <1>0, <1>e, <1>m, <2>1, WaitAssumption DEF StackInv, Threads
  <2>2. CASE u = t
    <3>1. ASSUME NEW e \in Coros, mtx'[e] = t PROVE First(stack'[t], e)
      BY <1>0, <1>m, <3>1, WaitAssumption DEF StackInv, First, Threads
    <3>2. ASSUME NEW e \in Coros, Has(stack'[t], e)
          PROVE  \/ st'[e] = "running"
                 \/ First(stack'[t], e) /\ (mtx'[e] = t \/ st'[e] \in {"job", "get"})
      BY <1>e, <1>s, <1>m, <3>2
    <3>3. Once(stack'[t])
      BY <1>e
    <3> QED BY <2>2, <3>1, <3>2, <3>3 DEF StackInv
  <2> QED BY <2>1, <2>2
<1>6. ASSUME NEW e \in Coros PROVE MeetInv(e)'
  <2>1. CASE e # c
    BY <1>0, <1>e, <1>m DEF MeetInv
  <2>2. CASE e = c
    BY <1>0, <1>e, <1>m DEF MeetInv
  <2> QED BY <2>1, <2>2
<1> QED BY <1>1, <1>2, <1>3, <1>4, <1>5, <1>6 DEF IndInv

\* The thread leaves a coroutine that has returned or thrown, and wait() too when
\* the exception comes out of run().
LEMMA LeaveInv ==
    ASSUME IndInv, NEW t \in Threads, NEW c \in Coros, Runs(t, c), st[c] = "running",
           NEW r \in {"done", "threw"}, st' = [st EXCEPT ![c] = r],
           stack' = [stack EXCEPT ![t] = Tail(stack[t])],
           \/ UNCHANGED wpc
           \/ t \in Waiters /\ wpc' = [wpc EXCEPT ![t] = "threw"] /\ Tail(stack[t]) = <<>>,
           UNCHANGED <<queue, left, owner, mtx, fut, worker, gone>>
    PROVE  IndInv'
<1>0. /\ TypeOK /\ \A e \in Coros : WorkInv(e) /\ AwaitInv(e) /\ MeetInv(e)
      /\ \A v \in Waiters : WaiterInv(v)
      /\ \A x \in Executors : QueueInv(x)
      /\ \A u \in Threads : StackInv(u)
  BY DEF IndInv
<1>a. /\ First(stack[t], c) /\ Has(stack[t], c) /\ stack[t] \in Seq(Coros)
      /\ stack[t] # <<>> /\ Head(stack[t]) = c /\ Once(stack[t])
  BY RunsIn
<1>e. /\ stack'[t] = Tail(stack[t]) /\ \A u \in Threads : u # t => stack'[u] = stack[u]
      /\ stack'[t] \in Seq(Coros) /\ Once(stack'[t])
      /\ \A e : Has(stack'[t], e) <=> Has(stack[t], e) /\ e # c
  BY <1>0, <1>a, TailHas DEF TypeOK
<1>s. \A e \in Coros : Has(stack[t], e) /\ e # c => st[e] = "running" /\ mtx[e] # t
  BY <1>0, <1>a DEF StackInv, First
<1>w. t \in Waiters => wpc[t] = "run"
  BY <1>0, <1>a DEF WaiterInv
<1>m. /\ \A e \in Coros : e # c => st'[e] = st[e] /\ mtx'[e] = mtx[e]
      /\ st[c] = "running" /\ st'[c] \in {"done", "threw"} /\ mtx'[c] = mtx[c] /\ mtx[c] = Nobody
  BY <1>0 DEF TypeOK, AwaitInv
<1>1. TypeOK'
  <2>1. wpc' \in [Waiters -> {"out", "run", "loop", "waiting", "returned", "threw"}]
    BY <1>0 DEF TypeOK
  <2>2. st' \in [Coros -> {"none", "running", "suspended", "job", "get", "done", "threw"}]
    BY <1>0 DEF TypeOK
  <2> QED BY <1>0, <1>e, <2>1, <2>2 DEF TypeOK
<1>2. ASSUME NEW e \in Coros PROVE WorkInv(e)' /\ AwaitInv(e)'
  BY <1>0 DEF TypeOK, WorkInv, AwaitInv
<1>3. ASSUME NEW v \in Waiters PROVE WaiterInv(v)'
  <2>1. v \in Coros /\ v \in Threads
    BY DEF Coros, Threads
  <2>2. wpc'[v] = "out" => wpc[v] = "out"
    BY <1>0 DEF TypeOK
  <2>3. wpc'[v] = "returned" => wpc[v] = "returned"
    BY <1>0 DEF TypeOK
  <2>4. st'[v] = st[v] \/ (v = c /\ st[v] = "running")
    BY <1>0, <2>1 DEF TypeOK
  <2>5. wpc'[v] # "run" => stack'[v] = <<>>
    <3>1. CASE v = t
      BY <1>0, <1>e, <1>w, <3>1 DEF TypeOK
    <3>2. CASE v # t
      BY <1>0, <1>e, <2>1, <3>2 DEF TypeOK, WaiterInv
    <3> QED BY <3>1, <3>2
  <2>6. WaiterInv(v)
    BY <1>0
  <2> QED BY <2>2, <2>3, <2>4, <2>5, <2>6 DEF WaiterInv
<1>4. ASSUME NEW x \in Executors PROVE QueueInv(x)'
  BY <1>0 DEF TypeOK, QueueInv
<1>5. ASSUME NEW u \in Threads PROVE StackInv(u)'
  <2>1. CASE u # t
    BY <1>0, <1>a, <1>e, <1>m, <2>1 DEF StackInv, MeetInv
  <2>2. CASE u = t
    <3>1. ASSUME NEW e \in Coros, mtx'[e] = t PROVE First(stack'[t], e)
      BY <1>0, <1>a, <1>m, <3>1, WaitAssumption DEF StackInv, First, Threads
    <3>2. ASSUME NEW e \in Coros, Has(stack'[t], e)
          PROVE  \/ st'[e] = "running"
                 \/ First(stack'[t], e) /\ (mtx'[e] = t \/ st'[e] \in {"job", "get"})
      BY <1>e, <1>s, <1>m, <3>2
    <3>3. Once(stack'[t])
      BY <1>e
    <3> QED BY <2>2, <3>1, <3>2, <3>3 DEF StackInv
  <2> QED BY <2>1, <2>2
<1>6. ASSUME NEW e \in Coros PROVE MeetInv(e)'
  <2>1. CASE e # c
    BY <1>0, <1>e, <1>m DEF MeetInv
  <2>2. CASE e = c
    BY <1>0, <1>e, <1>m DEF MeetInv
  <2> QED BY <2>1, <2>2
<1> QED BY <1>1, <1>2, <1>3, <1>4, <1>5, <1>6 DEF IndInv

\* co_return.
LEMMA FinishInv ==
    ASSUME IndInv, NEW t \in Threads, NEW c \in Coros, Finish(t, c)
    PROVE  IndInv'
BY LeaveInv DEF Finish

\* A coroutine ends with an exception.
LEMMA ThrowInv ==
    ASSUME IndInv, ThrowStep
    PROVE  IndInv'
<1>1. ASSUME NEW t \in Threads, NEW c \in Coros, Throw(t, c) PROVE IndInv'
  <2>1. CASE c \in Waiters
    BY <1>1, <2>1, LeaveInv DEF Throw
  <2>2. CASE c \notin Waiters
    BY <1>1, <2>2, LeaveInv DEF Throw
  <2> QED BY <2>1, <2>2
<1>2. ASSUME NEW w \in Waiters, NEW d \in Detached, ThrowOutOfWait(w, d) PROVE IndInv'
  <2>1. w \in Threads /\ d \in Coros
    BY DEF Threads, Coros
  <2>2. stack' = [stack EXCEPT ![w] = Tail(stack[w])] /\ Tail(stack[w]) = <<>>
    BY <1>2 DEF ThrowOutOfWait, Outermost
  <2> QED BY <1>2, <2>1, <2>2, LeaveInv DEF ThrowOutOfWait
<1>3. ASSUME NEW p \in PoolThreads, NEW d \in Detached, Terminate(p, d) PROVE IndInv'
  <2>1. UNCHANGED <<stack, wpc, queue, st, left, owner, mtx, fut, worker>> /\ gone' \in BOOLEAN
    BY <1>3 DEF Terminate
  <2> QED
    BY <2>1 DEF IndInv, TypeOK, WorkInv, AwaitInv, MeetInv, WaiterInv, QueueInv, StackInv
<1> QED BY <1>1, <1>2, <1>3 DEF ThrowStep

\* task_executor->post().
LEMMA PostInv ==
    ASSUME IndInv, NEW c \in Coros, Post(c)
    PROVE  IndInv'
<1>0. /\ TypeOK /\ \A e \in Coros : WorkInv(e) /\ AwaitInv(e) /\ MeetInv(e)
      /\ \A v \in Waiters : WaiterInv(v)
      /\ \A x \in Executors : QueueInv(x)
      /\ \A u \in Threads : StackInv(u)
  BY DEF IndInv
<1>a. /\ owner[c] \in Executors /\ worker[c] = "post" /\ worker' = [worker EXCEPT ![c] = "return"]
      /\ st[c] = "suspended" /\ \A x \in Executors : ~Has(queue[x], c)
  BY <1>0 DEF Post, TypeOK, WorkInv, QueueInv
<1>q. /\ queue' \in [Executors -> Seq(Coros)]
      /\ \A x \in Executors :
            /\ Once(queue'[x])
            /\ \A e : Has(queue'[x], e) => Has(queue[x], e) \/ (e = c /\ x = owner[c])
  <2>1. CASE Alive(owner[c])
    <3> DEFINE r == Append(queue[owner[c]], c)
    <3>1. queue' = [queue EXCEPT ![owner[c]] = r]
      BY <2>1 DEF Post
    <3>2. r \in Seq(Coros) /\ Once(r) /\ \A e : Has(r, e) => Has(queue[owner[c]], e) \/ e = c
      BY <1>0, <1>a, AppendHas DEF TypeOK, QueueInv
    <3> HIDE DEF r
    <3> QED BY <1>0, <3>1, <3>2 DEF TypeOK, QueueInv
  <2>2. CASE ~Alive(owner[c])
    BY <1>0, <2>2 DEF Post, TypeOK, QueueInv
  <2> QED BY <2>1, <2>2
<1>p. /\ wpc' \in [Waiters -> {"out", "run", "loop", "waiting", "returned", "threw"}]
      /\ \A v \in Waiters : wpc'[v] = wpc[v] \/ (wpc[v] = "waiting" /\ wpc'[v] = "loop")
  BY <1>0 DEF Post, TypeOK, Notify
<1>u. UNCHANGED <<stack, st, left, owner, mtx, fut, gone>>
  BY DEF Post
<1>1. TypeOK'
  BY <1>0, <1>a, <1>q, <1>p, <1>u DEF TypeOK
<1>2. ASSUME NEW e \in Coros PROVE WorkInv(e)' /\ AwaitInv(e)'
  BY <1>0, <1>a, <1>u DEF WorkInv, AwaitInv
<1>3. ASSUME NEW v \in Waiters PROVE WaiterInv(v)'
  BY <1>0, <1>p, <1>u DEF WaiterInv
<1>4. ASSUME NEW x \in Executors PROVE QueueInv(x)'
  <2>1. ASSUME NEW e \in Coros, Has(queue'[x], e)
        PROVE  st'[e] = "suspended" /\ worker'[e] \in {"return", "ready"} /\ owner'[e] = x
    <3>1. CASE e = c
      BY <1>0, <1>a, <1>q, <1>u, <2>1, <3>1 DEF TypeOK
    <3>2. CASE e # c
      BY <1>0, <1>a, <1>q, <1>u, <2>1 DEF TypeOK, QueueInv
    <3> QED BY <3>1, <3>2
  <2> QED BY <1>q, <2>1 DEF QueueInv
<1>5. UNCHANGED <<stack, st, mtx>>
  BY DEF Post
<1> QED BY <1>1, <1>2, <1>3, <1>4, <1>5, Unmoved DEF IndInv

\* co_detach starts a coroutine inside its parent.
LEMMA DetachInv ==
    ASSUME IndInv, NEW t \in Threads, NEW c \in Coros, NEW d \in Detached, Detach(t, c, d)
    PROVE  IndInv'
<1>0. /\ TypeOK /\ \A e \in Coros : WorkInv(e) /\ AwaitInv(e) /\ MeetInv(e)
      /\ \A v \in Waiters : WaiterInv(v)
      /\ \A x \in Executors : QueueInv(x)
      /\ \A u \in Threads : StackInv(u)
  BY DEF IndInv
<1>a. /\ First(stack[t], c) /\ Has(stack[t], c) /\ stack[t] \in Seq(Coros)
      /\ stack[t] # <<>> /\ Once(stack[t]) /\ st[c] = "running"
      /\ d \in Coros /\ d \notin Waiters /\ st[d] = "none"
  BY RunsIn, WaitAssumption DEF Detach, Coros
<1>b. /\ mtx[d] = Nobody /\ mtx[c] = Nobody
      /\ \A u \in Threads : ~Has(stack[u], d)
      /\ \A x \in Executors : ~Has(queue[x], d)
  BY <1>0, <1>a, WaitAssumption DEF StackInv, AwaitInv, QueueInv, Threads
<1>d. stack' = [stack EXCEPT ![t] = <<d>> \o stack[t]]
  BY DEF Detach
<1>e. /\ stack'[t] = <<d>> \o stack[t] /\ \A u \in Threads : u # t => stack'[u] = stack[u]
      /\ stack'[t] \in Seq(Coros) /\ Once(stack'[t]) /\ First(stack'[t], d)
      /\ \A e : Has(stack'[t], e) <=> e = d \/ Has(stack[t], e)
  BY <1>0, <1>a, <1>b, <1>d, ConsHas DEF TypeOK, First
<1>s. /\ \A e \in Coros : mtx[e] # t
      /\ \A e \in Coros : Has(stack[t], e) => st[e] = "running"
  BY <1>0, <1>a, <1>b DEF StackInv, First
<1>w. t \in Waiters => wpc[t] = "run"
  BY <1>0, <1>a DEF WaiterInv
<1>o. /\ owner' \in [Coros -> Executors] /\ \A e \in Coros : e # d => owner'[e] = owner[e]
      /\ UNCHANGED <<wpc, queue, left, mtx, fut, worker, gone>>
      /\ st' = [st EXCEPT ![d] = "running"]
  BY <1>0, <1>a DEF Detach, DetachExecutor, TypeOK, Executors
<1>m. /\ \A e \in Coros : e # d => st'[e] = st[e] /\ mtx'[e] = mtx[e]
      /\ st'[d] = "running" /\ mtx'[d] = Nobody
  BY <1>0, <1>b, <1>e, <1>o DEF TypeOK
<1>1. TypeOK'
  BY <1>0, <1>d, <1>e, <1>o DEF TypeOK
<1>2. ASSUME NEW e \in Coros PROVE WorkInv(e)' /\ AwaitInv(e)'
  BY <1>0, <1>a, <1>o DEF WorkInv, AwaitInv
<1>3. ASSUME NEW v \in Waiters PROVE WaiterInv(v)'
  BY <1>0, <1>a, <1>b, <1>e, <1>s, <1>w, <1>o, WaitAssumption DEF WaiterInv, Coros, Threads
<1>4. ASSUME NEW x \in Executors PROVE QueueInv(x)'
  BY <1>0, <1>b, <1>o DEF QueueInv
<1>5. ASSUME NEW u \in Threads PROVE StackInv(u)'
  <2>1. CASE u # t
    BY <1>0, <1>e, <1>m, <2>1, WaitAssumption DEF StackInv, Threads
  <2>2. CASE u = t
    <3>1. ASSUME NEW e \in Coros, mtx'[e] = t PROVE First(stack'[t], e)
      BY <1>s, <1>m, <3>1, WaitAssumption DEF Threads
    <3>2. ASSUME NEW e \in Coros, Has(stack'[t], e)
          PROVE  \/ st'[e] = "running"
                 \/ First(stack'[t], e) /\ (mtx'[e] = t \/ st'[e] \in {"job", "get"})
      BY <1>e, <1>s, <1>m, <3>2
    <3>3. Once(stack'[t])
      BY <1>e
    <3> QED BY <2>2, <3>1, <3>2, <3>3 DEF StackInv
  <2> QED BY <2>1, <2>2
<1>6. ASSUME NEW e \in Coros PROVE MeetInv(e)'
  <2>1. CASE e # d
    <3>1. \A u \in Threads : Has(stack'[u], e) <=> Has(stack[u], e)
      BY <1>e, <2>1
    <3> QED BY <1>0, <1>m, <2>1, <3>1 DEF MeetInv
  <2>2. CASE e = d
    BY <1>b, <1>e, <2>2 DEF MeetInv
  <2> QED BY <2>1, <2>2
<1> QED BY <1>1, <1>2, <1>3, <1>4, <1>5, <1>6 DEF IndInv

\* A thread with an empty stack takes a job.
LEMMA TakeInv ==
    ASSUME IndInv, NEW t \in Threads, NEW x \in Executors, TakeJob(t, x),
           stack[t] = <<>>,
           wpc' \in [Waiters -> {"out", "run", "loop", "waiting", "returned", "threw"}],
           \A v \in Waiters : IF v = t THEN wpc'[v] = "run" ELSE wpc'[v] = wpc[v]
    PROVE  IndInv'
<1>0. /\ TypeOK /\ \A e \in Coros : WorkInv(e) /\ AwaitInv(e) /\ MeetInv(e)
      /\ \A v \in Waiters : WaiterInv(v)
      /\ \A y \in Executors : QueueInv(y)
      /\ \A u \in Threads : StackInv(u)
  BY DEF IndInv
<1> DEFINE h == Head(queue[x])
<1>a. /\ queue[x] \in Seq(Coros) /\ queue[x] # <<>> /\ Once(queue[x])
      /\ queue' = [queue EXCEPT ![x] = Tail(queue[x])]
      /\ stack' = [stack EXCEPT ![t] = <<h>>]
      /\ st' = [st EXCEPT ![h] = "job"]
      /\ UNCHANGED <<left, owner, mtx, fut, worker, gone>>
  BY <1>0 DEF TakeJob, TypeOK, QueueInv
<1>b. /\ h \in Coros /\ Has(queue[x], h) /\ Tail(queue[x]) \in Seq(Coros)
      /\ Once(Tail(queue[x]))
      /\ \A e : Has(Tail(queue[x]), e) <=> Has(queue[x], e) /\ e # h
  BY <1>a, TailHas
<1> HIDE DEF h
<1>c. st[h] = "suspended" /\ worker[h] \in {"return", "ready"} /\ owner[h] = x
  BY <1>0, <1>b DEF QueueInv
<1>d. \A y \in Executors : Once(queue'[y]) /\ \A e : Has(queue'[y], e) => Has(queue[y], e) /\ e # h
  <2> SUFFICES ASSUME NEW y \in Executors
               PROVE  Once(queue'[y]) /\ \A e : Has(queue'[y], e) => Has(queue[y], e) /\ e # h
    OBVIOUS
  <2>1. CASE y = x
    BY <1>0, <1>a, <1>b, <2>1 DEF TypeOK
  <2>2. CASE y # x
    BY <1>0, <1>a, <1>b, <2>2 DEF QueueInv
  <2> QED BY <2>1, <2>2
<1>e. /\ stack'[t] = <<h>> /\ \A u \in Threads : u # t => stack'[u] = stack[u]
      /\ Once(stack'[t]) /\ First(stack'[t], h)
      /\ \A e : Has(stack'[t], e) <=> e = h
  BY <1>0, <1>a, SingleHas DEF TypeOK, First
<1>s. /\ \A u \in Threads : Has(stack[u], h) => mtx[h] = u /\ First(stack[u], h)
      /\ \A e \in Coros : mtx[e] # t
  BY <1>0, <1>b, <1>c DEF StackInv, First
<1>m. /\ \A e \in Coros : e # h => st'[e] = st[e] /\ mtx'[e] = mtx[e]
      /\ st'[h] = "job" /\ mtx'[h] = mtx[h]
  BY <1>0, <1>a, <1>b DEF TypeOK
<1>1. TypeOK'
  BY <1>0, <1>a, <1>b, <1>c, <1>d, <1>e, <1>s, WaitAssumption DEF TypeOK, Coros
<1>2. ASSUME NEW e \in Coros PROVE WorkInv(e)' /\ AwaitInv(e)'
  BY <1>0, <1>a, <1>b, <1>c, <1>d, <1>e, <1>s, WaitAssumption DEF WorkInv, AwaitInv
<1>3. ASSUME NEW v \in Waiters PROVE WaiterInv(v)'
  BY <1>0, <1>a, <1>b, <1>c DEF WaiterInv
<1>4. ASSUME NEW y \in Executors PROVE QueueInv(y)'
  BY <1>0, <1>a, <1>b, <1>c, <1>d DEF TypeOK, QueueInv
<1>5. ASSUME NEW u \in Threads PROVE StackInv(u)'
  <2>1. CASE u # t
    BY <1>0, <1>e, <1>s, <1>m DEF StackInv
  <2>2. CASE u = t
    <3>1. ASSUME NEW e \in Coros, mtx'[e] = t PROVE First(stack'[t], e)
      BY <1>s, <1>m, <3>1
    <3>2. ASSUME NEW e \in Coros, Has(stack'[t], e)
          PROVE  \/ st'[e] = "running"
                 \/ First(stack'[t], e) /\ (mtx'[e] = t \/ st'[e] \in {"job", "get"})
      BY <1>e, <1>m, <3>2
    <3>3. Once(stack'[t])
      BY <1>e
    <3> QED BY <2>2, <3>1, <3>2, <3>3 DEF StackInv
  <2> QED BY <2>1, <2>2
<1>6. ASSUME NEW e \in Coros PROVE MeetInv(e)'
  <2>1. CASE e # h
    BY <1>0, <1>e, <1>m, <2>1 DEF MeetInv
  <2>2. CASE e = h
    BY <1>e, <1>s, <1>m, <2>2 DEF MeetInv
  <2> QED BY <2>1, <2>2
<1> QED BY <1>1, <1>2, <1>3, <1>4, <1>5, <1>6 DEF IndInv

-----------------------------------------------------------------------------
(* The specification.                                                       *)

\* Every step keeps the invariant.
LEMMA StepInv == IndInv /\ [Next]_vars => IndInv'
<1> SUFFICES ASSUME IndInv, [Next]_vars PROVE IndInv'
  OBVIOUS
<1>1. ASSUME NEW w \in Waiters, WaitStep(w) \/ Spurious(w) PROVE IndInv'
  <2>1. ASSUME RunJob(w) PROVE IndInv'
    <3>1. w \in Threads /\ w \in Executors /\ stack[w] = <<>> /\ TakeJob(w, w)
      BY <2>1 DEF RunJob, IndInv, WaiterInv, Threads, Executors
    <3>2. wpc \in [Waiters -> {"out", "run", "loop", "waiting", "returned", "threw"}]
      BY DEF IndInv, TypeOK
    <3>3. /\ wpc' \in [Waiters -> {"out", "run", "loop", "waiting", "returned", "threw"}]
          /\ \A v \in Waiters : IF v = w THEN wpc'[v] = "run" ELSE wpc'[v] = wpc[v]
      BY <2>1, <3>2 DEF RunJob
    <3> QED BY <3>1, <3>3, TakeInv
  <2> QED BY <1>1, <2>1, WaitInv, LoopInv, ReturnsInv DEF WaitStep
<1>2. ASSUME NEW p \in PoolThreads, RunPoolJob(p) PROVE IndInv'
  <2>1. p \in Threads /\ p \notin Waiters /\ Pool \in Executors
    BY WaitAssumption DEF Threads, Executors
  <2>2. wpc \in [Waiters -> {"out", "run", "loop", "waiting", "returned", "threw"}]
    BY DEF IndInv, TypeOK
  <2>3. stack[p] = <<>> /\ TakeJob(p, Pool) /\ UNCHANGED wpc
    BY <1>2 DEF RunPoolJob
  <2> QED BY <2>1, <2>2, <2>3, TakeInv
<1>3. ASSUME NEW t \in Threads, NEW c \in Coros, CoroStep(t, c) PROVE IndInv'
  BY <1>3, InvokeInv, AssignInv, SuspendedInv, ResumeInv, GetInv, FinishInv DEF CoroStep
<1>4. ASSUME NEW t \in Threads, NEW c \in Coros, NEW d \in Detached, Detach(t, c, d) PROVE IndInv'
  BY <1>4, DetachInv
<1>5. ASSUME NEW c \in Coros, Worker(c) PROVE IndInv'
  <2>1. ASSUME CallableEnds(c) PROVE IndInv'
    <3>1. PICK r \in {"post", "threw"} : worker' = [worker EXCEPT ![c] = r]
      BY <2>1 DEF CallableEnds
    <3> QED BY <2>1, <3>1, CallableInv DEF CallableEnds
  <2>2. ASSUME WorkerReturns(c) PROVE IndInv'
    BY <2>2, CallableInv DEF WorkerReturns
  <2> QED BY <1>5, <2>1, <2>2, PostInv DEF Worker
<1>6. ASSUME UNCHANGED vars PROVE IndInv'
  BY <1>6 DEF vars, IndInv, TypeOK, WorkInv, AwaitInv, MeetInv, WaiterInv, QueueInv, StackInv
<1>7. ASSUME ThrowStep PROVE IndInv'
  BY <1>7, ThrowInv
<1> QED BY <1>1, <1>2, <1>3, <1>4, <1>5, <1>6, <1>7 DEF Next, Step

\* The invariant holds in every state that wait(), async_invoke and co_detach
\* can reach.
THEOREM Invariance == Spec => []IndInv
BY InitInv, StepInv, PTL DEF Spec

\* Inside is Has, and a coroutine that nobody started, or that is done, is on no
\* stack because those are running or in the awaiter.
LEMMA InvSafe == IndInv => AwaiterSafe
<1> SUFFICES ASSUME IndInv PROVE AwaiterSafe
  OBVIOUS
<1>1. TypeOK
  BY DEF IndInv
<1>2. FutureAssigned
  BY DEF IndInv, AwaitInv, FutureAssigned
<1>3. AwaiterOutlivesSuspend
  BY DEF IndInv, AwaitInv, AwaiterOutlivesSuspend
<1>4. OneThreadInside
  <2>1. ASSUME NEW c \in Coros, NEW t \in Threads, NEW u \in Threads,
               t # u, Has(stack[t], c), Has(stack[u], c)
        PROVE  st[c] = "job" /\ mtx[c] \in {t, u}
    BY <2>1 DEF IndInv, MeetInv
  <2>2. ASSUME NEW c \in Coros, st[c] \in {"none", "done", "threw"}, NEW t \in Threads
        PROVE  ~Has(stack[t], c)
    BY <2>2, WaitAssumption DEF IndInv, StackInv, AwaitInv, Threads
  <2> QED BY <2>1, <2>2 DEF OneThreadInside, Inside, Has
<1> QED BY <1>1, <1>2, <1>3, <1>4 DEF AwaiterSafe

\* async_invoke lets its coroutine go on only with an assigned future, in one
\* thread and with nobody left inside the awaiter: the mutex of
\* co_async_invoke_awaiter is enough, whichever thread is faster.
THEOREM AwaiterIsSafe == Spec => []AwaiterSafe
BY Invariance, InvSafe, PTL

-----------------------------------------------------------------------------
(* Who can end wait() with an exception.                                    *)

\* The coroutine a thread entered first.
Root(s) == s[Len(s)]

\* What run() resumed, or wait() started, has the executor of that wait().
RootInv(w) == stack[w] # <<>> => owner[Root(stack[w])] = w

\* wait() was left by an exception of a detached coroutine it resumed.
ThrewInv(w) == wpc[w] = "threw" => \E d \in Detached : owner[d] = w /\ st[d] = "threw"

UnwindInv == \A w \in Waiters : RootInv(w) /\ ThrewInv(w)

\* The root of a stack stays below what is put on it and taken from it.
LEMMA RootOf ==
    ASSUME NEW S, NEW s \in Seq(S), s # <<>>
    PROVE  /\ Root(s) \in S /\ Has(s, Root(s))
           /\ Tail(s) # <<>> => Root(Tail(s)) = Root(s)
           /\ Tail(s) = <<>> => Root(s) = Head(s)
           /\ \A d \in S : Root(<<d>> \o s) = Root(s)
<1>1. Len(s) \in Nat \ {0} /\ DOMAIN s = 1 .. Len(s) /\ Head(s) = s[1]
  BY EmptySeq
<1>2. Root(s) \in S /\ Has(s, Root(s))
  BY <1>1 DEF Root, Has
<1>3. /\ Tail(s) \in Seq(S) /\ Len(Tail(s)) = Len(s) - 1
      /\ \A i \in 1 .. Len(s) - 1 : Tail(s)[i] = s[i + 1]
  BY <1>1, HeadTailProperties, LenProperties
<1>4. ASSUME Tail(s) # <<>> PROVE Root(Tail(s)) = Root(s)
  <2>1. Len(s) - 1 \in 1 .. Len(s) - 1
    BY <1>1, <1>3, <1>4, EmptySeq
  <2> QED BY <1>1, <1>3, <2>1 DEF Root
<1>5. ASSUME Tail(s) = <<>> PROVE Root(s) = Head(s)
  <2>1. PICK n \in Nat \ {0} : n = Len(s)
    BY <1>1
  <2>2. Len(Tail(s)) = n - 1
    BY <1>3, <2>1, Zenon
  <2>3. Len(<<>>) = n - 1
    BY <1>5, <2>2, Zenon
  <2>4. n = 1
    BY ONLY n \in Nat \ {0}, <2>3
  <2> QED BY <1>1, <2>1, <2>4, Zenon DEF Root
<1>6. ASSUME NEW d \in S PROVE Root(<<d>> \o s) = Root(s)
  <2> DEFINE r == <<d>> \o s
  <2>1. Len(r) = Len(s) + 1
    BY ConcatProperties
  <2>2. r[Len(s) + 1] = s[Len(s)]
    BY <1>1
  <2> HIDE DEF r
  <2>3. Root(r) = Root(s)
    BY <2>1, <2>2 DEF Root
  <2> QED BY <2>3 DEF r
<1> QED BY <1>2, <1>4, <1>5, <1>6

\* What a step does that throws nothing out of wait(): no detached coroutine
\* that has thrown is used again.
Calm ==
    /\ \A w \in Waiters : wpc'[w] = "threw" => wpc[w] = "threw"
    /\ \A d \in Detached : st[d] = "threw" => st'[d] = "threw" /\ owner'[d] = owner[d]

LEMMA CalmKeeps ==
    ASSUME UnwindInv, Calm
    PROVE  \A w \in Waiters : ThrewInv(w)'
BY DEF UnwindInv, ThrewInv, Calm

\* A step that neither moves a thread nor starts a coroutine.
LEMMA StillKeeps ==
    ASSUME UnwindInv, UNCHANGED <<stack, owner>>
    PROVE  \A w \in Waiters : RootInv(w)'
BY DEF UnwindInv, RootInv

\* A thread leaves a coroutine.
LEMMA PopKeeps ==
    ASSUME IndInv, UnwindInv, NEW t \in Threads, stack[t] # <<>>, UNCHANGED owner,
           stack' = [stack EXCEPT ![t] = Tail(stack[t])]
    PROVE  \A w \in Waiters : RootInv(w)'
<1> SUFFICES ASSUME NEW w \in Waiters PROVE RootInv(w)'
  OBVIOUS
<1>1. stack \in [Threads -> Seq(Coros)] /\ w \in Threads /\ RootInv(w)
  BY DEF IndInv, TypeOK, UnwindInv, Threads
<1>2. CASE w = t
  BY <1>1, <1>2, RootOf DEF RootInv
<1>3. CASE w # t
  BY <1>1, <1>3 DEF RootInv
<1> QED BY <1>2, <1>3

\* wait() starts its task.
LEMMA WaitKeeps ==
    ASSUME IndInv, UnwindInv, NEW v \in Waiters, Wait(v)
    PROVE  UnwindInv'
<1>1. /\ stack \in [Threads -> Seq(Coros)] /\ owner \in [Coros -> Executors]
      /\ v \in Threads /\ v \in Coros /\ st[v] = "none" /\ st \in [Coros -> {"none", "running",
            "suspended", "job", "get", "done", "threw"}] /\ wpc \in [Waiters -> {"out", "run",
            "loop", "waiting", "returned", "threw"}]
  BY DEF IndInv, TypeOK, WaiterInv, Wait, Threads, Coros
<1>2. Calm
  BY <1>1 DEF Wait, Calm, Coros
<1>3. ASSUME NEW w \in Waiters PROVE RootInv(w)'
  <2>1. CASE w = v
    BY <1>1, <2>1 DEF Wait, RootInv, Root
  <2>2. CASE w # v
    <3>1. w \in Threads /\ stack'[w] = stack[w] /\ RootInv(w)
      BY <1>1, <2>2 DEF Wait, Threads, UnwindInv
    <3>2. ASSUME stack[w] # <<>> PROVE Root(stack[w]) # v /\ Root(stack[w]) \in Coros
      <4>1. Root(stack[w]) \in Coros /\ Has(stack[w], Root(stack[w]))
        BY <1>1, <3>1, <3>2, RootOf
      <4>2. ~Has(stack[w], v)
        BY <1>1, <3>1, WaitAssumption DEF IndInv, StackInv, AwaitInv, Threads
      <4> QED BY <4>1, <4>2
    <3> QED BY <1>1, <3>1, <3>2 DEF Wait, RootInv
  <2> QED BY <2>1, <2>2
<1> QED BY <1>2, <1>3, CalmKeeps DEF UnwindInv

\* co_detach starts a coroutine inside its parent.
LEMMA DetachKeeps ==
    ASSUME IndInv, UnwindInv, NEW t \in Threads, NEW c \in Coros, NEW d \in Detached,
           Detach(t, c, d)
    PROVE  UnwindInv'
<1>1. /\ stack \in [Threads -> Seq(Coros)] /\ d \in Coros /\ st[d] = "none"
      /\ stack[t] # <<>> /\ stack' = [stack EXCEPT ![t] = <<d>> \o stack[t]]
  BY DEF IndInv, TypeOK, Detach, Runs, Coros
<1>2. \A e \in Coros : e # d => owner'[e] = owner[e] /\ st'[e] = st[e]
  BY DEF IndInv, TypeOK, Detach
<1>3. Calm
  BY <1>1, <1>2 DEF Detach, Calm, Coros
<1>4. ASSUME NEW w \in Waiters PROVE RootInv(w)'
  <2>1. w \in Threads /\ RootInv(w) /\ stack[w] \in Seq(Coros)
    BY <1>1 DEF Threads, UnwindInv
  <2>2. stack'[w] # <<>> => stack[w] # <<>> /\ Root(stack'[w]) = Root(stack[w])
    <3>1. CASE w = t
      BY <1>1, <2>1, <3>1, RootOf
    <3>2. CASE w # t
      BY <1>1, <2>1, <3>2
    <3> QED BY <3>1, <3>2
  <2>3. stack[w] # <<>> => Root(stack[w]) \in Coros /\ Has(stack[w], Root(stack[w]))
    BY <2>1, RootOf
  <2>4. ~Has(stack[w], d)
    BY <1>1, <2>1, WaitAssumption DEF IndInv, StackInv, AwaitInv, Threads
  <2> QED BY <1>2, <2>1, <2>2, <2>3, <2>4 DEF RootInv
<1> QED BY <1>3, <1>4, CalmKeeps DEF UnwindInv

\* A job is taken: a waiter takes those of its own executor.
LEMMA TakeKeeps ==
    ASSUME IndInv, UnwindInv, NEW t \in Threads, NEW x \in Executors, TakeJob(t, x),
           t \in Waiters => x = t,
           \A v \in Waiters : wpc'[v] = "threw" => wpc[v] = "threw"
    PROVE  UnwindInv'
<1> DEFINE h == Head(queue[x])
<1>1. /\ queue[x] \in Seq(Coros) /\ queue[x] # <<>> /\ Once(queue[x]) /\ UNCHANGED owner
      /\ stack' = [stack EXCEPT ![t] = <<h>>] /\ st' = [st EXCEPT ![h] = "job"]
  BY DEF TakeJob, IndInv, TypeOK, QueueInv
<1>2. h \in Coros /\ Has(queue[x], h)
  BY <1>1, TailHas
<1> HIDE DEF h
<1>3. st[h] = "suspended" /\ owner[h] = x
  BY <1>2 DEF IndInv, QueueInv
<1>4. Calm
  BY <1>1, <1>2, <1>3 DEF Calm, IndInv, TypeOK, Coros
<1>5. ASSUME NEW w \in Waiters PROVE RootInv(w)'
  <2>1. w \in Threads /\ RootInv(w) /\ stack \in [Threads -> Seq(Coros)]
    BY DEF Threads, UnwindInv, IndInv, TypeOK
  <2>2. CASE w = t
    BY <1>1, <1>3, <2>1, <2>2 DEF RootInv, Root
  <2>3. CASE w # t
    BY <1>1, <2>1, <2>3 DEF RootInv
  <2> QED BY <2>2, <2>3
<1> QED BY <1>4, <1>5, CalmKeeps DEF UnwindInv

\* An exception leaves wait(): only the root of the stack can do that.
LEMMA ThrowKeeps ==
    ASSUME IndInv, UnwindInv, ThrowStep
    PROVE  UnwindInv'
<1>1. ASSUME NEW t \in Threads, NEW c \in Coros, Throw(t, c) PROVE UnwindInv'
  <2>1. /\ stack[t] # <<>> /\ UNCHANGED <<owner, wpc>>
        /\ stack' = [stack EXCEPT ![t] = Tail(stack[t])] /\ st[c] = "running"
        /\ \A d \in Coros : d # c => st'[d] = st[d]
    BY <1>1 DEF Throw, Runs, IndInv, TypeOK
  <2>2. Calm
    BY <2>1 DEF Calm, Coros
  <2> QED BY <2>1, <2>2, PopKeeps, CalmKeeps DEF UnwindInv
<1>2. ASSUME NEW w \in Waiters, NEW d \in Detached, ThrowOutOfWait(w, d) PROVE UnwindInv'
  <2>1. /\ w \in Threads /\ d \in Coros /\ stack[w] # <<>> /\ Head(stack[w]) = d
        /\ stack[w] \in Seq(Coros) /\ Tail(stack[w]) = <<>> /\ UNCHANGED owner
        /\ stack' = [stack EXCEPT ![w] = Tail(stack[w])] /\ st[d] = "running"
    BY <1>2 DEF ThrowOutOfWait, Outermost, Runs, IndInv, TypeOK, Threads, Coros
  <2>2. Root(stack[w]) = d /\ owner[d] = w
    BY <2>1, RootOf DEF UnwindInv, RootInv
  <2>3. /\ st'[d] = "threw" /\ \A e \in Coros : st[e] = "threw" => st'[e] = "threw"
        /\ \A v \in Waiters : v # w => wpc'[v] = wpc[v]
    BY <1>2, <2>1 DEF ThrowOutOfWait, IndInv, TypeOK
  <2>4. ASSUME NEW v \in Waiters PROVE ThrewInv(v)'
    <3>1. CASE v = w
      BY <2>1, <2>2, <2>3, <3>1 DEF ThrewInv
    <3>2. CASE v # w
      BY <2>1, <2>3, <3>2 DEF ThrewInv, UnwindInv, Coros
    <3> QED BY <3>1, <3>2
  <2> QED BY <2>1, <2>4, PopKeeps DEF UnwindInv
<1>3. ASSUME NEW p \in PoolThreads, NEW d \in Detached, Terminate(p, d) PROVE UnwindInv'
  <2>1. UNCHANGED <<stack, owner, wpc, st>>
    BY <1>3 DEF Terminate
  <2>2. Calm
    BY <2>1 DEF Calm
  <2> QED BY <2>1, <2>2, StillKeeps, CalmKeeps DEF UnwindInv
<1> QED BY <1>1, <1>2, <1>3 DEF ThrowStep

\* Every step keeps it.
LEMMA StepUnwind == IndInv /\ UnwindInv /\ [Next]_vars => UnwindInv'
<1> SUFFICES ASSUME IndInv, UnwindInv, [Next]_vars PROVE UnwindInv'
  OBVIOUS
<1>0. /\ wpc \in [Waiters -> {"out", "run", "loop", "waiting", "returned", "threw"}]
      /\ st \in [Coros -> {"none", "running", "suspended", "job", "get", "done", "threw"}]
  BY DEF IndInv, TypeOK
<1>k. ASSUME UNCHANGED <<stack, owner>>,
             \A v \in Waiters : wpc'[v] = "threw" => wpc[v] = "threw",
             \A e \in Coros : st[e] = "threw" => st'[e] = "threw"
      PROVE  UnwindInv'
  <2>1. Calm
    BY <1>k DEF Calm, Coros
  <2> QED BY <1>k, <2>1, StillKeeps, CalmKeeps DEF UnwindInv
<1>1. ASSUME NEW w \in Waiters, WaitStep(w) \/ Spurious(w) PROVE UnwindInv'
  <2>1. ASSUME BackInRun(w) \/ Sleep(w) \/ Spurious(w) \/ Returns(w) PROVE UnwindInv'
    <3>1. UNCHANGED <<stack, owner, st>>
      BY <2>1 DEF BackInRun, Sleep, Spurious, Returns
    <3>2. \A v \in Waiters : wpc'[v] = "threw" => wpc[v] = "threw"
      BY <1>0, <2>1 DEF BackInRun, Sleep, Spurious, Returns
    <3> QED BY <1>k, <3>1, <3>2
  <2>2. ASSUME RunJob(w) PROVE UnwindInv'
    <3>1. w \in Threads /\ w \in Executors /\ TakeJob(w, w)
      BY <2>2 DEF RunJob, Threads, Executors
    <3>2. \A v \in Waiters : wpc'[v] = "threw" => wpc[v] = "threw"
      BY <1>0, <2>2 DEF RunJob
    <3> QED BY <3>1, <3>2, TakeKeeps
  <2> QED BY <1>1, <2>1, <2>2, WaitKeeps DEF WaitStep
<1>2. ASSUME NEW p \in PoolThreads, RunPoolJob(p) PROVE UnwindInv'
  <2>1. p \in Threads /\ p \notin Waiters /\ Pool \in Executors
    BY WaitAssumption DEF Threads, Executors
  <2>2. TakeJob(p, Pool) /\ UNCHANGED wpc
    BY <1>2 DEF RunPoolJob
  <2> QED BY <2>1, <2>2, TakeKeeps
<1>3. ASSUME NEW t \in Threads, NEW c \in Coros, CoroStep(t, c) PROVE UnwindInv'
  <2>1. ASSUME Invoke(t, c) \/ AssignFuture(t, c) \/ ResumeCoro(t, c) \/ Get(t, c)
        PROVE  UnwindInv'
    <3>1. UNCHANGED <<stack, owner, wpc>> /\ \A e \in Coros : st[e] = "threw" => st'[e] = "threw"
      BY <1>0, <2>1 DEF Invoke, AssignFuture, ResumeCoro, Get
    <3> QED BY <1>k, <3>1
  <2>2. ASSUME Suspended(t, c) \/ Finish(t, c) PROVE UnwindInv'
    <3>1. /\ stack[t] # <<>> /\ UNCHANGED <<owner, wpc>>
          /\ stack' = [stack EXCEPT ![t] = Tail(stack[t])]
          /\ \A e \in Coros : st[e] = "threw" => st'[e] = "threw"
      BY <1>0, <2>2 DEF Suspended, Finish, Runs
    <3>2. Calm
      BY <3>1 DEF Calm, Coros
    <3> QED BY <3>1, <3>2, PopKeeps, CalmKeeps DEF UnwindInv
  <2> QED BY <1>3, <2>1, <2>2 DEF CoroStep
<1>4. ASSUME NEW t \in Threads, NEW c \in Coros, NEW d \in Detached, Detach(t, c, d)
      PROVE  UnwindInv'
  BY <1>4, DetachKeeps
<1>5. ASSUME NEW c \in Coros, Worker(c) PROVE UnwindInv'
  <2>1. UNCHANGED <<stack, owner, st>>
    BY <1>5 DEF Worker, CallableEnds, Post, WorkerReturns
  <2>2. \A v \in Waiters : wpc'[v] = "threw" => wpc[v] = "threw"
    BY <1>0, <1>5 DEF Worker, CallableEnds, Post, WorkerReturns, Notify
  <2> QED BY <1>k, <2>1, <2>2
<1>6. ASSUME UNCHANGED vars PROVE UnwindInv'
  BY <1>6, <1>k DEF vars
<1>7. ASSUME ThrowStep PROVE UnwindInv'
  BY <1>7, ThrowKeeps
<1> QED BY <1>1, <1>2, <1>3, <1>4, <1>5, <1>6, <1>7 DEF Next, Step

\* wait() is left by an exception only when a detached coroutine that has its
\* executor throws, whatever it detaches itself and to which executor.
THEOREM Unwinding == Spec => []UnwindInv
<1>1. Init => UnwindInv
  <2> SUFFICES ASSUME Init, NEW w \in Waiters PROVE RootInv(w) /\ ThrewInv(w)
    BY DEF UnwindInv
  <2>1. stack[w] = <<>> /\ wpc[w] = "out"
    BY DEF Init, Threads
  <2> QED BY <2>1 DEF RootInv, ThrewInv
<1> QED BY <1>1, Invariance, StepUnwind, PTL DEF Spec

\* Whoever posts or has a job is suspended, and so is not done.
LEMMA InvOutlives == IndInv /\ UnwindInv => ExecutorOutlivesUsers
<1> SUFFICES ASSUME IndInv, UnwindInv, NEW c \in Coros, ~Borrows(c)
             PROVE  /\ worker[c] = "post" => Alive(owner[c]) \/ Unwound(owner[c])
                    /\ \A x \in Executors : Has(queue[x], c) => Alive(x) \/ Unwound(x)
  BY DEF ExecutorOutlivesUsers, Has
<1>1. st[c] = "suspended" => Alive(owner[c]) \/ Unwound(owner[c])
  <2>1. CASE c \in Detached
    BY <2>1 DEF Borrows, Alive
  <2>2. CASE c \in Waiters
    <3>1. /\ wpc[c] \in {"out", "run", "loop", "waiting", "returned", "threw"} /\ WaiterInv(c)
          /\ ThrewInv(c)
      BY <2>2 DEF IndInv, TypeOK, UnwindInv
    <3> QED BY <2>2, <3>1 DEF WaiterInv, ThrewInv, Alive, Unwound
  <2> QED BY <2>1, <2>2 DEF Coros
<1>2. worker[c] = "post" => st[c] = "suspended"
  BY DEF IndInv, WorkInv
<1>3. \A x \in Executors : Has(queue[x], c) => x = owner[c] /\ st[c] = "suspended"
  BY DEF IndInv, QueueInv
<1> QED BY <1>1, <1>2, <1>3

\* wait() is left, and destroys its wait_executor, only when its task neither
\* posts to it nor has a job in it, unless a detached coroutine it resumed has
\* thrown; a coroutine detached to another executor never uses it.
THEOREM ExecutorOutlives == Spec => []ExecutorOutlivesUsers
BY Invariance, Unwinding, InvOutlives, PTL
=============================================================================
