-------------------------- MODULE MtExecutorProofs --------------------------
(***************************************************************************)
(* mt_executor implements WorkQueue and wakes enough threads, for every    *)
(* set of items and every finite set of threads.                           *)
(***************************************************************************)
EXTENDS MtExecutor, FiniteSetTheorems, TLAPS

\* An item is in one place only: once in _work, on one thread, or executed.
OnePlace ==
    /\ \A j, k \in 1 .. Len(work) : work[j] = work[k] => j = k
    /\ \A j \in 1 .. Len(work) :
          work[j] \in posted /\ work[j] \notin done
          /\ \A t \in Threads : pc[t] = "running" => item[t] # work[j]
    /\ \A t, u \in Threads :
          pc[t] = "running" /\ pc[u] = "running" /\ item[t] = item[u] => t = u
    /\ \A t \in Threads :
          pc[t] = "running" => item[t] \in posted /\ item[t] \notin done
    /\ done \subseteq posted

\* A thread object exists for every pool thread that has not left run().
PoolInv ==
    /\ \A t \in Pool : pc[t] # "none" /\ pc[t] # "exited" => t \in threads
    /\ stopper = "returned" => threads = {}

IndInv ==
    TypeOK /\ OnePlace /\ PoolInv /\ WorkConserving /\ NobodySleepsAfterStop

-----------------------------------------------------------------------------
\* Each step keeps the types of mt_executor's members.
LEMMA TypeStep == TypeOK /\ OnePlace /\ [Next]_vars => TypeOK'
<1> SUFFICES ASSUME TypeOK, OnePlace, [Next]_vars PROVE TypeOK'
  OBVIOUS
<1> USE DEF TypeOK
<1>1. ASSUME NEW i \in Items, Post(i) PROVE TypeOK'
  BY <1>1 DEF Post, NotifyOne, Waiting
<1>2. ASSUME NEW t \in Threads, Sleep(t) \/ Exit(t) \/ Spurious(t) \/ CallRun(t)
      PROVE TypeOK'
  BY <1>2 DEF Sleep, Exit, Spurious, CallRun
<1>3. ASSUME NEW t \in Threads, Take(t) PROVE TypeOK'
  <2>1. Head(work) \in Items /\ Tail(work) \in Seq(Items)
    BY <1>3 DEF Take
  <2> QED BY <1>3, <2>1 DEF Take
<1>4. ASSUME NEW t \in Threads, Finish(t) PROVE TypeOK'
  BY <1>4 DEF Finish, OnePlace
<1>5. ASSUME NEW S \in SUBSET Pool, StartThreads(S) PROVE TypeOK'
  BY <1>5 DEF StartThreads
<1>6. CASE StopBegin
  BY <1>6 DEF StopBegin, NotifyAll
<1>7. ASSUME NEW t \in Threads, StopJoin(t) PROVE TypeOK'
  BY <1>7 DEF StopJoin
<1>8. CASE StopReturn
  BY <1>8 DEF StopReturn
<1>9. CASE UNCHANGED vars
  BY <1>9 DEF vars
<1> QED
  BY <1>1, <1>2, <1>3, <1>4, <1>5, <1>6, <1>7, <1>8, <1>9 DEF Next, RunStep

\* An item moves from _work to one thread, and from there to done.
LEMMA OnePlaceStep == TypeOK /\ OnePlace /\ [Next]_vars => OnePlace'
<1> SUFFICES ASSUME TypeOK, OnePlace, [Next]_vars PROVE OnePlace'
  OBVIOUS
<1>1. ASSUME NEW i \in Items, Post(i) PROVE OnePlace'
  <2>1. /\ \A t \in Threads : (pc'[t] = "running") = (pc[t] = "running")
        /\ item' = item /\ done' = done /\ posted' = posted \cup {i}
    BY <1>1 DEF Post, NotifyOne, Waiting, TypeOK
  <2>2. /\ Len(work') = Len(work) + 1 /\ Len(work) \in Nat
        /\ \A j \in 1 .. Len(work) : work'[j] = work[j]
        /\ work'[Len(work) + 1] = i
    BY <1>1 DEF Post, TypeOK
  <2>3. i \notin posted
    BY <1>1 DEF Post
  <2> QED BY <2>1, <2>2, <2>3 DEF OnePlace
<1>2. ASSUME NEW t \in Threads, Sleep(t) \/ Exit(t) \/ Spurious(t) \/ CallRun(t)
      PROVE OnePlace'
  BY <1>2 DEF Sleep, Exit, Spurious, CallRun, OnePlace, TypeOK
<1>3. ASSUME NEW t \in Threads, Take(t) PROVE OnePlace'
  <2>1. /\ Len(work) \in Nat \ {0} /\ Len(work') = Len(work) - 1
        /\ \A j \in 1 .. Len(work') : work'[j] = work[j + 1]
    BY <1>3 DEF Take, TypeOK
  <2>2. /\ item'[t] = work[1] /\ pc'[t] = "running"
        /\ done' = done /\ posted' = posted
        /\ \A u \in Threads : u # t => item'[u] = item[u] /\ pc'[u] = pc[u]
    BY <1>3 DEF Take, TypeOK
  <2>3. \A j \in 1 .. Len(work') : j + 1 \in 1 .. Len(work) /\ j + 1 # 1
    BY <2>1
  <2>4. 1 \in 1 .. Len(work)
    BY <2>1
  <2>5. \A j, k \in 1 .. Len(work') : work'[j] = work'[k] => j = k
    BY <2>1, <2>3 DEF OnePlace
  <2>6. \A j \in 1 .. Len(work') :
           work'[j] \in posted /\ work'[j] \notin done /\ work'[j] # work[1]
    BY <2>1, <2>3, <2>4 DEF OnePlace
  <2>7. \A j \in 1 .. Len(work'), u \in Threads :
           pc'[u] = "running" => item'[u] # work'[j]
    BY <2>1, <2>2, <2>3, <2>6 DEF OnePlace
  <2>8. /\ \A u \in Threads : u # t /\ pc[u] = "running" => item[u] # work[1]
        /\ work[1] \in posted /\ work[1] \notin done
    BY <2>4 DEF OnePlace
  <2> QED BY <2>2, <2>5, <2>6, <2>7, <2>8 DEF OnePlace
<1>4. ASSUME NEW t \in Threads, Finish(t) PROVE OnePlace'
  <2>1. /\ pc[t] = "running" /\ done' = done \cup {item[t]}
        /\ work' = work /\ posted' = posted /\ pc'[t] = "ready"
        /\ \A u \in Threads : u # t => item'[u] = item[u] /\ pc'[u] = pc[u]
    BY <1>4 DEF Finish, TypeOK
  <2> QED BY <2>1 DEF OnePlace
<1>5. ASSUME NEW S \in SUBSET Pool, StartThreads(S) PROVE OnePlace'
  BY <1>5 DEF StartThreads, OnePlace, TypeOK
<1>6. CASE StopBegin
  BY <1>6 DEF StopBegin, NotifyAll, OnePlace, TypeOK
<1>7. ASSUME NEW t \in Threads, StopJoin(t) PROVE OnePlace'
  BY <1>7 DEF StopJoin, OnePlace
<1>8. CASE StopReturn
  BY <1>8 DEF StopReturn, OnePlace
<1>9. CASE UNCHANGED vars
  BY <1>9 DEF vars, OnePlace
<1> QED
  BY <1>1, <1>2, <1>3, <1>4, <1>5, <1>6, <1>7, <1>8, <1>9 DEF Next, RunStep

\* _threads holds the pool threads that stop() still has to join.
LEMMA PoolStep == TypeOK /\ PoolInv /\ [Next]_vars => PoolInv'
<1> SUFFICES ASSUME TypeOK, PoolInv, [Next]_vars PROVE PoolInv'
  OBVIOUS
<1> USE PoolAssumption DEF PoolInv, TypeOK, Threads
<1>1. ASSUME NEW i \in Items, Post(i) PROVE PoolInv'
  BY <1>1 DEF Post, NotifyOne, Waiting
<1>2. ASSUME NEW t \in Threads,
             Sleep(t) \/ Exit(t) \/ Spurious(t) \/ Take(t) \/ Finish(t)
      PROVE PoolInv'
  BY <1>2 DEF Sleep, Exit, Spurious, Take, Finish
<1>3. ASSUME NEW t \in Threads, CallRun(t) PROVE PoolInv'
  BY <1>3 DEF CallRun
<1>4. ASSUME NEW S \in SUBSET Pool, StartThreads(S) PROVE PoolInv'
  BY <1>4 DEF StartThreads
<1>5. CASE StopBegin
  BY <1>5 DEF StopBegin, NotifyAll
<1>6. ASSUME NEW t \in Threads, StopJoin(t) PROVE PoolInv'
  BY <1>6 DEF StopJoin, Joinable
<1>7. CASE StopReturn
  BY <1>7 DEF StopReturn
<1>8. CASE UNCHANGED vars
  BY <1>8 DEF vars
<1> QED
  BY <1>1, <1>2, <1>3, <1>4, <1>5, <1>6, <1>7, <1>8 DEF Next, RunStep

\* notify_all reaches every sleeper, and nobody goes to sleep after _stop.
LEMMA SleepStep ==
    TypeOK /\ NobodySleepsAfterStop /\ [Next]_vars => NobodySleepsAfterStop'
<1> SUFFICES ASSUME TypeOK, NobodySleepsAfterStop, [Next]_vars
             PROVE  NobodySleepsAfterStop'
  OBVIOUS
<1> USE DEF NobodySleepsAfterStop, TypeOK, Waiting
<1>1. ASSUME NEW i \in Items, Post(i) PROVE NobodySleepsAfterStop'
  BY <1>1 DEF Post, NotifyOne
<1>2. ASSUME NEW t \in Threads, RunStep(t) \/ Spurious(t) \/ CallRun(t)
      PROVE NobodySleepsAfterStop'
  BY <1>2 DEF RunStep, Sleep, Exit, Spurious, Take, Finish, CallRun
<1>3. ASSUME NEW S \in SUBSET Pool, StartThreads(S) PROVE NobodySleepsAfterStop'
  BY <1>3 DEF StartThreads
<1>4. CASE StopBegin
  BY <1>4 DEF StopBegin, NotifyAll
<1>5. ASSUME NEW t \in Threads, StopJoin(t) PROVE NobodySleepsAfterStop'
  BY <1>5 DEF StopJoin
<1>6. CASE StopReturn
  BY <1>6 DEF StopReturn
<1>7. CASE UNCHANGED vars
  BY <1>7 DEF vars
<1> QED BY <1>1, <1>2, <1>3, <1>4, <1>5, <1>6, <1>7 DEF Next

\* There are finitely many threads, hence finitely many awake ones.
LEMMA AwakeFinite == IsFiniteSet(Awake) /\ Cardinality(Awake) \in Nat
<1>1. IsFiniteSet(Threads)
  BY PoolAssumption, FS_Union DEF Threads
<1>2. Awake \in SUBSET Threads
  BY DEF Awake
<1>3. IsFiniteSet(Awake)
  BY <1>1, <1>2, FS_Subset
<1> QED BY <1>3, FS_CardinalityType

\* The same in the next state.
LEMMA AwakeFinitePrime == IsFiniteSet(Awake') /\ Cardinality(Awake') \in Nat
<1>1. IsFiniteSet(Threads)
  BY PoolAssumption, FS_Union DEF Threads
<1>2. Awake' \in SUBSET Threads
  BY DEF Awake
<1>3. IsFiniteSet(Awake')
  BY <1>1, <1>2, FS_Subset
<1> QED BY <1>3, FS_CardinalityType

\* More threads awake for no more work keeps the balance.
LEMMA MoreAwake ==
    ASSUME TypeOK, WorkConserving, work' = work,
           Awake \subseteq Awake', Waiting' \subseteq Waiting
    PROVE  WorkConserving'
<1>1. Cardinality(Awake) <= Cardinality(Awake')
  BY AwakeFinitePrime, FS_Subset
<1>2. Len(work) \in Nat
  BY DEF TypeOK
<1> QED BY <1>1, <1>2, AwakeFinite, AwakeFinitePrime DEF WorkConserving

\* post() wakes one sleeper for the item it adds; a thread takes one item
\* when it stops being awake; a thread goes to sleep only on an empty queue.
LEMMA ConservingStep ==
    TypeOK /\ NobodySleepsAfterStop /\ WorkConserving /\ [Next]_vars
        => WorkConserving'
<1> SUFFICES ASSUME TypeOK, NobodySleepsAfterStop, WorkConserving, [Next]_vars
             PROVE  WorkConserving'
  OBVIOUS
<1>0. Len(work) \in Nat
  BY DEF TypeOK
<1>1. ASSUME NEW i \in Items, Post(i) PROVE WorkConserving'
  <2>1. Len(work') = Len(work) + 1
    BY <1>1 DEF Post, TypeOK
  <2>2. CASE Waiting = {}
    BY <1>1, <2>2 DEF Post, NotifyOne, WorkConserving, Waiting
  <2>3. CASE Waiting # {}
    <3>1. PICK t \in Waiting : pc' = [pc EXCEPT ![t] = "ready"]
      BY <1>1, <2>3 DEF Post, NotifyOne
    <3>2. t \notin Awake /\ Awake' = Awake \cup {t}
      BY <3>1 DEF Waiting, Awake, TypeOK
    <3>3. Cardinality(Awake') = Cardinality(Awake) + 1
      BY <3>2, AwakeFinite, FS_AddElement
    <3> QED BY <1>0, <2>1, <2>3, <3>3, AwakeFinite DEF WorkConserving
  <2> QED BY <2>2, <2>3
<1>2. ASSUME NEW t \in Threads, Sleep(t) PROVE WorkConserving'
  <2>1. Len(work') = 0
    BY <1>2 DEF Sleep
  <2> QED BY <2>1, AwakeFinitePrime DEF WorkConserving
<1>3. ASSUME NEW t \in Threads, Exit(t) PROVE WorkConserving'
  BY <1>3 DEF Exit, NobodySleepsAfterStop, WorkConserving, Waiting, TypeOK
<1>4. ASSUME NEW t \in Threads, Take(t) PROVE WorkConserving'
  <2>1. Len(work') = Len(work) - 1
    BY <1>4 DEF Take, TypeOK
  <2>2. t \in Awake /\ Awake' = Awake \ {t} /\ Waiting' = Waiting
    BY <1>4 DEF Take, Awake, Waiting, TypeOK
  <2>3. Cardinality(Awake') = Cardinality(Awake) - 1
    BY <2>2, AwakeFinite, FS_RemoveElement
  <2> QED BY <1>0, <2>1, <2>2, <2>3, AwakeFinite DEF WorkConserving
<1>5. ASSUME NEW t \in Threads, Finish(t) \/ Spurious(t) \/ CallRun(t)
      PROVE WorkConserving'
  <2>1. work' = work /\ Awake \subseteq Awake' /\ Waiting' \subseteq Waiting
    BY <1>5 DEF Finish, Spurious, CallRun, Awake, Waiting, TypeOK
  <2> QED BY <2>1, MoreAwake
<1>6. ASSUME NEW S \in SUBSET Pool, StartThreads(S) PROVE WorkConserving'
  <2>1. work' = work /\ Awake \subseteq Awake' /\ Waiting' \subseteq Waiting
    BY <1>6 DEF StartThreads, Awake, Waiting, TypeOK
  <2> QED BY <2>1, MoreAwake
<1>7. CASE StopBegin
  BY <1>7 DEF StopBegin, NotifyAll, WorkConserving, Waiting, TypeOK
<1>8. ASSUME NEW t \in Threads, StopJoin(t) PROVE WorkConserving'
  BY <1>8 DEF StopJoin, WorkConserving, Waiting, Awake
<1>9. CASE StopReturn \/ UNCHANGED vars
  BY <1>9 DEF StopReturn, vars, WorkConserving, Waiting, Awake
<1> QED
  BY <1>1, <1>2, <1>3, <1>4, <1>5, <1>6, <1>7, <1>8, <1>9 DEF Next, RunStep

\* The initial state: no thread and no work.
LEMMA InitInv == Init => IndInv
<1> SUFFICES ASSUME Init PROVE IndInv
  OBVIOUS
<1>1. TypeOK
  <2>1. work \in Seq(Items)
    BY DEF Init
  <2>2. pc \in [Threads -> {"none", "ready", "waiting", "running", "exited"}]
    BY DEF Init
  <2>3. item \in [Threads -> Items \cup {NoItem}]
    BY DEF Init
  <2> QED BY <2>1, <2>2, <2>3 DEF Init, TypeOK
<1>2. Waiting = {}
  BY DEF Init, Waiting
<1>3. \A t \in Threads : pc[t] = "none"
  BY DEF Init
<1>4. OnePlace
  <2>1. 1 .. Len(work) = {}
    BY DEF Init
  <2> QED BY <1>3, <2>1 DEF Init, OnePlace
<1>5. PoolInv
  BY <1>3 DEF Init, PoolInv, Threads
<1> QED BY <1>1, <1>2, <1>4, <1>5 DEF IndInv, WorkConserving, NobodySleepsAfterStop

\* IndInv is an invariant of mt_executor.
THEOREM Invariance == Spec => []IndInv
<1>1. IndInv /\ [Next]_vars => IndInv'
  BY TypeStep, OnePlaceStep, PoolStep, SleepStep, ConservingStep DEF IndInv
<1> QED BY <1>1, InitInv, PTL DEF Spec

\* The members of mt_executor keep their types.
THEOREM TypeCorrect == Spec => []TypeOK
<1>1. IndInv => TypeOK
  BY DEF IndInv
<1> QED BY <1>1, Invariance, PTL

\* One notify_one per post() is enough to keep every queued item served.
THEOREM Conserving == Spec => []WorkConserving
<1>1. IndInv => WorkConserving
  BY DEF IndInv
<1> QED BY <1>1, Invariance, PTL

\* After stop() has set _stop no thread sleeps in _cv.wait.
THEOREM SleepersTold == Spec => []NobodySleepsAfterStop
<1>1. IndInv => NobodySleepsAfterStop
  BY DEF IndInv
<1> QED BY <1>1, Invariance, PTL

\* stop() returns only when every pool thread has left run().
THEOREM StoppedWhenReturned == Spec => []PoolStopped
<1>1. IndInv => PoolStopped
  BY DEF IndInv, PoolInv, PoolStopped, TypeOK, Threads
<1> QED BY <1>1, Invariance, PTL

\* mt_executor implements WorkQueue: FIFO, at most once, none after stop().
THEOREM Refinement == Spec => ImplementsQueue
<1> DEFINE Act == {item[t] : t \in Running}
<1>1. Init => Queue!Init
  BY DEF Init, Queue!Init, Running
<1>2. IndInv /\ [Next]_vars => [Queue!Next]_Queue!vars
  <2> SUFFICES ASSUME IndInv, [Next]_vars, ~(UNCHANGED Queue!vars)
               PROVE  Queue!Next
    OBVIOUS
  <2> USE DEF Queue!vars
  <2>1. ASSUME NEW i \in Items, Post(i) PROVE Queue!Next
    <3>1. Running' = Running
      BY <2>1 DEF Post, NotifyOne, Waiting, Running, IndInv, TypeOK
    <3>2. Act' = Act
      BY <2>1, <3>1 DEF Post
    <3> QED BY <2>1, <3>2 DEF Post, Queue!Next, Queue!Post
  <2>2. ASSUME NEW t \in Threads, Take(t) PROVE Queue!Next
    <3>1. Running' = Running \cup {t} /\ t \notin Running
      BY <2>2 DEF Take, Running, IndInv, TypeOK
    <3>2. Act' = Act \cup {Head(work)}
      BY <2>2, <3>1 DEF Take, Running, IndInv, TypeOK
    <3>3. 1 \in 1 .. Len(work) /\ Head(work) = work[1]
      BY <2>2 DEF Take, IndInv, TypeOK
    <3>4. Head(work) \notin Act \cup done
      BY <3>3 DEF IndInv, OnePlace, Running
    <3> QED BY <2>2, <3>2, <3>4 DEF Take, Queue!Next, Queue!Begin
  <2>3. ASSUME NEW t \in Threads, Finish(t) PROVE Queue!Next
    <3>1. Running' = Running \ {t} /\ t \in Running
      BY <2>3 DEF Finish, Running, IndInv, TypeOK
    <3>2. \A u \in Running : u # t => item[u] # item[t] /\ item'[u] = item[u]
      BY <2>3, <3>1 DEF Finish, Running, IndInv, OnePlace, TypeOK
    <3>3. Act' = Act \ {item[t]} /\ item[t] \in Act
      BY <3>1, <3>2
    <3>4. item[t] \in Items
      BY <3>1 DEF Running, IndInv, OnePlace, TypeOK
    <3> QED BY <2>3, <3>3, <3>4 DEF Finish, Queue!Next, Queue!End
  <2>4. ASSUME NEW t \in Threads, Sleep(t) \/ Exit(t) \/ Spurious(t) \/ CallRun(t)
        PROVE Queue!Next
    <3>1. Running' = Running
      BY <2>4 DEF Sleep, Exit, Spurious, CallRun, Running, IndInv, TypeOK
    <3> QED BY <2>4, <3>1 DEF Sleep, Exit, Spurious, CallRun
  <2>5. ASSUME NEW S \in SUBSET Pool, StartThreads(S) PROVE Queue!Next
    <3>1. Running' = Running
      BY <2>5 DEF StartThreads, Running, IndInv, TypeOK
    <3> QED BY <2>5, <3>1 DEF StartThreads
  <2>6. CASE StopBegin
    <3>1. Running' = Running
      BY <2>6 DEF StopBegin, NotifyAll, Running, IndInv, TypeOK
    <3> QED BY <2>6, <3>1 DEF StopBegin, Queue!Next, Queue!Close
  <2>7. ASSUME NEW t \in Threads, StopJoin(t) PROVE Queue!Next
    BY <2>7 DEF StopJoin, Running
  <2>8. CASE StopReturn \/ UNCHANGED vars
    BY <2>8 DEF StopReturn, vars, Running
  <2> QED
    BY <2>1, <2>2, <2>3, <2>4, <2>5, <2>6, <2>7, <2>8 DEF Next, RunStep
<1> QED BY <1>1, <1>2, Invariance, PTL DEF Spec, ImplementsQueue, Queue!Spec

\* The safety of the pool: the invariants above together.
THEOREM PoolIsSafe == Spec => []PoolSafe
BY TypeCorrect, Conserving, SleepersTold, StoppedWhenReturned, PTL DEF PoolSafe
=============================================================================
