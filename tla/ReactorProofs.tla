--------------------------- MODULE ReactorProofs ----------------------------
(***************************************************************************)
(* Proofs about the life of the reactors: of the global one that the       *)
(* handles own (ReactorHandle), and of the Windows reactor, its thread and *)
(* the operations that outlast it (IocpReactor).                           *)
(*                                                                         *)
(* Handles, when main() owns one around the rest of the program            *)
(* (co_main.hxx), for any number of threads and whatever step of start()   *)
(* fails.  The argument: the other threads are active only while main owns *)
(* its handle, so they never find a count of 0 and main alone starts and   *)
(* stops the reactor (RoleInv); the count is the number of handles; and    *)
(* main gets past each step of start() only when the steps before it       *)
(* succeeded (StartInv).                                                   *)
(*                                                                         *)
(* Windows, for any number of coroutines and of starts of the reactor: no  *)
(* OVERLAPPED is used after it is destroyed, and every operation is        *)
(* answered at most once, with what the kernel said of it.  The argument:  *)
(* the mutex is held exactly while the coroutine is inside await_suspend   *)
(* (InSuspend), so the thread stores a result only after await_suspend has *)
(* stored its own (ResultInv); and a packet that was taken is in the       *)
(* thread's hands until it becomes a job (TakenInv), so that the coroutine *)
(* cannot have gone on meanwhile.                                          *)
(***************************************************************************)
EXTENDS ReactorHandle, IocpReactor, FiniteSetTheorems, TLAPS

-----------------------------------------------------------------------------
(* The handles.                                                             *)

Live ==
    /\ epoll = "running" /\ uring \notin {"fresh", "stopped"}
    /\ HasUring /\ "ring" \notin CanFail => uring = "running"

\* Who may be where.
RoleInv ==
    /\ pc[Main] # "weak"
    /\ \A u \in Users : u # Main =>
          /\ pc[u] \in {"out", "test", "inc", "shared", "weak"}
          /\ pc[u] # "out" => pc[Main] = "shared"

\* How far start() has got, as main sees it.
StartInv ==
    /\ ~HasUring => uring = "null"
    /\ pc[Main] = "epoll_start" /\ HasUring /\ "ring" \notin CanFail => uring = "fresh"
    /\ pc[Main] = "uring_start" => epoll = "running" /\ uring # "null"
    /\ pc[Main] = "uring_start" /\ "ring" \notin CanFail => uring = "fresh"
    /\ pc[Main] \in {"inc", "shared"} => Live

IndInv == TypeOK /\ RoleInv /\ StartInv /\ RefsCountHandles /\ ChecksHold

-----------------------------------------------------------------------------
\* The handles are finite in number, and main's is among them while another
\* thread is active.
LEMMA HolderFacts ==
    ASSUME IndInv
    PROVE  /\ IsFiniteSet(Holders) /\ Cardinality(Holders) \in Nat
           /\ \A u \in Users : u \in Holders => Cardinality(Holders) >= 1
           /\ \A u \in Users : u # Main /\ u \in Holders => Cardinality(Holders) >= 2
           /\ Holders # {} => Main \in Holders
<1>1. Holders \in SUBSET Users
  BY DEF Holders
<1>2. IsFiniteSet(Holders) /\ Cardinality(Holders) \in Nat
  BY <1>1, FS_Subset, FS_CardinalityType, HandleAssumption
<1>3. Holders # {} => Main \in Holders
  BY HandleAssumption DEF IndInv, RoleInv, Holders
<1>4. ASSUME NEW u \in Users, u \in Holders
      PROVE  Cardinality(Holders) >= 1
  <2>1. Cardinality(Holders \ {u}) = Cardinality(Holders) - 1 /\ IsFiniteSet(Holders \ {u})
    BY <1>2, <1>4, FS_RemoveElement
  <2>2. Cardinality(Holders \ {u}) \in Nat
    BY <2>1, FS_CardinalityType
  <2> QED BY <2>1, <2>2, <1>2
<1>5. ASSUME NEW u \in Users, u # Main, u \in Holders
      PROVE  Cardinality(Holders) >= 2
  <2> DEFINE R == Holders \ {u}
  <2>1. Cardinality(R) = Cardinality(Holders) - 1 /\ IsFiniteSet(R)
    BY <1>2, <1>5, FS_RemoveElement
  <2>2. Main \in R
    BY <1>3, <1>5
  <2>3. Cardinality(R \ {Main}) = Cardinality(R) - 1 /\ IsFiniteSet(R \ {Main})
    BY <2>1, <2>2, FS_RemoveElement
  <2>4. Cardinality(R \ {Main}) \in Nat
    BY <2>3, FS_CardinalityType
  <2> QED BY <2>1, <2>3, <2>4, <1>2
<1> QED BY <1>2, <1>3, <1>4, <1>5

\* A step of a thread that owns no handle before or after changes no count.
LEMMA KeepHolders ==
    ASSUME TypeOK, NEW u \in Users, NEW l, Goto(u, l),
           u \notin Holders, l \notin {"shared", "weak"}
    PROVE  Holders' = Holders
  BY DEF TypeOK, Goto, Holders

\* A thread that obtains a handle adds one.
LEMMA AddHolder ==
    ASSUME IndInv, NEW u \in Users, NEW l, Goto(u, l),
           u \notin Holders, l \in {"shared", "weak"}
    PROVE  Cardinality(Holders') = Cardinality(Holders) + 1
<1>1. Holders' = Holders \cup {u}
  BY DEF IndInv, TypeOK, Goto, Holders
<1> QED BY <1>1, HolderFacts, FS_AddElement

\* A thread that drops its handle removes one.
LEMMA RemoveHolder ==
    ASSUME IndInv, NEW u \in Users, NEW l, Goto(u, l),
           u \in Holders, l \notin {"shared", "weak"}
    PROVE  Cardinality(Holders') = Cardinality(Holders) - 1
<1>1. Holders' = Holders \ {u}
  BY DEF IndInv, TypeOK, Goto, Holders
<1> QED BY <1>1, HolderFacts, FS_RemoveElement

\* Before the first get() there is no handle and no reactor.
LEMMA InitInv == Init => IndInv
<1> SUFFICES ASSUME Init PROVE IndInv
  OBVIOUS
<1>1. TypeOK /\ RoleInv /\ StartInv /\ ChecksHold
  BY HandleAssumption DEF Init, TypeOK, RoleInv, StartInv, ChecksHold
<1>2. Holders = {}
  BY DEF Init, Holders
<1>3. RefsCountHandles
  BY <1>2, FS_EmptySet DEF Init, RefsCountHandles
<1> QED BY <1>1, <1>3 DEF IndInv

\* The steps of get() before a reactor part is started.
LEMMA GetInv ==
    ASSUME MainHolds, IndInv, NEW u \in Users,
           Lock(u) \/ Test(u) \/ NewEpoll(u) \/ NewUring(u)
    PROVE  IndInv'
<1> USE HandleAssumption
<1>1. /\ u \notin Holders
      /\ pc' = pc \/ \E l \in {"test", "epoll_new", "inc", "uring_new", "out", "epoll_start"} :
                        Goto(u, l)
  BY DEF Lock, Test, TestFirst, NewEpoll, NewUring, Fail, Goto, Holders
<1>2. Holders' = Holders
  <2>1. CASE pc' = pc
    BY <2>1 DEF Holders
  <2>2. CASE \E l \in {"test", "epoll_new", "inc", "uring_new", "out", "epoll_start"} :
                Goto(u, l)
    BY <1>1, <2>2, KeepHolders DEF IndInv
  <2> QED BY <1>1, <2>1, <2>2
<1>3. RefsCountHandles'
  BY <1>2 DEF IndInv, RefsCountHandles, Lock, Test, NewEpoll, NewUring
<1>4. u # Main /\ pc[u] # "out" => refs # 0
  BY HolderFacts DEF IndInv, RoleInv, RefsCountHandles, Holders
<1>5. refs # 0 => pc[Main] # "test"
  <2>1. SUFFICES ASSUME pc[Main] = "test" PROVE Holders = {}
    BY FS_EmptySet DEF IndInv, RefsCountHandles
  <2> QED BY <2>1 DEF IndInv, RoleInv, Holders
<1>6. CASE Lock(u)
  BY <1>3, <1>6 DEF IndInv, TypeOK, RoleInv, StartInv, Live, ChecksHold, Lock, Goto, MayStart
<1>7. CASE Test(u)
  BY <1>3, <1>4, <1>5, <1>7
     DEF IndInv, TypeOK, RoleInv, StartInv, Live, ChecksHold, Test, TestFirst, Goto
<1>8. CASE NewEpoll(u)
  BY <1>3, <1>8 DEF IndInv, TypeOK, RoleInv, StartInv, Live, ChecksHold, NewEpoll, Goto
<1>9. CASE NewUring(u)
  BY <1>3, <1>9 DEF IndInv, TypeOK, RoleInv, StartInv, Live, ChecksHold, NewUring, Fail, Goto
<1> QED BY <1>6, <1>7, <1>8, <1>9

\* The steps of start() that start a thread, which only main executes.
LEMMA StartStepInv ==
    ASSUME IndInv, NEW u \in Users, StartEpoll(u) \/ StartUring(u)
    PROVE  IndInv'
<1> USE HandleAssumption
<1>1. u = Main /\ u \notin Holders
  BY DEF IndInv, RoleInv, StartEpoll, StartUring, Holders
<1>2. \E l \in {"inc", "uring_start", "out"} : Goto(u, l)
  BY DEF StartEpoll, StartUring, Fail
<1>3. Holders' = Holders
  BY <1>1, <1>2, KeepHolders DEF IndInv
<1>4. RefsCountHandles'
  BY <1>3 DEF IndInv, RefsCountHandles, StartEpoll, StartUring
<1>5. CASE StartEpoll(u)
  BY <1>1, <1>4, <1>5
     DEF IndInv, TypeOK, RoleInv, StartInv, Live, ChecksHold, StartEpoll, Fail, Goto
<1>6. CASE StartUring(u)
  BY <1>1, <1>4, <1>6
     DEF IndInv, TypeOK, RoleInv, StartInv, Live, ChecksHold, StartUring, Fail, Goto
<1> QED BY <1>5, <1>6

\* get() returns a handle.
LEMMA IncrementInv ==
    ASSUME IndInv, NEW u \in Users, Increment(u)
    PROVE  IndInv'
<1> USE HandleAssumption
<1>1. u \notin Holders /\ Goto(u, "shared")
  BY DEF Increment, Holders
<1>2. RefsCountHandles'
  BY <1>1, AddHolder DEF IndInv, RefsCountHandles, Increment
<1> QED
  BY <1>2 DEF IndInv, TypeOK, RoleInv, StartInv, Live, ChecksHold, Increment, Goto

\* The destructor of a shared handle: main's is the last one.
LEMMA DropInv ==
    ASSUME MainHolds, IndInv, NEW u \in Users, Drop(u)
    PROVE  IndInv'
<1> USE HandleAssumption
<1>1. u \in Holders /\ refs = Cardinality(Holders) /\ refs >= 1
  BY HolderFacts DEF IndInv, RefsCountHandles, Drop, Holders
<1>2. Goto(u, IF refs - 1 > 0 THEN "out" ELSE "stop_epoll")
  BY DEF Drop, Last
<1>3. RefsCountHandles'
  BY <1>1, <1>2, RemoveHolder DEF RefsCountHandles, Drop
<1>4. u # Main => refs - 1 > 0
  BY <1>1, HolderFacts DEF IndInv, TypeOK
<1>5. refs - 1 \in Nat
  BY <1>1 DEF IndInv, TypeOK
<1>6. u = Main => \A v \in Users : v # Main => pc[v] = "out"
  BY DEF Drop, MayDrop
<1>7. TypeOK'
  BY <1>2, <1>5 DEF IndInv, TypeOK, Drop, Goto
<1>8. RoleInv'
  BY <1>2, <1>4, <1>6 DEF IndInv, TypeOK, RoleInv, Drop, Goto
<1>9. StartInv' /\ ChecksHold'
  BY <1>2 DEF IndInv, TypeOK, StartInv, Live, ChecksHold, Drop, Goto
<1> QED BY <1>3, <1>7, <1>8, <1>9 DEF IndInv

\* The steps of stop(), which only main executes, when no handle is left.
LEMMA StopStepInv ==
    ASSUME IndInv, NEW u \in Users, StopEpoll(u) \/ StopUring(u)
    PROVE  IndInv'
<1> USE HandleAssumption
<1>1. u = Main /\ u \notin Holders
  BY DEF IndInv, RoleInv, StopEpoll, StopUring, Holders
<1>2. \E l \in {"out", "stop_uring"} : Goto(u, l)
  BY DEF StopEpoll, StopUring
<1>3. Holders' = Holders
  BY <1>1, <1>2, KeepHolders DEF IndInv
<1>4. RefsCountHandles'
  BY <1>3 DEF IndInv, RefsCountHandles, StopEpoll, StopUring
<1> QED
  BY <1>1, <1>4 DEF IndInv, TypeOK, RoleInv, StartInv, Live, ChecksHold,
                    StopEpoll, StopUring, Stopped, Goto

\* A weak handle is obtained while main owns a shared one.
LEMMA WeakGetInv ==
    ASSUME MainHolds, IndInv, NEW u \in Users, WeakGet(u)
    PROVE  IndInv'
<1> USE HandleAssumption
<1>1. u \notin Holders /\ Goto(u, "weak")
  BY DEF WeakGet, Holders
<1>2. u # Main /\ pc[Main] = "shared"
  BY DEF IndInv, RoleInv, WeakGet, MayStart, Shared
<1>3. refs >= 1
  BY <1>2, HolderFacts DEF IndInv, RefsCountHandles, Holders
<1>4. RefsCountHandles'
  BY <1>1, AddHolder DEF IndInv, RefsCountHandles, WeakGet
<1> QED
  BY <1>2, <1>3, <1>4
     DEF IndInv, TypeOK, RoleInv, StartInv, Live, ChecksHold, WeakGet, Goto

\* A weak handle is dropped: main's shared one still counts.
LEMMA WeakDropInv ==
    ASSUME IndInv, NEW u \in Users, WeakDrop(u)
    PROVE  IndInv'
<1> USE HandleAssumption
<1>1. u \in Holders /\ u # Main /\ Goto(u, "out")
  BY DEF IndInv, RoleInv, WeakDrop, Holders
<1>2. refs = Cardinality(Holders) /\ refs >= 2
  BY <1>1, HolderFacts DEF IndInv, RefsCountHandles
<1>3. RefsCountHandles'
  BY <1>1, <1>2, RemoveHolder DEF RefsCountHandles, WeakDrop
<1>4. refs - 1 \in Nat /\ refs - 1 > 0
  BY <1>2 DEF IndInv, TypeOK
<1> QED
  BY <1>1, <1>3, <1>4
     DEF IndInv, TypeOK, RoleInv, StartInv, Live, ChecksHold, WeakDrop, Goto

-----------------------------------------------------------------------------
\* IndInv is an invariant of programs whose main() owns a handle.
THEOREM Invariance == ASSUME MainHolds PROVE Spec => []IndInv
<1>1. IndInv /\ [Next]_vars => IndInv'
  <2> SUFFICES ASSUME IndInv, [Next]_vars PROVE IndInv'
    OBVIOUS
  <2>1. CASE UNCHANGED vars
    BY <2>1 DEF vars, IndInv, TypeOK, RoleInv, StartInv, Live, RefsCountHandles,
                Holders, ChecksHold
  <2>2. ASSUME NEW u \in Users, Step(u) PROVE IndInv'
    <3>1. CASE Lock(u) \/ Test(u) \/ NewEpoll(u) \/ NewUring(u)
      BY <3>1, GetInv
    <3>2. CASE StartEpoll(u) \/ StartUring(u)
      BY <3>2, StartStepInv
    <3>3. CASE Increment(u)
      BY <3>3, IncrementInv
    <3>4. CASE Drop(u)
      BY <3>4, DropInv
    <3>5. CASE StopEpoll(u) \/ StopUring(u)
      BY <3>5, StopStepInv
    <3>6. CASE WeakGet(u)
      BY <3>6, WeakGetInv
    <3>7. CASE WeakDrop(u)
      BY <3>7, WeakDropInv
    <3> QED
      BY <2>2, <3>1, <3>2, <3>3, <3>4, <3>5, <3>6, <3>7 DEF Step, GetStep, DropStep
  <2> QED BY <2>1, <2>2 DEF Next
<1> QED BY <1>1, InitInv, PTL DEF Spec

\* While main() owns a handle, whoever owns one finds the reactor started and
\* not being stopped, whichever steps of earlier starts failed.
THEOREM HandlesLive == ASSUME MainHolds PROVE Spec => []HandleIsLive
<1>1. IndInv => HandleIsLive
  <2> SUFFICES ASSUME IndInv, Holders # {} PROVE
                 /\ epoll = "running" /\ uring \notin {"fresh", "stopped"}
                 /\ HasUring /\ "ring" \notin CanFail => uring = "running"
                 /\ \A u \in Users : pc[u] \notin {"stop_epoll", "stop_uring"}
    BY DEF HandleIsLive
  <2>1. pc[Main] = "shared"
    BY HolderFacts DEF IndInv, RoleInv, Holders
  <2> QED BY <2>1 DEF IndInv, RoleInv, StartInv, Live
<1> QED BY <1>1, Invariance, PTL

\* reactor_refs is the number of handles, so that the last owner stops the
\* reactor and nobody else.
THEOREM RefsCounted == ASSUME MainHolds PROVE Spec => []RefsCountHandles
<1>1. IndInv => RefsCountHandles
  BY DEF IndInv
<1> QED BY <1>1, Invariance, PTL

\* The SK_CHECKs of weak_reactor_handle hold.
THEOREM WeakChecks == ASSUME MainHolds PROVE Spec => []ChecksHold
<1>1. IndInv => ChecksHold
  BY DEF IndInv
<1> QED BY <1>1, Invariance, PTL

\* The type invariant.
THEOREM TypeCorrect == ASSUME MainHolds PROVE Spec => []TypeOK
<1>1. IndInv => TypeOK
  BY DEF IndInv
<1> QED BY <1>1, Invariance, PTL

\* reactor_refs is right and the checks that rely on it hold.
THEOREM CountIsSafe == ASSUME MainHolds PROVE Spec => []CountSafe
BY TypeCorrect, RefsCounted, WeakChecks, PTL DEF CountSafe

-----------------------------------------------------------------------------
(* The Windows reactor.                                                     *)

\* The thread is busy with the operation of c.
InHand(c) == tpc \in {"got", "post"} /\ cur = c

\* The thread has an operation in its hands exactly when it is not waiting, and
\* there is a thread only between start() and the end of stop().
ThreadInv ==
    /\ tpc \in {"got", "post"} <=> cur \in Coros
    /\ owner = "down" => tpc = "none"

\* Where a coroutine is inside await_suspend, and what it knows there.
InSuspend(c) ==
    /\ mtx[c] <=> cpc[c] \in {"locked", "begun"}
    /\ cpc[c] = "locked" => io[c] = "none" /\ call[c] = "none"
    /\ io[c] \in {"pending", "packet"} => cpc[c] \in {"begun", "suspended"}
    /\ cpc[c] \in {"begun", "suspended"} => call[c] # "none"
    /\ io[c] = "pending" => call[c] = "pending"

\* A packet that was taken: the thread has it, or a job has been posted for it.
TakenInv(c) ==
    /\ InHand(c) => io[c] = "taken" /\ cpc[c] \in {"begun", "suspended"} /\ c \notin jobs
    /\ tpc = "post" /\ cur = c => cpc[c] = "suspended"
    /\ c \in jobs => io[c] = "taken" /\ cpc[c] = "suspended"

\* What is known of the outcome, and what has been stored of it.
ResultInv(c) ==
    /\ cpc[c] \in {"begun", "suspended"} /\ call[c] # "pending" => outcome[c] = call[c]
    /\ cpc[c] \in {"begun", "suspended"} /\ io[c] \in {"packet", "taken"} =>
          outcome[c] # "none"
    /\ cpc[c] = "suspended" =>
          result[c] = IF c \in jobs \/ (tpc = "post" /\ cur = c) THEN outcome[c] ELSE call[c]
    /\ cpc[c] = "resumed" => result[c] = outcome[c] /\ outcome[c] # "none"

OpInv(c) == InSuspend(c) /\ TakenInv(c) /\ ResultInv(c)

IocpInv == IocpTypeOK /\ ThreadInv /\ \A c \in Coros : OpInv(c)

-----------------------------------------------------------------------------
(* The invariant is inductive.                                              *)

\* Before start() there is no operation.
LEMMA IocpInitInv == IocpInit => IocpInv
BY IocpAssumption
DEF IocpInit, IocpInv, IocpTypeOK, ThreadInv, OpInv, InSuspend, TakenInv,
    ResultInv, InHand

\* Steps of the owner of the reactor.
LEMMA OwnerInv ==
    ASSUME IocpInv, Start \/ StartFails \/ StopClose \/ StopJoin
    PROVE  IocpInv'
<1>1. CASE Start
  BY <1>1, IocpAssumption
  DEF Start, opVars, IocpInv, IocpTypeOK, ThreadInv, OpInv,
      InSuspend, TakenInv, ResultInv, InHand
<1>2. CASE StartFails
  BY <1>2, IocpAssumption
  DEF StartFails, opVars, IocpInv, IocpTypeOK, ThreadInv, OpInv,
      InSuspend, TakenInv, ResultInv, InHand
<1>3. CASE StopClose
  BY <1>3
  DEF StopClose, IocpInv, IocpTypeOK, ThreadInv, OpInv, InSuspend, TakenInv,
      ResultInv, InHand
<1>4. CASE StopJoin
  BY <1>4
  DEF StopJoin, opVars, IocpInv, IocpTypeOK, ThreadInv, OpInv, InSuspend,
      TakenInv, ResultInv, InHand
<1> QED BY <1>1, <1>2, <1>3, <1>4

\* A step that changes the operation of c alone leaves what is known of the
\* others as it was.
LEMMA Others ==
    ASSUME IocpInv, NEW c \in Coros, NEW d \in Coros, d # c,
           UNCHANGED <<tpc, cur>>,
           cpc'[d] = cpc[d], io'[d] = io[d], outcome'[d] = outcome[d],
           call'[d] = call[d], result'[d] = result[d], mtx'[d] = mtx[d],
           d \in jobs' <=> d \in jobs
    PROVE  OpInv(d)'
BY DEF IocpInv, OpInv, InSuspend, TakenInv, ResultInv, InHand

\* Steps of a coroutine, and the kernel that completes its operation.
LEMMA CoroutineInv ==
    ASSUME IocpInv, NEW c \in Coros,
           Associate(c) \/ Suspend(c) \/ Coroutine(c) \/ Complete(c)
    PROVE  IocpInv'
<1>0. IocpTypeOK /\ ThreadInv /\ InSuspend(c) /\ TakenInv(c) /\ ResultInv(c)
  BY DEF IocpInv, OpInv
<1>h. ThreadInv'
  BY <1>0
  DEF ThreadInv, Associate, Suspend, Coroutine, Begin,
      Suspended, Resume, Finish, Complete, ctlVars,
      opVars
<1>o. ASSUME NEW d \in Coros, d # c PROVE OpInv(d)'
  <2>1. /\ UNCHANGED <<tpc, cur>>
        /\ cpc'[d] = cpc[d] /\ io'[d] = io[d] /\ outcome'[d] = outcome[d]
        /\ call'[d] = call[d] /\ result'[d] = result[d] /\ mtx'[d] = mtx[d]
        /\ d \in jobs' <=> d \in jobs
    BY <1>0, <1>o
    DEF IocpTypeOK, Associate, Suspend, Coroutine, Begin,
        Suspended, Resume, Finish, Complete, ctlVars,
        opVars
  <2> QED BY <1>o, <2>1, Others
<1>c. IocpTypeOK' /\ OpInv(c)'
  <2>1. CASE Associate(c)
    <3>1. IocpTypeOK'
      BY <1>0, <2>1 DEF Associate, opVars, IocpTypeOK
    <3>2. OpInv(c)'
      BY <1>0, <2>1
      DEF Associate, opVars, IocpTypeOK, OpInv, InSuspend, TakenInv,
          ResultInv, InHand
    <3> QED BY <3>1, <3>2
  <2>2. CASE Suspend(c)
    <3>1. IocpTypeOK'
      BY <1>0, <2>2 DEF Suspend, ctlVars, IocpTypeOK
    <3>2. OpInv(c)'
      BY <1>0, <2>2
      DEF Suspend, ctlVars, IocpTypeOK, OpInv, InSuspend, TakenInv,
          ResultInv, InHand
    <3> QED BY <3>1, <3>2
  <2>3. CASE Begin(c)
    <3>1. IocpTypeOK'
      BY <1>0, <2>3 DEF Begin, ctlVars, IocpTypeOK
    <3>2. OpInv(c)'
      BY <1>0, <2>3
      DEF Begin, ctlVars, IocpTypeOK, OpInv, InSuspend, TakenInv,
          ResultInv, InHand
    <3> QED BY <3>1, <3>2
  <2>4. CASE Suspended(c)
    <3>1. IocpTypeOK'
      BY <1>0, <2>4
      DEF Suspended, AlwaysSuspend, ctlVars, IocpTypeOK
    <3>2. OpInv(c)'
      BY <1>0, <2>4
      DEF Suspended, AlwaysSuspend, ctlVars, IocpTypeOK, OpInv,
          InSuspend, TakenInv, ResultInv, InHand
    <3> QED BY <3>1, <3>2
  <2>5. CASE Resume(c)
    <3>1. IocpTypeOK'
      BY <1>0, <2>5 DEF Resume, ctlVars, opVars, IocpTypeOK
    <3>2. OpInv(c)'
      BY <1>0, <2>5
      DEF Resume, ctlVars, opVars, IocpTypeOK, OpInv, InSuspend,
          TakenInv, ResultInv, InHand
    <3> QED BY <3>1, <3>2
  <2>6. CASE Finish(c)
    <3>1. IocpTypeOK'
      BY <1>0, <2>6 DEF Finish, ctlVars, opVars, IocpTypeOK
    <3>2. OpInv(c)'
      BY <1>0, <2>6
      DEF Finish, ctlVars, opVars, IocpTypeOK, OpInv, InSuspend,
          TakenInv, ResultInv, InHand
    <3> QED BY <3>1, <3>2
  <2>7. CASE Complete(c)
    <3>1. IocpTypeOK'
      BY <1>0, <2>7 DEF Complete, ctlVars, IocpTypeOK
    <3>2. OpInv(c)'
      BY <1>0, <2>7
      DEF Complete, ctlVars, IocpTypeOK, OpInv, InSuspend, TakenInv,
          ResultInv, InHand
    <3> QED BY <3>1, <3>2
  <2> QED BY <2>1, <2>2, <2>3, <2>4, <2>5, <2>6, <2>7 DEF Coroutine
<1> QED BY <1>c, <1>h, <1>o DEF IocpInv

\* Steps of the completion thread.
LEMMA CompletionInv ==
    ASSUME IocpInv, Thread
    PROVE  IocpInv'
<1>1. CASE ThreadBegins \/ ThreadExits
  BY <1>1
  DEF ThreadBegins, ThreadExits, ctlVars, opVars, IocpInv,
      IocpTypeOK, ThreadInv, OpInv, InSuspend, TakenInv, ResultInv, InHand
<1>2. ASSUME NEW c \in Coros, Dequeue(c) PROVE IocpInv'
  BY <1>2, IocpAssumption
  DEF Dequeue, ctlVars, IocpInv, IocpTypeOK, ThreadInv, OpInv,
      InSuspend, TakenInv, ResultInv, InHand
<1>3. CASE Store
  BY <1>3
  DEF Store, ThreadMayLock, ctlVars, IocpInv, IocpTypeOK, ThreadInv,
      OpInv, InSuspend, TakenInv, ResultInv, InHand
<1>4. CASE Post
  BY <1>4, IocpAssumption
  DEF Post, MustPost, ctlVars, opVars, IocpInv,
      IocpTypeOK, ThreadInv, OpInv, InSuspend, TakenInv, ResultInv, InHand
<1> QED BY <1>1, <1>2, <1>3, <1>4 DEF Thread

\* The inductive invariant, for any coroutines and any number of starts.
THEOREM IocpInvariance == IocpSpec => []IocpInv
<1>1. IocpInv /\ [IocpNext]_iocpVars => IocpInv'
  <2> SUFFICES ASSUME IocpInv, [IocpNext]_iocpVars PROVE IocpInv'
    OBVIOUS
  <2>1. CASE Start \/ StartFails \/ StopClose \/ StopJoin
    BY <2>1, OwnerInv
  <2>2. ASSUME NEW c \in Coros,
               Associate(c) \/ Suspend(c) \/ Coroutine(c) \/ Complete(c)
        PROVE  IocpInv'
    BY <2>2, CoroutineInv
  <2>3. CASE Thread
    BY <2>3, CompletionInv
  <2>4. CASE UNCHANGED iocpVars
    BY <2>4
    DEF iocpVars, ctlVars, opVars, IocpInv, IocpTypeOK, ThreadInv,
        OpInv, InSuspend, TakenInv, ResultInv, InHand
  <2> QED BY <2>1, <2>2, <2>3, <2>4 DEF IocpNext
<1> QED BY <1>1, IocpInitInv, PTL DEF IocpSpec

\* No OVERLAPPED is used by the kernel or by completion_thread_fn() after its
\* coroutine has gone on and destroyed it.
THEOREM OverlappedLives == IocpSpec => []OverlappedIsLive
<1>1. IocpInv => OverlappedIsLive
  BY DEF IocpInv, OpInv, InSuspend, TakenInv, InHand, OverlappedIsLive
<1> QED BY IocpInvariance, <1>1, PTL

\* An operation is answered at most once, after await_suspend has let the
\* coroutine go, and with what the kernel said of it, whichever of await_suspend
\* and the completion thread comes first to the mutex.
THEOREM AnswersAreSafe == IocpSpec => []AnswerSafe
<1>1. IocpInv => IocpTypeOK
  BY DEF IocpInv
<1>2. IocpInv => ResultIsOutcome
  BY DEF IocpInv, OpInv, ResultInv, ResultIsOutcome
<1>3. IocpInv => PostedOnce
  BY DEF IocpInv, IocpTypeOK, OpInv, TakenInv, InHand, PostedOnce
<1>4. IocpInv => AnswerSafe
  BY <1>1, <1>2, <1>3 DEF AnswerSafe
<1> QED BY IocpInvariance, <1>4, PTL
=============================================================================
