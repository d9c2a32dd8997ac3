------------------------- MODULE EpollReactorProofs -------------------------
(***************************************************************************)
(* Safety of the epoll reactor for every set of fds and coroutines, every  *)
(* batch size and both build modes.  All theorems follow from one          *)
(* inductive invariant, IndInv, proved action by action.                   *)
(***************************************************************************)
EXTENDS EpollReactor, TLAPS

\* Only an fd with an fd_state is in the epoll set, and an fd stays in it
\* while an operation is outstanding.
FdInv ==
    /\ \A f \in Fds : added[f] => assoc[f]
    /\ \A c \in Coros : cpc[c] # "idle" => added[FdOf[c]]

\* A waiter pointer leads to the suspended coroutine it was registered by.
WaiterInv ==
    \A f \in Fds, d \in Dirs : waiter[f][d] # None =>
        /\ FdOf[waiter[f][d]] = f /\ DirOf(waiter[f][d]) = d
        /\ cpc[waiter[f][d]] = "waiting" /\ jobs[waiter[f][d]] = 0

\* A suspended coroutine is either posted, once, or still its fd's waiter.
CoroInv ==
    \A c \in Coros :
        /\ jobs[c] \in {0, 1}
        /\ jobs[c] = 1 => cpc[c] = "waiting"
        /\ cpc[c] = "waiting" /\ jobs[c] = 0 => waiter[FdOf[c]][DirOf(c)] = c

\* While the reactor runs a read_waiter's event is armed or in flight.
ArmInv ==
    stop = "running" =>
        \A f \in Fds : waiter[f]["IN"] # None =>
            "IN" \in mask[f] \/ "IN" \in inflight[f]

\* No edge is missed: what is armed and ready is on the ready list.
EdgeInv == \A f \in Fds : Ready(f) \cap mask[f] # {} => f \in rdl

\* EPOLLIN is armed or in flight only on behalf of a registered waiter, and
\* both at once only when a write_waiter armed it too.  EPOLLOUT never is.
StaleInv ==
    \A f \in Fds :
        /\ "OUT" \notin mask[f] /\ "OUT" \notin inflight[f]
        /\ "IN" \in mask[f] \/ "IN" \in inflight[f] =>
              waiter[f]["IN"] # None \/ waiter[f]["OUT"] # None
        /\ "IN" \in mask[f] /\ "IN" \in inflight[f] => waiter[f]["OUT"] # None

\* EPOLLIN is in event.events only while some waiter is registered.
EventsInv ==
    \A f \in Fds :
        /\ "OUT" \notin events[f]
        /\ "IN" \in events[f] => waiter[f]["IN"] # None \/ waiter[f]["OUT"] # None

\* Outside a batch the epoll thread holds no event.
BatchInv ==
    epc \in {"pulled", "locked"} \/ \A f \in Fds : inflight[f] = {}

\* A locked cstate.mutex has a holder that will release it.
MutexInv ==
    /\ \A c \in Coros : cmtx[c] => cpc[c] = "locked" \/ tail[c] > 0 \/ holds = c
    /\ holds # None => epc = "locked"

\* The shutdown pipe is written by stop() only.
StopInv == pipe # "empty" \/ shutEv => stop # "running"

IndInv ==
    /\ TypeOK /\ FdInv /\ WaiterInv /\ CoroInv /\ ArmInv /\ EdgeInv
    /\ StaleInv /\ EventsInv /\ BatchInv /\ MutexInv /\ StopInv /\ NoNullDeref

-----------------------------------------------------------------------------
\* Nobody waits on an fd that is not in the epoll set or has no operation.
LEMMA IdleFd ==
    ASSUME IndInv, NEW f \in Fds, ~added[f] \/ ~Busy(f), NEW d \in Dirs
    PROVE  waiter[f][d] = None
  BY CoroAssumption DEF IndInv, TypeOK, FdInv, WaiterInv, Busy

\* A coroutine inside await_suspend finds its waiter field free.
LEMMA FreeField ==
    ASSUME IndInv, NEW c \in Coros, cpc[c] = "locked"
    PROVE  waiter[FdOf[c]][DirOf(c)] = None
<1> DEFINE w == waiter[FdOf[c]][DirOf(c)]
<1>1. w \in Coros \cup {None} /\ FdOf[c] \in Fds /\ DirOf(c) \in Dirs
  BY CoroAssumption DEF IndInv, TypeOK, DirOf, Dirs
<1>2. CASE w \in Coros /\ w # None
  <2>1. FdOf[w] = FdOf[c] /\ DirOf(w) = DirOf(c) /\ cpc[w] = "waiting"
    BY <1>1, <1>2 DEF IndInv, WaiterInv
  <2> QED BY <1>2, <2>1, OneWaiterAssumption
<1> QED BY <1>1, <1>2

\* EPOLLIN in flight implies that the fd_state exists.
LEMMA InFlightFd ==
    ASSUME IndInv, NEW f \in Fds, "IN" \in inflight[f]
    PROVE  assoc[f]
<1>1. PICK d \in Dirs : waiter[f][d] # None
  BY DEF IndInv, StaleInv, Dirs
<1>2. waiter[f][d] \in Coros /\ FdOf[waiter[f][d]] = f /\ cpc[waiter[f][d]] = "waiting"
  BY <1>1 DEF IndInv, TypeOK, WaiterInv
<1>3. added[f]
  BY <1>2 DEF IndInv, FdInv
<1> QED BY <1>3 DEF IndInv, FdInv

\* The initial state.
LEMMA InitInv == Init => IndInv
<1> SUFFICES ASSUME Init PROVE IndInv OBVIOUS
<1>1. TypeOK
  <2>1. avail \in [Fds -> [Dirs -> 0 .. SockBuf]]
    <3>1. 0 \in 0 .. SockBuf
      BY BoundAssumption
    <3> QED BY <3>1 DEF Init
  <2>2. waiter \in [Fds -> [Dirs -> Coros \cup {None}]]
    BY DEF Init
  <2>3. cpc \in [Coros -> {"idle", "try", "locked", "waiting"}]
    BY DEF Init
  <2>4. cmtx \in [Coros -> BOOLEAN] /\ tail \in [Coros -> Nat]
        /\ jobs \in [Coros -> Nat]
    BY DEF Init
  <2>5. assoc \in [Fds -> BOOLEAN] /\ added \in [Fds -> BOOLEAN]
        /\ hup \in [Fds -> BOOLEAN] /\ stale \in [Fds -> BOOLEAN]
    BY DEF Init
  <2> QED BY <2>1, <2>2, <2>3, <2>4, <2>5 DEF Init, TypeOK, Dirs, Bits
<1>2. FdInv /\ WaiterInv /\ CoroInv /\ BatchInv /\ MutexInv /\ StopInv
      /\ NoNullDeref
  BY CoroAssumption
  DEF Init, FdInv, WaiterInv, CoroInv, BatchInv, MutexInv, StopInv, NoNullDeref
<1>3. ArmInv /\ StaleInv /\ EventsInv /\ EdgeInv
  BY DEF Init, ArmInv, StaleInv, EventsInv, EdgeInv, Dirs
<1> QED BY <1>1, <1>2, <1>3 DEF IndInv

\* Steps that change nothing.
LEMMA StutterInv == IndInv /\ UNCHANGED vars => IndInv'
  BY DEF IndInv, TypeOK, FdInv, WaiterInv, CoroInv, ArmInv, EdgeInv, StaleInv,
         EventsInv, BatchInv, MutexInv, StopInv, NoNullDeref, Ready,
         vars, fdVars, kernelVars, threadVars, coroVars

\* associate_fd: an fd outside the epoll set has no waiter to lose.
LEMMA AssociateInv ==
    ASSUME IndInv, NEW f \in Fds, NEW ok \in BOOLEAN,
           Associate(f, ok)
    PROVE  IndInv'
<1>1. TypeOK'
  BY CoroAssumption, BoundAssumption
  DEF IndInv, TypeOK, Dirs, Bits, Associate, AddMask, fdVars, kernelVars,
      threadVars, coroVars, DirOf, Coros
<1>2. FdInv'
  BY CoroAssumption
  DEF IndInv, FdInv, TypeOK, Associate, AddMask, fdVars, kernelVars,
      threadVars, coroVars, DirOf, Coros
<1>3. WaiterInv'
  BY IdleFd, CoroAssumption
  DEF IndInv, WaiterInv, CoroInv, TypeOK, Dirs, Associate, AddMask, fdVars,
      kernelVars, threadVars, coroVars, DirOf, Coros
<1>4. CoroInv'
  BY IdleFd, CoroAssumption
  DEF IndInv, CoroInv, WaiterInv, TypeOK, Dirs, Associate, AddMask, fdVars,
      kernelVars, threadVars, coroVars, DirOf, Coros
<1>5. ArmInv'
  BY IdleFd, CoroAssumption
  DEF IndInv, ArmInv, TypeOK, Dirs, Associate, AddMask, fdVars, kernelVars,
      threadVars, coroVars, DirOf, Coros
<1>6. EdgeInv'
  BY CoroAssumption
  DEF IndInv, EdgeInv, TypeOK, Ready, Dirs, Bits, Associate, AddMask, fdVars,
      kernelVars, threadVars, coroVars
<1>7. StaleInv'
  BY IdleFd, CoroAssumption
  DEF IndInv, StaleInv, TypeOK, Dirs, Bits, Associate, AddMask, fdVars,
      kernelVars, threadVars, coroVars, DirOf, Coros
<1>8. EventsInv'
  BY IdleFd, CoroAssumption
  DEF IndInv, EventsInv, TypeOK, Dirs, Associate, AddMask, fdVars, kernelVars,
      threadVars, coroVars, DirOf, Coros
<1>9. BatchInv' /\ MutexInv' /\ StopInv' /\ NoNullDeref'
  BY DEF IndInv, BatchInv, MutexInv, StopInv, NoNullDeref, Associate, AddMask,
         fdVars, kernelVars, threadVars, coroVars
<1> QED BY <1>1, <1>2, <1>3, <1>4, <1>5, <1>6, <1>7, <1>8, <1>9 DEF IndInv

\* deassociate_fd: no operation is outstanding, so nobody waits on the fd.
LEMMA DeassociateInv ==
    ASSUME IndInv, NEW f \in Fds,
           Deassociate(f)
    PROVE  IndInv'
<1>1. TypeOK'
  BY CoroAssumption, BoundAssumption
  DEF IndInv, TypeOK, Dirs, Bits, Deassociate, Forget, fdVars, kernelVars,
      threadVars, coroVars
<1>2. FdInv'
  BY CoroAssumption
  DEF IndInv, FdInv, TypeOK, Busy, Deassociate, Forget, fdVars, kernelVars,
      threadVars, coroVars
<1>3. ArmInv'
  BY IdleFd, CoroAssumption
  DEF IndInv, ArmInv, TypeOK, Dirs, Deassociate, Forget, fdVars, kernelVars,
      threadVars, coroVars
<1>4. EdgeInv'
  BY CoroAssumption
  DEF IndInv, EdgeInv, TypeOK, Ready, Dirs, Bits, Deassociate, Forget, fdVars,
      kernelVars, threadVars, coroVars
<1>5. StaleInv'
  BY IdleFd, CoroAssumption
  DEF IndInv, StaleInv, TypeOK, Dirs, Bits, Deassociate, Forget, fdVars,
      kernelVars, threadVars, coroVars
<1>6. WaiterInv' /\ CoroInv' /\ EventsInv' /\ BatchInv' /\ MutexInv'
      /\ StopInv' /\ NoNullDeref'
  BY DEF IndInv, WaiterInv, CoroInv, EventsInv, BatchInv, MutexInv, StopInv,
         NoNullDeref, Deassociate, Forget, fdVars, kernelVars, threadVars,
         coroVars
<1> QED BY <1>1, <1>2, <1>3, <1>4, <1>5, <1>6 DEF IndInv

\* async_close: likewise, though the fd_state stays.
LEMMA AsyncCloseInv ==
    ASSUME IndInv, NEW f \in Fds,
           AsyncClose(f)
    PROVE  IndInv'
<1>1. TypeOK'
  BY CoroAssumption, BoundAssumption
  DEF IndInv, TypeOK, Dirs, Bits, AsyncClose, Forget, fdVars, kernelVars,
      threadVars, coroVars
<1>2. FdInv'
  BY CoroAssumption
  DEF IndInv, FdInv, TypeOK, Busy, AsyncClose, Forget, fdVars, kernelVars,
      threadVars, coroVars
<1>3. ArmInv'
  BY IdleFd, CoroAssumption
  DEF IndInv, ArmInv, TypeOK, Dirs, AsyncClose, Forget, fdVars, kernelVars,
      threadVars, coroVars
<1>4. EdgeInv'
  BY CoroAssumption
  DEF IndInv, EdgeInv, TypeOK, Ready, Dirs, Bits, AsyncClose, Forget, fdVars,
      kernelVars, threadVars, coroVars
<1>5. StaleInv'
  BY IdleFd, CoroAssumption
  DEF IndInv, StaleInv, TypeOK, Dirs, Bits, AsyncClose, Forget, fdVars,
      kernelVars, threadVars, coroVars
<1>6. WaiterInv' /\ CoroInv' /\ EventsInv' /\ BatchInv' /\ MutexInv'
      /\ StopInv' /\ NoNullDeref'
  BY DEF IndInv, WaiterInv, CoroInv, EventsInv, BatchInv, MutexInv, StopInv,
         NoNullDeref, AsyncClose, Forget, fdVars, kernelVars, threadVars,
         coroVars
<1> QED BY <1>1, <1>2, <1>3, <1>4, <1>5, <1>6 DEF IndInv

\* close(): the same, and the number stays in the closed socket.
LEMMA CloseInv ==
    ASSUME IndInv, NEW f \in Fds,
           Close(f)
    PROVE  IndInv'
<1>1. TypeOK'
  BY CoroAssumption, BoundAssumption
  DEF IndInv, TypeOK, Dirs, Bits, Close, Forget, fdVars, kernelVars,
      threadVars, coroVars
<1>2. FdInv'
  BY CoroAssumption
  DEF IndInv, FdInv, TypeOK, Busy, Close, Forget, fdVars, kernelVars,
      threadVars, coroVars
<1>3. ArmInv'
  BY IdleFd, CoroAssumption
  DEF IndInv, ArmInv, TypeOK, Dirs, Close, Forget, fdVars, kernelVars,
      threadVars, coroVars
<1>4. EdgeInv'
  BY CoroAssumption
  DEF IndInv, EdgeInv, TypeOK, Ready, Dirs, Bits, Close, Forget, fdVars,
      kernelVars, threadVars, coroVars
<1>5. StaleInv'
  BY IdleFd, CoroAssumption
  DEF IndInv, StaleInv, TypeOK, Dirs, Bits, Close, Forget, fdVars,
      kernelVars, threadVars, coroVars
<1>6. WaiterInv' /\ CoroInv' /\ EventsInv' /\ BatchInv' /\ MutexInv'
      /\ StopInv' /\ NoNullDeref'
  BY DEF IndInv, WaiterInv, CoroInv, EventsInv, BatchInv, MutexInv, StopInv,
         NoNullDeref, Close, Forget, fdVars, kernelVars, threadVars,
         coroVars
<1> QED BY <1>1, <1>2, <1>3, <1>4, <1>5, <1>6 DEF IndInv

\* The destructor of a closed socket resets an fd_state that nobody waits in.
LEMMA DestroyClosedInv ==
    ASSUME IndInv, NEW f \in Fds,
           DestroyClosed(f)
    PROVE  IndInv'
<1>1. TypeOK'
  BY CoroAssumption, BoundAssumption
  DEF IndInv, TypeOK, DestroyClosed, kernelVars, threadVars, coroVars
<1>2. FdInv'
  BY CoroAssumption
  DEF IndInv, FdInv, TypeOK, DestroyClosed, kernelVars, coroVars
<1>3. WaiterInv' /\ CoroInv' /\ ArmInv' /\ EdgeInv' /\ StaleInv' /\ EventsInv'
      /\ BatchInv' /\ MutexInv' /\ StopInv' /\ NoNullDeref'
  BY DEF IndInv, WaiterInv, CoroInv, ArmInv, EdgeInv, StaleInv, EventsInv,
         BatchInv, MutexInv, StopInv, NoNullDeref, Ready, DestroyClosed,
         kernelVars, threadVars, coroVars
<1> QED BY <1>1, <1>2, <1>3 DEF IndInv

\* The destructor of a closed socket aborts, or hits another socket.
LEMMA DestroyFaultsInv ==
    ASSUME IndInv, NEW f \in Fds,
           DestroyFaults(f)
    PROVE  IndInv'
<1>1. TypeOK'
  BY DEF IndInv, TypeOK, DestroyFaults, fdVars, kernelVars, threadVars, coroVars
<1>2. NoNullDeref'
  BY DEF IndInv, NoNullDeref, DestroyFaults
<1>3. FdInv' /\ WaiterInv' /\ CoroInv' /\ ArmInv' /\ EdgeInv'
      /\ StaleInv' /\ EventsInv' /\ BatchInv' /\ MutexInv' /\ StopInv'
  BY DEF IndInv, FdInv, WaiterInv, CoroInv, ArmInv, EdgeInv, StaleInv,
         EventsInv, BatchInv, MutexInv, StopInv, Ready, DestroyFaults,
         fdVars, kernelVars, threadVars, coroVars
<1> QED BY <1>1, <1>2, <1>3 DEF IndInv

\* Data arrives: an armed fd joins the ready list.
LEMMA ArriveInv ==
    ASSUME IndInv, NEW f \in Fds, NEW d \in Dirs,
           Arrive(f, d)
    PROVE  IndInv'
<1>1. TypeOK'
  BY CoroAssumption, BoundAssumption
  DEF IndInv, TypeOK, Dirs, Bits, Arrive, Wake, fdVars, kernelVars,
      threadVars, coroVars
<1>2. EdgeInv'
  BY CoroAssumption
  DEF IndInv, EdgeInv, TypeOK, Ready, Dirs, Bits, Arrive, Wake, fdVars,
      kernelVars, threadVars, coroVars
<1>3. FdInv' /\ WaiterInv' /\ CoroInv' /\ ArmInv' /\ StaleInv'
      /\ EventsInv' /\ BatchInv' /\ MutexInv' /\ StopInv' /\ NoNullDeref'
  BY DEF IndInv, FdInv, WaiterInv, CoroInv, ArmInv, StaleInv, EventsInv,
         BatchInv, MutexInv, StopInv, NoNullDeref, Arrive, Wake, fdVars,
         kernelVars, threadVars, coroVars
<1> QED BY <1>1, <1>2, <1>3 DEF IndInv

\* Announced data is gone.
LEMMA VanishInv ==
    ASSUME IndInv, NEW f \in Fds,
           Vanish(f)
    PROVE  IndInv'
<1>1. TypeOK'
  BY CoroAssumption, BoundAssumption
  DEF IndInv, TypeOK, Dirs, Bits, Vanish, fdVars, kernelVars, threadVars,
      coroVars
<1>2. EdgeInv'
  BY CoroAssumption
  DEF IndInv, EdgeInv, TypeOK, Ready, Dirs, Bits, Vanish, fdVars, kernelVars,
      threadVars, coroVars
<1>3. FdInv' /\ WaiterInv' /\ CoroInv' /\ ArmInv' /\ StaleInv'
      /\ EventsInv' /\ BatchInv' /\ MutexInv' /\ StopInv' /\ NoNullDeref'
  BY DEF IndInv, FdInv, WaiterInv, CoroInv, ArmInv, StaleInv, EventsInv,
         BatchInv, MutexInv, StopInv, NoNullDeref, Vanish, fdVars, kernelVars,
         threadVars, coroVars
<1> QED BY <1>1, <1>2, <1>3 DEF IndInv

\* The peer closes.
LEMMA PeerCloseInv ==
    ASSUME IndInv, NEW f \in Fds,
           PeerClose(f)
    PROVE  IndInv'
<1>1. TypeOK'
  BY CoroAssumption, BoundAssumption
  DEF IndInv, TypeOK, Dirs, Bits, PeerClose, Wake, fdVars, kernelVars,
      threadVars, coroVars
<1>2. EdgeInv'
  BY CoroAssumption
  DEF IndInv, EdgeInv, TypeOK, Ready, Dirs, Bits, PeerClose, Wake, fdVars,
      kernelVars, threadVars, coroVars
<1>3. FdInv' /\ WaiterInv' /\ CoroInv' /\ ArmInv' /\ StaleInv'
      /\ EventsInv' /\ BatchInv' /\ MutexInv' /\ StopInv' /\ NoNullDeref'
  BY DEF IndInv, FdInv, WaiterInv, CoroInv, ArmInv, StaleInv, EventsInv,
         BatchInv, MutexInv, StopInv, NoNullDeref, PeerClose, Wake, fdVars,
         kernelVars, threadVars, coroVars
<1> QED BY <1>1, <1>2, <1>3 DEF IndInv

\* An operation starts on an associated fd.
LEMMA StartInv ==
    ASSUME IndInv, NEW c \in Coros,
           Start(c)
    PROVE  IndInv'
<1>1. TypeOK'
  BY CoroAssumption, BoundAssumption
  DEF IndInv, TypeOK, Dirs, Bits, Start, fdVars, kernelVars, threadVars,
      coroVars, DirOf, Coros
<1>2. FdInv'
  BY CoroAssumption
  DEF IndInv, FdInv, TypeOK, Start, fdVars, kernelVars, threadVars, coroVars,
      DirOf, Coros
<1>3. WaiterInv'
  BY CoroAssumption
  DEF IndInv, WaiterInv, CoroInv, TypeOK, Dirs, Start, fdVars, kernelVars,
      threadVars, coroVars, DirOf, Coros
<1>4. CoroInv'
  BY CoroAssumption
  DEF IndInv, CoroInv, WaiterInv, TypeOK, Dirs, Start, fdVars, kernelVars,
      threadVars, coroVars, DirOf, Coros
<1>5. MutexInv'
  BY CoroAssumption
  DEF IndInv, MutexInv, TypeOK, Start, fdVars, kernelVars, threadVars,
      coroVars, DirOf, Coros
<1>6. ArmInv' /\ EdgeInv' /\ StaleInv' /\ EventsInv' /\ BatchInv'
      /\ StopInv' /\ NoNullDeref'
  BY DEF IndInv, ArmInv, EdgeInv, StaleInv, EventsInv, BatchInv, StopInv,
         NoNullDeref, Ready, Start, fdVars, kernelVars, threadVars, coroVars
<1> QED BY <1>1, <1>2, <1>3, <1>4, <1>5, <1>6 DEF IndInv

\* The system call succeeds.
LEMMA CompleteInv ==
    ASSUME IndInv, NEW c \in Coros,
           Complete(c)
    PROVE  IndInv'
<1>1. TypeOK'
  BY CoroAssumption, BoundAssumption
  DEF IndInv, TypeOK, Dirs, Bits, Complete, fdVars, kernelVars, threadVars,
      coroVars, DirOf, Coros
<1>2. FdInv'
  BY CoroAssumption
  DEF IndInv, FdInv, TypeOK, Complete, fdVars, kernelVars, threadVars,
      coroVars, DirOf, Coros
<1>3. WaiterInv'
  BY CoroAssumption
  DEF IndInv, WaiterInv, CoroInv, TypeOK, Dirs, Complete, fdVars, kernelVars,
      threadVars, coroVars, DirOf, Coros
<1>4. CoroInv'
  BY CoroAssumption
  DEF IndInv, CoroInv, WaiterInv, TypeOK, Dirs, Complete, fdVars, kernelVars,
      threadVars, coroVars, DirOf, Coros
<1>5. EdgeInv'
  BY CoroAssumption
  DEF IndInv, EdgeInv, TypeOK, Ready, Dirs, Bits, Complete, fdVars,
      kernelVars, threadVars, coroVars
<1>6. MutexInv'
  BY CoroAssumption
  DEF IndInv, MutexInv, TypeOK, Complete, fdVars, kernelVars, threadVars,
      coroVars, DirOf, Coros
<1>7. ArmInv' /\ StaleInv' /\ EventsInv' /\ BatchInv' /\ StopInv'
      /\ NoNullDeref'
  BY DEF IndInv, ArmInv, StaleInv, EventsInv, BatchInv, StopInv, NoNullDeref,
         Complete, fdVars, kernelVars, threadVars, coroVars
<1> QED BY <1>1, <1>2, <1>3, <1>4, <1>5, <1>6, <1>7 DEF IndInv

\* EWOULDBLOCK: await_suspend locks the new awaiter's mutex.
LEMMA WouldBlockInv ==
    ASSUME IndInv, NEW c \in Coros,
           WouldBlock(c)
    PROVE  IndInv'
<1>1. TypeOK'
  BY CoroAssumption, BoundAssumption
  DEF IndInv, TypeOK, Dirs, Bits, WouldBlock, fdVars, kernelVars, threadVars,
      coroVars, DirOf, Coros
<1>2. FdInv'
  BY CoroAssumption
  DEF IndInv, FdInv, TypeOK, WouldBlock, fdVars, kernelVars, threadVars,
      coroVars, DirOf, Coros
<1>3. WaiterInv'
  BY CoroAssumption
  DEF IndInv, WaiterInv, CoroInv, TypeOK, Dirs, WouldBlock, fdVars,
      kernelVars, threadVars, coroVars, DirOf, Coros
<1>4. CoroInv'
  BY CoroAssumption
  DEF IndInv, CoroInv, WaiterInv, TypeOK, Dirs, WouldBlock, fdVars,
      kernelVars, threadVars, coroVars, DirOf, Coros
<1>5. MutexInv'
  BY CoroAssumption
  DEF IndInv, MutexInv, TypeOK, WouldBlock, fdVars, kernelVars, threadVars,
      coroVars, DirOf, Coros
<1>6. ArmInv' /\ EdgeInv' /\ StaleInv' /\ EventsInv' /\ BatchInv'
      /\ StopInv' /\ NoNullDeref'
  BY DEF IndInv, ArmInv, EdgeInv, StaleInv, EventsInv, BatchInv, StopInv,
         NoNullDeref, Ready, WouldBlock, fdVars, kernelVars, threadVars,
         coroVars
<1> QED BY <1>1, <1>2, <1>3, <1>4, <1>5, <1>6 DEF IndInv

\* register_read_interest and register_write_interest: the caller cannot
\* be the fd's waiter already, and nobody else is in its place.
LEMMA RegisterInv ==
    ASSUME IndInv, NEW c \in Coros,
           Register(c)
    PROVE  IndInv'
<1>1. TypeOK'
  <2>1. FdOf[c] \in Fds /\ DirOf(c) \in Dirs
    BY CoroAssumption DEF DirOf, Dirs
  <2>2. waiter' \in [Fds -> [Dirs -> Coros \cup {None}]]
    BY <2>1 DEF IndInv, TypeOK, Register
  <2>3. events' \in [Fds -> SUBSET Dirs]
    BY <2>1 DEF IndInv, TypeOK, Register, Dirs
  <2>4. mask' \in [Fds -> SUBSET Bits] /\ rdl' \subseteq Fds
    <3>1. /\ mask \in [Fds -> SUBSET Bits] /\ rdl \subseteq Fds
          /\ events[FdOf[c]] \cup {"IN"} \cup {"HUP"} \subseteq Bits
      BY <2>1 DEF IndInv, TypeOK, Dirs, Bits
    <3>2. Arm(FdOf[c], events[FdOf[c]] \cup {"IN"})
      BY DEF Register
    <3>3. \/ UNCHANGED <<mask, rdl>>
          \/ /\ mask' = [mask EXCEPT ![FdOf[c]] = events[FdOf[c]] \cup {"IN"} \cup {"HUP"}]
             /\ rdl' \subseteq rdl \cup {FdOf[c]}
      BY <3>2 DEF Arm, Modify
    <3> QED BY <2>1, <3>1, <3>3
  <2>5. cpc' \in [Coros -> {"idle", "try", "locked", "waiting"}]
        /\ tail' \in [Coros -> Nat]
    BY DEF IndInv, TypeOK, Register
  <2> QED
    BY <2>2, <2>3, <2>4, <2>5
    DEF IndInv, TypeOK, Register, fdVars, kernelVars, threadVars, coroVars
<1>2. FdInv'
  BY CoroAssumption
  DEF IndInv, FdInv, TypeOK, Register, Arm, Modify, fdVars, kernelVars,
      threadVars, coroVars, DirOf, Coros
<1>3. WaiterInv'
  BY FreeField, CoroAssumption
  DEF IndInv, WaiterInv, CoroInv, TypeOK, Dirs, Register, Arm, Modify, fdVars,
      kernelVars, threadVars, coroVars, DirOf, Coros
<1>4. CoroInv'
  BY FreeField, CoroAssumption
  DEF IndInv, CoroInv, WaiterInv, TypeOK, Dirs, Register, Arm, Modify, fdVars,
      kernelVars, threadVars, coroVars, DirOf, Coros
<1>5. ArmInv'
  BY CoroAssumption
  DEF IndInv, ArmInv, TypeOK, Dirs, Register, Arm, Modify, fdVars, kernelVars,
      threadVars, coroVars, DirOf, Coros, EpollOpen
<1>6. EdgeInv'
  BY CoroAssumption
  DEF IndInv, EdgeInv, TypeOK, Ready, Dirs, Bits, Register, Arm, Modify,
      fdVars, kernelVars, threadVars, coroVars, EpollOpen
<1>7. StaleInv'
  <2> DEFINE f == FdOf[c]
  <2>1. f \in Fds /\ DirOf(c) \in Dirs /\ c # None
    BY CoroAssumption DEF DirOf, Dirs
  <2>2. waiter[f][DirOf(c)] = None
    BY FreeField DEF Register
  <2>3. waiter' = [waiter EXCEPT ![f][DirOf(c)] = c] /\ inflight' = inflight
    BY DEF Register, threadVars
  <2>4. \A g \in Fds : g # f => mask'[g] = mask[g] /\ waiter'[g] = waiter[g]
    BY <2>1, <2>3 DEF IndInv, TypeOK, Register, Arm, Modify
  <2>5. "OUT" \notin mask'[f]
    <3>1. "OUT" \notin events[f]
      BY <2>1 DEF IndInv, EventsInv
    <3>2. "OUT" \notin mask[f] /\ mask \in [Fds -> SUBSET Bits]
      BY <2>1 DEF IndInv, StaleInv, TypeOK
    <3>3. Arm(f, events[f] \cup {"IN"})
      BY DEF Register
    <3>4. mask' = mask \/ mask' = [mask EXCEPT ![f] = events[f] \cup {"IN"} \cup {"HUP"}]
      BY <3>3 DEF Arm, Modify
    <3> QED BY <2>1, <3>1, <3>2, <3>4
  <2> QED
    BY <2>1, <2>2, <2>3, <2>4, <2>5
    DEF IndInv, TypeOK, StaleInv, DirOf, Dirs
<1>8. EventsInv'
  BY CoroAssumption
  DEF IndInv, EventsInv, TypeOK, Dirs, Register, Arm, Modify, fdVars,
      kernelVars, threadVars, coroVars, DirOf, Coros
<1>9. MutexInv'
  BY CoroAssumption
  DEF IndInv, MutexInv, TypeOK, Register, Arm, Modify, fdVars, kernelVars,
      threadVars, coroVars, DirOf, Coros
<1>10. BatchInv' /\ StopInv' /\ NoNullDeref'
  BY DEF IndInv, BatchInv, StopInv, NoNullDeref, Register, Arm, Modify,
         fdVars, kernelVars, threadVars, coroVars
<1> QED BY <1>1, <1>2, <1>3, <1>4, <1>5, <1>6, <1>7, <1>8, <1>9,
           <1>10 DEF IndInv

\* A failed assert or SK_CHECK.
LEMMA RegisterAbortsInv ==
    ASSUME IndInv, NEW c \in Coros,
           RegisterAborts(c)
    PROVE  IndInv'
<1>1. TypeOK'
  BY CoroAssumption, BoundAssumption
  DEF IndInv, TypeOK, Dirs, Bits, RegisterAborts, fdVars, kernelVars,
      threadVars, coroVars
<1>2. NoNullDeref'
  BY DEF IndInv, NoNullDeref, RegisterAborts, fdVars, kernelVars, threadVars,
         coroVars
<1>3. FdInv' /\ WaiterInv' /\ CoroInv' /\ ArmInv' /\ EdgeInv'
      /\ StaleInv' /\ EventsInv' /\ BatchInv' /\ MutexInv' /\ StopInv'
  BY DEF IndInv, FdInv, WaiterInv, CoroInv, ArmInv, EdgeInv, StaleInv,
         EventsInv, BatchInv, MutexInv, StopInv, Ready, RegisterAborts,
         fdVars, kernelVars, threadVars, coroVars
<1> QED BY <1>1, <1>2, <1>3 DEF IndInv

\* await_suspend returns.
LEMMA EndSuspendInv ==
    ASSUME IndInv, NEW c \in Coros,
           EndSuspend(c)
    PROVE  IndInv'
<1>1. TypeOK'
  BY CoroAssumption, BoundAssumption
  DEF IndInv, TypeOK, Dirs, Bits, EndSuspend, Unlock, fdVars, kernelVars,
      threadVars, coroVars
<1>2. MutexInv'
  BY CoroAssumption
  DEF IndInv, MutexInv, TypeOK, EndSuspend, Unlock, fdVars, kernelVars,
      threadVars, coroVars
<1>3. FdInv' /\ WaiterInv' /\ CoroInv' /\ ArmInv' /\ EdgeInv'
      /\ StaleInv' /\ EventsInv' /\ BatchInv' /\ StopInv' /\ NoNullDeref'
  BY DEF IndInv, FdInv, WaiterInv, CoroInv, ArmInv, EdgeInv, StaleInv,
         EventsInv, BatchInv, StopInv, NoNullDeref, Ready, EndSuspend, Unlock,
         fdVars, kernelVars, threadVars, coroVars
<1> QED BY <1>1, <1>2, <1>3 DEF IndInv

\* The executor runs the posted job.
LEMMA ResumeInv ==
    ASSUME IndInv, NEW c \in Coros,
           Resume(c)
    PROVE  IndInv'
<1>1. TypeOK'
  BY CoroAssumption, BoundAssumption
  DEF IndInv, TypeOK, Dirs, Bits, Resume, fdVars, kernelVars, threadVars,
      coroVars, DirOf, Coros
<1>2. FdInv'
  <2>1. cpc[c] = "waiting"
    BY DEF IndInv, CoroInv, Resume
  <2> QED
    BY <2>1 DEF IndInv, FdInv, TypeOK, Resume, fdVars, kernelVars
<1>3. WaiterInv'
  BY CoroAssumption
  DEF IndInv, WaiterInv, CoroInv, TypeOK, Dirs, Resume, fdVars, kernelVars,
      threadVars, coroVars, DirOf, Coros
<1>4. CoroInv'
  BY CoroAssumption
  DEF IndInv, CoroInv, WaiterInv, TypeOK, Dirs, Resume, fdVars, kernelVars,
      threadVars, coroVars, DirOf, Coros
<1>5. MutexInv'
  <2>1. /\ cmtx' = cmtx /\ tail' = tail /\ holds' = holds /\ epc' = epc
        /\ \A e \in Coros : cpc'[e] = "locked" <=> cpc[e] = "locked" /\ e # c
    BY DEF Resume, IndInv, TypeOK, threadVars
  <2>2. cpc[c] # "locked"
    BY DEF Resume, IndInv, TypeOK, CoroInv
  <2> QED BY <2>1, <2>2 DEF IndInv, MutexInv
<1>6. ArmInv' /\ EdgeInv' /\ StaleInv' /\ EventsInv' /\ BatchInv'
      /\ StopInv' /\ NoNullDeref'
  BY DEF IndInv, ArmInv, EdgeInv, StaleInv, EventsInv, BatchInv, StopInv,
         NoNullDeref, Ready, Resume, fdVars, kernelVars, threadVars, coroVars
<1> QED BY <1>1, <1>2, <1>3, <1>4, <1>5, <1>6 DEF IndInv

\* The epoll thread calls epoll_wait.
LEMMA CallWaitInv ==
    ASSUME IndInv, CallWait
    PROVE  IndInv'
<1>1. TypeOK'
  BY CoroAssumption, BoundAssumption
  DEF IndInv, TypeOK, Dirs, Bits, CallWait, fdVars, kernelVars, threadVars,
      coroVars
<1>2. BatchInv'
  BY CoroAssumption
  DEF IndInv, BatchInv, TypeOK, CallWait, fdVars, kernelVars, threadVars,
      coroVars
<1>3. MutexInv'
  BY CoroAssumption
  DEF IndInv, MutexInv, TypeOK, CallWait, fdVars, kernelVars, threadVars,
      coroVars
<1>4. FdInv' /\ WaiterInv' /\ CoroInv' /\ ArmInv' /\ EdgeInv'
      /\ StaleInv' /\ EventsInv' /\ StopInv' /\ NoNullDeref'
  BY DEF IndInv, FdInv, WaiterInv, CoroInv, ArmInv, EdgeInv, StaleInv,
         EventsInv, StopInv, NoNullDeref, Ready, CallWait, fdVars, kernelVars,
         threadVars, coroVars
<1> QED BY <1>1, <1>2, <1>3, <1>4 DEF IndInv

\* epoll_wait returns: a hang-up always comes with EPOLLIN, so an armed
\* reader's one shot never fires without EPOLLIN.
LEMMA EpollWaitInv ==
    ASSUME IndInv, NEW S \in SUBSET rdl, NEW shut \in BOOLEAN,
           EpollWait(S, shut)
    PROVE  IndInv'
<1>1. TypeOK'
  BY CoroAssumption, BoundAssumption
  DEF IndInv, TypeOK, Dirs, Bits, EpollWait, Revents, fdVars, kernelVars,
      threadVars, coroVars
<1>2. ArmInv'
  <2> SUFFICES ASSUME stop = "running", NEW f \in Fds, waiter[f]["IN"] # None
               PROVE  "IN" \in mask'[f] \/ "IN" \in inflight'[f]
    BY DEF ArmInv, EpollWait, fdVars
  <2>1. "IN" \in mask[f]
    BY DEF IndInv, ArmInv, BatchInv, EpollWait
  <2>2. "OUT" \notin mask[f] /\ mask[f] \subseteq Bits
    BY DEF IndInv, StaleInv, TypeOK
  <2>3. "IN" \in mask[f] /\ Revents(f) # {} => "IN" \in Revents(f)
    BY <2>2 DEF Revents, Ready, Dirs, Bits
  <2>4. CASE f \in S /\ Revents(f) # {}
    BY <2>1, <2>3, <2>4 DEF EpollWait
  <2>5. CASE ~(f \in S /\ Revents(f) # {})
    BY <2>1, <2>5 DEF EpollWait
  <2> QED BY <2>4, <2>5
<1>3. EdgeInv'
  BY CoroAssumption
  DEF IndInv, EdgeInv, TypeOK, Ready, Dirs, Bits, EpollWait, Revents, fdVars,
      kernelVars, threadVars, coroVars
<1>4. StaleInv'
  BY CoroAssumption
  DEF IndInv, StaleInv, TypeOK, Dirs, Bits, EpollWait, Revents, fdVars,
      kernelVars, threadVars, coroVars
<1>5. BatchInv'
  BY CoroAssumption
  DEF IndInv, BatchInv, TypeOK, EpollWait, Revents, fdVars, kernelVars,
      threadVars, coroVars
<1>6. MutexInv'
  BY CoroAssumption
  DEF IndInv, MutexInv, TypeOK, EpollWait, Revents, fdVars, kernelVars,
      threadVars, coroVars
<1>7. StopInv'
  BY DEF IndInv, StopInv, EpollWait, Revents, fdVars, kernelVars, threadVars,
         coroVars
<1>8. FdInv' /\ WaiterInv' /\ CoroInv' /\ EventsInv' /\ NoNullDeref'
  BY DEF IndInv, FdInv, WaiterInv, CoroInv, EventsInv, NoNullDeref, EpollWait,
         Revents, fdVars, kernelVars, threadVars, coroVars
<1> QED BY <1>1, <1>2, <1>3, <1>4, <1>5, <1>6, <1>7, <1>8 DEF IndInv

\* The epoll thread takes _state_mtx.
LEMMA LockStateInv ==
    ASSUME IndInv, LockState
    PROVE  IndInv'
<1>1. TypeOK'
  BY CoroAssumption, BoundAssumption
  DEF IndInv, TypeOK, Dirs, Bits, LockState, fdVars, kernelVars, threadVars,
      coroVars
<1>2. BatchInv'
  BY CoroAssumption
  DEF IndInv, BatchInv, TypeOK, LockState, fdVars, kernelVars, threadVars,
      coroVars
<1>3. MutexInv'
  BY CoroAssumption
  DEF IndInv, MutexInv, TypeOK, LockState, fdVars, kernelVars, threadVars,
      coroVars
<1>4. FdInv' /\ WaiterInv' /\ CoroInv' /\ ArmInv' /\ EdgeInv'
      /\ StaleInv' /\ EventsInv' /\ StopInv' /\ NoNullDeref'
  BY DEF IndInv, FdInv, WaiterInv, CoroInv, ArmInv, EdgeInv, StaleInv,
         EventsInv, StopInv, NoNullDeref, Ready, LockState, fdVars,
         kernelVars, threadVars, coroVars
<1> QED BY <1>1, <1>2, <1>3, <1>4 DEF IndInv

\* The epoll thread posts the waiter.
LEMMA DispatchInv ==
    ASSUME IndInv, NEW f \in Fds, NEW d \in Dirs,
           Dispatch(f, d)
    PROVE  IndInv'
<1>1. TypeOK'
  BY CoroAssumption, BoundAssumption
  DEF IndInv, TypeOK, Dirs, Bits, Dispatch, Handles, Unpark, fdVars,
      kernelVars, threadVars, coroVars, DirOf, Coros
<1>2. WaiterInv'
  BY CoroAssumption
  DEF IndInv, WaiterInv, CoroInv, TypeOK, Dirs, Dispatch, Handles, Unpark,
      fdVars, kernelVars, threadVars, coroVars, DirOf, Coros
<1>3. CoroInv'
  BY CoroAssumption
  DEF IndInv, CoroInv, WaiterInv, TypeOK, Dirs, Dispatch, Handles, Unpark,
      fdVars, kernelVars, threadVars, coroVars, DirOf, Coros
<1>4. ArmInv'
  BY CoroAssumption
  DEF IndInv, ArmInv, TypeOK, Dirs, Dispatch, Handles, Unpark, fdVars,
      kernelVars, threadVars, coroVars, DirOf, Coros
<1>5. StaleInv'
  BY CoroAssumption
  DEF IndInv, StaleInv, TypeOK, Dirs, Bits, Dispatch, Handles, Unpark, fdVars,
      kernelVars, threadVars, coroVars, DirOf, Coros
<1>6. EventsInv'
  BY CoroAssumption
  DEF IndInv, EventsInv, TypeOK, Dirs, StaleInv, Dispatch, Handles, Unpark,
      fdVars, kernelVars, threadVars, coroVars, DirOf, Coros
<1>7. BatchInv'
  BY CoroAssumption
  DEF IndInv, BatchInv, TypeOK, Dispatch, Handles, Unpark, fdVars, kernelVars,
      threadVars, coroVars
<1>8. MutexInv'
  BY CoroAssumption
  DEF IndInv, MutexInv, TypeOK, Dispatch, Handles, Unpark, fdVars, kernelVars,
      threadVars, coroVars, DirOf, Coros
<1>9. FdInv' /\ EdgeInv' /\ StopInv' /\ NoNullDeref'
  BY DEF IndInv, FdInv, EdgeInv, StopInv, NoNullDeref, Ready, Dispatch,
         Handles, Unpark, fdVars, kernelVars, threadVars, coroVars
<1> QED BY <1>1, <1>2, <1>3, <1>4, <1>5, <1>6, <1>7, <1>8, <1>9 DEF IndInv

\* The epoll thread finds no waiter: the fd_state is still there, because
\* EPOLLIN is in flight only on behalf of an outstanding operation.
LEMMA SkipBitInv ==
    ASSUME IndInv, NEW f \in Fds, NEW d \in Dirs,
           SkipBit(f, d)
    PROVE  IndInv'
<1>1. TypeOK'
  BY CoroAssumption, BoundAssumption
  DEF IndInv, TypeOK, Dirs, Bits, SkipBit, Handles, fdVars, kernelVars,
      threadVars, coroVars
<1>2. ArmInv'
  BY InFlightFd, CoroAssumption
  DEF IndInv, ArmInv, TypeOK, Dirs, StaleInv, SkipBit, Handles, fdVars,
      kernelVars, threadVars, coroVars
<1>3. StaleInv'
  BY InFlightFd, CoroAssumption
  DEF IndInv, StaleInv, TypeOK, Dirs, Bits, SkipBit, Handles, fdVars,
      kernelVars, threadVars, coroVars
<1>4. BatchInv'
  BY CoroAssumption
  DEF IndInv, BatchInv, TypeOK, SkipBit, Handles, fdVars, kernelVars,
      threadVars, coroVars
<1>5. NoNullDeref'
  BY InFlightFd, CoroAssumption
  DEF IndInv, NoNullDeref, StaleInv, TypeOK, Dirs, SkipBit, Handles, fdVars,
      kernelVars, threadVars, coroVars
<1>6. FdInv' /\ WaiterInv' /\ CoroInv' /\ EdgeInv' /\ EventsInv'
      /\ MutexInv' /\ StopInv'
  BY DEF IndInv, FdInv, WaiterInv, CoroInv, EdgeInv, EventsInv, MutexInv,
         StopInv, Ready, SkipBit, Handles, fdVars, kernelVars, threadVars,
         coroVars
<1> QED BY <1>1, <1>2, <1>3, <1>4, <1>5, <1>6 DEF IndInv

\* A hang-up on its own is ignored.
LEMMA SkipHupInv ==
    ASSUME IndInv, NEW f \in Fds,
           SkipHup(f)
    PROVE  IndInv'
<1>1. TypeOK'
  BY CoroAssumption, BoundAssumption
  DEF IndInv, TypeOK, Dirs, Bits, SkipHup, fdVars, kernelVars, threadVars,
      coroVars
<1>2. ArmInv'
  BY CoroAssumption
  DEF IndInv, ArmInv, TypeOK, Dirs, SkipHup, fdVars, kernelVars, threadVars,
      coroVars
<1>3. StaleInv'
  BY CoroAssumption
  DEF IndInv, StaleInv, TypeOK, Dirs, Bits, SkipHup, fdVars, kernelVars,
      threadVars, coroVars
<1>4. BatchInv'
  BY CoroAssumption
  DEF IndInv, BatchInv, TypeOK, SkipHup, fdVars, kernelVars, threadVars,
      coroVars
<1>5. FdInv' /\ WaiterInv' /\ CoroInv' /\ EdgeInv' /\ EventsInv'
      /\ MutexInv' /\ StopInv' /\ NoNullDeref'
  BY DEF IndInv, FdInv, WaiterInv, CoroInv, EdgeInv, EventsInv, MutexInv,
         StopInv, NoNullDeref, Ready, SkipHup, fdVars, kernelVars, threadVars,
         coroVars
<1> QED BY <1>1, <1>2, <1>3, <1>4, <1>5 DEF IndInv

\* The epoll thread releases the waiter's mutex.
LEMMA UnlockWaiterInv ==
    ASSUME IndInv, UnlockWaiter
    PROVE  IndInv'
<1>1. TypeOK'
  BY CoroAssumption, BoundAssumption
  DEF IndInv, TypeOK, Dirs, Bits, UnlockWaiter, Unlock, fdVars, kernelVars,
      threadVars, coroVars
<1>2. MutexInv'
  BY CoroAssumption
  DEF IndInv, MutexInv, TypeOK, UnlockWaiter, Unlock, fdVars, kernelVars,
      threadVars, coroVars
<1>3. FdInv' /\ WaiterInv' /\ CoroInv' /\ ArmInv' /\ EdgeInv'
      /\ StaleInv' /\ EventsInv' /\ BatchInv' /\ StopInv' /\ NoNullDeref'
  BY DEF IndInv, FdInv, WaiterInv, CoroInv, ArmInv, EdgeInv, StaleInv,
         EventsInv, BatchInv, StopInv, NoNullDeref, Ready, UnlockWaiter,
         Unlock, fdVars, kernelVars, threadVars, coroVars
<1> QED BY <1>1, <1>2, <1>3 DEF IndInv

\* The epoll thread releases _state_mtx.
LEMMA EndBatchInv ==
    ASSUME IndInv, EndBatch
    PROVE  IndInv'
<1>1. TypeOK'
  BY CoroAssumption, BoundAssumption
  DEF IndInv, TypeOK, Dirs, Bits, EndBatch, fdVars, kernelVars, threadVars,
      coroVars
<1>2. BatchInv'
  BY CoroAssumption
  DEF IndInv, BatchInv, TypeOK, EndBatch, fdVars, kernelVars, threadVars,
      coroVars
<1>3. MutexInv'
  BY CoroAssumption
  DEF IndInv, MutexInv, TypeOK, EndBatch, fdVars, kernelVars, threadVars,
      coroVars
<1>4. FdInv' /\ WaiterInv' /\ CoroInv' /\ ArmInv' /\ EdgeInv'
      /\ StaleInv' /\ EventsInv' /\ StopInv' /\ NoNullDeref'
  BY DEF IndInv, FdInv, WaiterInv, CoroInv, ArmInv, EdgeInv, StaleInv,
         EventsInv, StopInv, NoNullDeref, Ready, EndBatch, fdVars, kernelVars,
         threadVars, coroVars
<1> QED BY <1>1, <1>2, <1>3, <1>4 DEF IndInv

\* The epoll thread leaves, dropping events: only once stop() was called.
LEMMA ShutdownInv ==
    ASSUME IndInv, Shutdown
    PROVE  IndInv'
<1>1. TypeOK'
  BY CoroAssumption, BoundAssumption
  DEF IndInv, TypeOK, Dirs, Bits, Shutdown, fdVars, kernelVars, threadVars,
      coroVars
<1>2. ArmInv'
  BY CoroAssumption
  DEF IndInv, ArmInv, TypeOK, Dirs, StopInv, Shutdown, fdVars, kernelVars,
      threadVars, coroVars
<1>3. StaleInv'
  BY CoroAssumption
  DEF IndInv, StaleInv, TypeOK, Dirs, Bits, Shutdown, fdVars, kernelVars,
      threadVars, coroVars
<1>4. BatchInv'
  BY CoroAssumption
  DEF IndInv, BatchInv, TypeOK, Shutdown, fdVars, kernelVars, threadVars,
      coroVars
<1>5. MutexInv'
  BY CoroAssumption
  DEF IndInv, MutexInv, TypeOK, Shutdown, fdVars, kernelVars, threadVars,
      coroVars
<1>6. StopInv'
  BY DEF IndInv, StopInv, Shutdown, fdVars, kernelVars, threadVars, coroVars
<1>7. FdInv' /\ WaiterInv' /\ CoroInv' /\ EdgeInv' /\ EventsInv'
      /\ NoNullDeref'
  BY DEF IndInv, FdInv, WaiterInv, CoroInv, EdgeInv, EventsInv, NoNullDeref,
         Ready, Shutdown, fdVars, kernelVars, threadVars, coroVars
<1> QED BY <1>1, <1>2, <1>3, <1>4, <1>5, <1>6, <1>7 DEF IndInv

\* stop() writes to the shutdown pipe.
LEMMA StopWriteInv ==
    ASSUME IndInv, StopWrite
    PROVE  IndInv'
<1>1. TypeOK'
  BY CoroAssumption, BoundAssumption
  DEF IndInv, TypeOK, Dirs, Bits, StopWrite, WakeThread, fdVars, kernelVars,
      threadVars, coroVars
<1>2. ArmInv'
  BY CoroAssumption
  DEF IndInv, ArmInv, TypeOK, Dirs, StopWrite, WakeThread, fdVars, kernelVars,
      threadVars, coroVars
<1>3. StopInv'
  BY DEF IndInv, StopInv, StopWrite, WakeThread, fdVars, kernelVars,
         threadVars, coroVars
<1>4. FdInv' /\ WaiterInv' /\ CoroInv' /\ EdgeInv' /\ StaleInv'
      /\ EventsInv' /\ BatchInv' /\ MutexInv' /\ NoNullDeref'
  BY DEF IndInv, FdInv, WaiterInv, CoroInv, EdgeInv, StaleInv, EventsInv,
         BatchInv, MutexInv, NoNullDeref, Ready, StopWrite, WakeThread,
         fdVars, kernelVars, threadVars, coroVars
<1> QED BY <1>1, <1>2, <1>3, <1>4 DEF IndInv

\* stop() closes the epoll fd.
LEMMA StopCloseInv ==
    ASSUME IndInv, StopClose
    PROVE  IndInv'
<1>1. TypeOK'
  BY CoroAssumption, BoundAssumption
  DEF IndInv, TypeOK, Dirs, Bits, StopClose, fdVars, kernelVars, threadVars,
      coroVars
<1>2. ArmInv'
  BY CoroAssumption
  DEF IndInv, ArmInv, TypeOK, Dirs, StopClose, fdVars, kernelVars, threadVars,
      coroVars
<1>3. StopInv'
  BY DEF IndInv, StopInv, StopClose, fdVars, kernelVars, threadVars, coroVars
<1>4. FdInv' /\ WaiterInv' /\ CoroInv' /\ EdgeInv' /\ StaleInv'
      /\ EventsInv' /\ BatchInv' /\ MutexInv' /\ NoNullDeref'
  BY DEF IndInv, FdInv, WaiterInv, CoroInv, EdgeInv, StaleInv, EventsInv,
         BatchInv, MutexInv, NoNullDeref, Ready, StopClose, fdVars,
         kernelVars, threadVars, coroVars
<1> QED BY <1>1, <1>2, <1>3, <1>4 DEF IndInv

\* stop() joins the epoll thread.
LEMMA StopJoinInv ==
    ASSUME IndInv, StopJoin
    PROVE  IndInv'
<1>1. TypeOK'
  BY CoroAssumption, BoundAssumption
  DEF IndInv, TypeOK, Dirs, Bits, StopJoin, fdVars, kernelVars, threadVars,
      coroVars
<1>2. ArmInv'
  BY CoroAssumption
  DEF IndInv, ArmInv, TypeOK, Dirs, StopJoin, fdVars, kernelVars, threadVars,
      coroVars
<1>3. StopInv'
  BY DEF IndInv, StopInv, StopJoin, fdVars, kernelVars, threadVars, coroVars
<1>4. FdInv' /\ WaiterInv' /\ CoroInv' /\ EdgeInv' /\ StaleInv'
      /\ EventsInv' /\ BatchInv' /\ MutexInv' /\ NoNullDeref'
  BY DEF IndInv, FdInv, WaiterInv, CoroInv, EdgeInv, StaleInv, EventsInv,
         BatchInv, MutexInv, NoNullDeref, Ready, StopJoin, fdVars, kernelVars,
         threadVars, coroVars
<1> QED BY <1>1, <1>2, <1>3, <1>4 DEF IndInv

-----------------------------------------------------------------------------
\* Every step preserves the invariant.
LEMMA NextInv == IndInv /\ [Next]_vars => IndInv'
<1> SUFFICES ASSUME IndInv, [Next]_vars PROVE IndInv'
  OBVIOUS
<1>1. CASE UNCHANGED vars
  BY <1>1, StutterInv
<1>2. CASE ThreadStep
  BY <1>2, CallWaitInv, LockStateInv, UnlockWaiterInv, EndBatchInv, ShutdownInv,
     SkipHupInv, SkipBitInv, DispatchInv DEF ThreadStep
<1>3. CASE KernelWait
  BY <1>3, EpollWaitInv DEF KernelWait
<1>4. CASE StopStep
  BY <1>4, StopWriteInv, StopCloseInv, StopJoinInv DEF StopStep
<1>5. CASE \E c \in Coros : CoroStep(c)
  BY <1>5, StartInv, CompleteInv, WouldBlockInv, RegisterInv, RegisterAbortsInv,
     EndSuspendInv, ResumeInv DEF CoroStep
<1>6. CASE \E f \in Fds : OwnerStep(f)
  BY <1>6, AssociateInv, DeassociateInv, AsyncCloseInv, CloseInv, DestroyClosedInv,
     DestroyFaultsInv DEF OwnerStep
<1>7. CASE \E f \in Fds : NetStep(f)
  BY <1>7, VanishInv, PeerCloseInv, ArriveInv DEF NetStep
<1> QED BY <1>1, <1>2, <1>3, <1>4, <1>5, <1>6, <1>7 DEF Next, Step

\* IndInv is an invariant of the epoll reactor.
THEOREM Invariance == Spec => []IndInv
  BY InitInv, NextInv, PTL DEF Spec

\* epoll_reactor, fd_state and epoll_coro_state keep their types.
THEOREM TypeCorrect == Spec => []TypeOK
<1>1. IndInv => TypeOK
  BY DEF IndInv
<1> QED BY <1>1, Invariance, PTL

\* No wakeup of co_fd_is_readable is lost between epoll_ctl, epoll_wait and
\* the dispatch loop, for any number of fds, readers and senders.
THEOREM WakeupsKept == Spec => []NoLostWakeup
<1>1. IndInv => NoLostWakeup
  <2> SUFFICES ASSUME IndInv, stop = "running", NEW c \in Readers,
                      cpc[c] = "waiting", ~(jobs[c] > 0)
               PROVE  LET f == FdOf[c] IN
                      /\ waiter[f]["IN"] = c
                      /\ \/ "IN" \in inflight[f]
                         \/ "IN" \in mask[f] /\ ("IN" \in Ready(f) => f \in rdl)
    BY DEF NoLostWakeup
  <2>1. c \in Coros /\ FdOf[c] \in Fds /\ DirOf(c) = "IN" /\ c # None
    BY CoroAssumption DEF Coros, DirOf
  <2>2. waiter[FdOf[c]]["IN"] = c
    BY <2>1 DEF IndInv, TypeOK, CoroInv
  <2> QED BY <2>1, <2>2 DEF IndInv, ArmInv, EdgeInv
<1> QED BY <1>1, Invariance, PTL

\* The dispatch loop posts a suspended coroutine once: two resumptions of
\* one suspension cannot happen.
THEOREM ResumedOnce == Spec => []ResumeOnce
<1>1. IndInv => ResumeOnce
  BY CoroAssumption DEF IndInv, ResumeOnce, CoroInv, WaiterInv, TypeOK
<1> QED BY <1>1, Invariance, PTL

\* read_waiter and write_waiter never dangle, through async_close,
\* deassociate_fd and the reuse of fd numbers.
THEOREM WaitersLive == Spec => []WaiterIsLive
<1>1. IndInv => WaiterIsLive
  BY CoroAssumption DEF IndInv, WaiterIsLive, WaiterInv, FdInv, TypeOK
<1> QED BY <1>1, Invariance, PTL

\* epoll_thread_fn never reads a waiter through a null _state[fd].
THEOREM NullFree == Spec => []NoNullDeref
<1>1. IndInv => NoNullDeref
  BY DEF IndInv
<1> QED BY <1>1, Invariance, PTL

\* _state_mtx and the awaiters' mutexes are never waited for in a cycle.
THEOREM LocksAcyclic == Spec => []NoLockCycle
<1>1. IndInv => NoLockCycle
  BY DEF IndInv, NoLockCycle, Handles, MutexInv, WaiterInv, TypeOK
<1> QED BY <1>1, Invariance, PTL

\* Only a failed assert or SK_CHECK of register_*_interest, a null _state[fd] or
\* the destructor of a closed socket makes a fault.
LEMMA FaultSource ==
    ASSUME Next, fault' # fault
    PROVE  \/ fault' = "segv"
           \/ \E c \in Coros : RegisterAborts(c)
           \/ \E f \in Fds : DestroyFaults(f)
<1>1. CASE ThreadStep
  BY <1>1 DEF ThreadStep, CallWait, LockState, UnlockWaiter, EndBatch, Shutdown,
              SkipHup, SkipBit, Dispatch
<1>2. CASE KernelWait \/ StopStep
  BY <1>2 DEF KernelWait, EpollWait, StopStep, StopWrite, StopClose, StopJoin
<1>3. CASE \E c \in Coros : CoroStep(c)
  BY <1>3 DEF CoroStep, Start, Complete, WouldBlock, Register, EndSuspend, Resume
<1>4. CASE \E f \in Fds : OwnerStep(f) \/ NetStep(f)
  BY <1>4 DEF OwnerStep, Associate, Deassociate, AsyncClose, Close, DestroyClosed,
              NetStep, Vanish, PeerClose, Arrive
<1> QED BY <1>1, <1>2, <1>3, <1>4 DEF Next, Step

\* Without senders the asserts and the check of register_read_interest hold
\* while the reactor runs.
LEMMA RegisterHolds ==
    ASSUME IndInv, Writers = {}, stop = "running", NEW c \in Coros
    PROVE  ~RegisterAborts(c)
<1> SUFFICES ASSUME RegisterAborts(c) PROVE FALSE
  OBVIOUS
<1>1. c \in Readers /\ FdOf[c] \in Fds /\ DirOf(c) = "IN"
  BY CoroAssumption DEF Coros, DirOf
<1>2. waiter[FdOf[c]]["IN"] = None
  BY <1>1, FreeField DEF RegisterAborts
<1>3. waiter[FdOf[c]]["OUT"] = None
  BY <1>1 DEF IndInv, TypeOK, WaiterInv, Dirs, DirOf, Coros
<1>4. AssertsHold(FdOf[c])
  BY <1>1, <1>2, <1>3
  DEF AssertsHold, IndInv, FdInv, EventsInv, TypeOK, RegisterAborts
<1> QED BY <1>4 DEF RegisterAborts, EpollOpen

\* In a program without senders, and until stop() is called, a debug build is
\* brought down only by the destructor of a socket that was closed before.
THEOREM AbortsAfterCloseOnly ==
    ASSUME Writers = {}
    PROVE  Spec => []AbortsOnlyAfterClose
<1>1. Init => AbortsOnlyAfterClose
  BY DEF Init, AbortsOnlyAfterClose
<1>2. IndInv /\ IndInv' /\ AbortsOnlyAfterClose /\ [Next]_vars
          => AbortsOnlyAfterClose'
  <2> SUFFICES ASSUME IndInv, IndInv', AbortsOnlyAfterClose, [Next]_vars
               PROVE  AbortsOnlyAfterClose'
    OBVIOUS
  <2>1. CASE UNCHANGED vars
    BY <2>1 DEF vars, fdVars, kernelVars, AbortsOnlyAfterClose
  <2>2. CASE Next
    <3>1. fault = "none" /\ fault' # "segv"
      BY <2>2 DEF Next, IndInv, NoNullDeref
    <3>2. CASE fault' = fault
      BY <3>1, <3>2 DEF AbortsOnlyAfterClose
    <3>3. CASE \E c \in Coros : RegisterAborts(c)
      <4>1. PICK c \in Coros : RegisterAborts(c)
        BY <3>3
      <4>2. stop' = stop /\ stop # "running"
        BY <4>1, RegisterHolds DEF RegisterAborts
      <4> QED BY <4>2 DEF AbortsOnlyAfterClose
    <3>4. CASE \E f \in Fds : DestroyFaults(f)
      <4>1. PICK f \in Fds : DestroyFaults(f)
        BY <3>4
      <4>2. /\ stale'[f] /\ added' = added
            /\ fault' = (IF added[f] THEN "stolen" ELSE "del")
        BY <4>1 DEF DestroyFaults, fdVars, kernelVars
      <4> QED BY <4>2 DEF AbortsOnlyAfterClose
    <3> QED BY <2>2, <3>1, <3>2, <3>3, <3>4, FaultSource
  <2> QED BY <2>1, <2>2
<1> QED BY <1>1, <1>2, Invariance, PTL DEF Spec

\* read_waiter and write_waiter are live and each coroutine is resumed once.
THEOREM WaitersAreSafe == Spec => []WaitersSafe
BY WaitersLive, ResumedOnce, PTL DEF WaitersSafe

\* A reader and a sender on one socket do not disturb each other's waiting.
THEOREM DuplexIsSafe == Spec => []Safety
BY TypeCorrect, WakeupsKept, WaitersAreSafe, NullFree, LocksAcyclic, PTL DEF Safety
=============================================================================
