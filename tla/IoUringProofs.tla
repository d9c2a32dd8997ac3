--------------------------- MODULE IoUringProofs ----------------------------
(***************************************************************************)
(* Proofs about IoUring: for any number of coroutines and rings of any     *)
(* size, no request is lost, doubled, left lying or completed into an      *)
(* awaiter that is gone, and the awaiter's mutex outlives the lock of the  *)
(* completion thread, as long as io_uring_submit does not fail.  (When it  *)
(* does, the entry stays in the ring while its coroutine goes on.)         *)
(*                                                                         *)
(* The argument counts: every step that takes the request of a coroutine   *)
(* from one place puts it into the next (RequestConserved), so that one    *)
(* that is in cq is in no other place and its coroutine has not gone on.   *)
(* The thread gets the mutex only when the coroutine has left              *)
(* await_suspend (LockInv), and keeps it until the completion is seen.     *)
(* Nothing is stranded because the thread submits whatever the ring and    *)
(* _pending hold before it sleeps, and _put_sq submits at once: with no    *)
(* completion waiting, the kernel takes at least one entry.                *)
(***************************************************************************)
EXTENDS IoUring, SequenceTheorems, FiniteSetTheorems, TLAPS

\* The thread has the completion it works on, which is that of a coroutine once
\* its awaiter is locked.
HeadInv ==
    /\ tpc \in {"handle", "post", "seen"} => cq # <<>>
    /\ tpc \in {"post", "seen"} => Head(cq) \in Coros

\* A coroutine inside await_suspend holds its mutex.
LockInv == \A c \in Coros : cpc[c] \in {"locked", "put", "failed"} => cmtx[c]

IndInv ==
    /\ TypeOK
    /\ RequestConserved
    /\ NothingStranded
    /\ HeadInv
    /\ LockInv
    /\ MutexOutlivesHolder

-----------------------------------------------------------------------------
(* Counting.                                                                *)

\* A count is a number, and zero exactly when there is none to count.
LEMMA CountType ==
    ASSUME NEW S, NEW s \in Seq(S), NEW e
    PROVE  /\ Occurrences(s, e) \in Nat
           /\ IsFiniteSet({i \in DOMAIN s : s[i] = e})
           /\ \A i \in 1 .. Len(s) : s[i] = e => Occurrences(s, e) > 0
           /\ (\A i \in 1 .. Len(s) : s[i] # e) => Occurrences(s, e) = 0
<1> DEFINE A == {i \in DOMAIN s : s[i] = e}
<1>1. DOMAIN s = 1 .. Len(s) /\ Len(s) \in Nat
  OBVIOUS
<1>2. A \in SUBSET (1 .. Len(s))
  BY <1>1
<1>3. IsFiniteSet(A)
  <2>1. IsFiniteSet(1 .. Len(s))
    BY <1>1, FS_Interval
  <2> HIDE DEF A
  <2> QED BY <1>2, <2>1, FS_Subset
<1>4. Cardinality(A) \in Nat /\ (Cardinality(A) = 0 <=> A = {})
  <2> HIDE DEF A
  <2> QED BY <1>3, FS_CardinalityType, FS_EmptySet
<1>5. Occurrences(s, e) = Cardinality(A)
  BY DEF Occurrences
<1>6. (\A i \in 1 .. Len(s) : s[i] = e => A # {}) /\ ((\A i \in 1 .. Len(s) : s[i] # e) => A = {})
  BY <1>1
<1>7. IsFiniteSet({i \in DOMAIN s : s[i] = e})
  BY <1>3
<1> HIDE DEF A
<1> QED BY <1>4, <1>5, <1>6, <1>7

\* A sequence is cut in two.
LEMMA CountSplit ==
    ASSUME NEW S, NEW s \in Seq(S), NEW n \in 0 .. Len(s), NEW e
    PROVE  /\ SubSeq(s, 1, n) \in Seq(S) /\ SubSeq(s, n + 1, Len(s)) \in Seq(S)
           /\ Occurrences(s, e) = Occurrences(SubSeq(s, 1, n), e)
                                  + Occurrences(SubSeq(s, n + 1, Len(s)), e)
<1> DEFINE l == SubSeq(s, 1, n)
           r == SubSeq(s, n + 1, Len(s))
           A == {i \in DOMAIN s : s[i] = e}
           L == {i \in DOMAIN l : l[i] = e}
           R == {i \in DOMAIN r : r[i] = e}
           B == {i \in n + 1 .. Len(s) : s[i] = e}
           f == [i \in R |-> i + n]
<1>1. Len(s) \in Nat /\ n \in Nat /\ n <= Len(s) /\ \A i \in 1 .. Len(s) : s[i] \in S
  OBVIOUS
<1>2. /\ l \in Seq(S) /\ DOMAIN l = 1 .. n
      /\ \A i \in 1 .. n : l[i] = s[i]
  BY <1>1
<1>3. /\ r \in Seq(S) /\ DOMAIN r = 1 .. Len(s) - n
      /\ \A i \in 1 .. Len(s) - n : r[i] = s[i + n]
  BY <1>1
<1>4. IsFiniteSet(L) /\ IsFiniteSet(R)
  BY <1>2, <1>3, CountType
<1> HIDE DEF l, r
<1>5. IsFiniteSet(B) /\ Cardinality(B) = Cardinality(R)
  <2>1. f \in [R -> B] /\ IsInjective(f)
    BY <1>1, <1>3 DEF IsInjective
  <2>2. ASSUME NEW j \in B PROVE \E i \in R : f[i] = j
    <3>1. j - n \in R /\ f[j - n] = j
      BY <1>1, <1>3
    <3> QED BY <3>1
  <2>3. f \in Bijection(R, B)
    BY <2>1, <2>2 DEF Bijection, Injection, Surjection
  <2> QED BY <1>4, <2>3, FS_Bijection DEF ExistsBijection
<1>6. A = L \cup B /\ L \cap B = {}
  BY <1>1, <1>2
<1>7. Cardinality(A) = Cardinality(L) + Cardinality(B)
  <2> HIDE DEF A, L, B
  <2>1. Cardinality(L) \in Nat /\ Cardinality(B) \in Nat
    BY <1>4, <1>5, FS_CardinalityType
  <2>2. Cardinality(L \cup B) = Cardinality(L) + Cardinality(B) - 0
    BY <1>4, <1>5, <1>6, FS_Union, FS_EmptySet
  <2> QED BY <1>6, <2>1, <2>2
<1> QED BY <1>2, <1>3, <1>5, <1>7 DEF Occurrences, l, r

\* Two sequences are put together.
LEMMA CountConcat ==
    ASSUME NEW S, NEW s \in Seq(S), NEW t \in Seq(S), NEW e
    PROVE  s \o t \in Seq(S) /\ Occurrences(s \o t, e) = Occurrences(s, e) + Occurrences(t, e)
<1> DEFINE u == s \o t
<1>1. /\ u \in Seq(S) /\ Len(u) = Len(s) + Len(t) /\ Len(s) \in Nat /\ Len(t) \in Nat
      /\ \A i \in 1 .. Len(s) + Len(t) : u[i] = IF i <= Len(s) THEN s[i] ELSE t[i - Len(s)]
  BY ConcatProperties, LenProperties
<1> HIDE DEF u
<1>2. SubSeq(u, 1, Len(s)) = s
  BY <1>1
<1>3. SubSeq(u, Len(s) + 1, Len(u)) = t
  BY <1>1
<1>4. Len(s) \in 0 .. Len(u)
  BY <1>1
<1>5. Occurrences(u, e) = Occurrences(SubSeq(u, 1, Len(s)), e)
                           + Occurrences(SubSeq(u, Len(s) + 1, Len(u)), e)
  BY <1>1, <1>4, CountSplit
<1>6. u \in Seq(S) /\ Occurrences(u, e) = Occurrences(s, e) + Occurrences(t, e)
  BY <1>1, <1>2, <1>3, <1>5
<1> QED BY <1>6 DEF u

\* A sequence of one.
LEMMA CountOne ==
    ASSUME NEW S, NEW x \in S, NEW e
    PROVE  <<x>> \in Seq(S) /\ Occurrences(<<x>>, e) = IF x = e THEN 1 ELSE 0
<1> DEFINE A == {i \in DOMAIN <<x>> : <<x>>[i] = e}
<1>1. (x = e => A = {1}) /\ (x # e => A = {})
  OBVIOUS
<1>2. Occurrences(<<x>>, e) = Cardinality(A)
  BY DEF Occurrences
<1> HIDE DEF A
<1>3. Cardinality({1}) = 1 /\ Cardinality({}) = 0
  BY FS_Singleton, FS_EmptySet
<1> QED BY <1>1, <1>2, <1>3

\* One is put at the end.
LEMMA CountAppend ==
    ASSUME NEW S, NEW s \in Seq(S), NEW x \in S, NEW e
    PROVE  /\ Append(s, x) \in Seq(S)
           /\ Occurrences(Append(s, x), e) = Occurrences(s, e) + IF x = e THEN 1 ELSE 0
<1> DEFINE t == <<x>>
<1>1. Append(s, x) = s \o t /\ t \in Seq(S)
  BY AppendIsConcat
<1>3. Occurrences(t, e) = IF x = e THEN 1 ELSE 0
  BY CountOne
<1> HIDE DEF t
<1>2. Occurrences(s \o t, e) = Occurrences(s, e) + Occurrences(t, e)
  BY <1>1, CountConcat
<1>4. Append(s, x) \in Seq(S)
  OBVIOUS
<1> QED BY <1>1, <1>2, <1>3, <1>4

\* The first is taken away.
LEMMA CountTail ==
    ASSUME NEW S, NEW s \in Seq(S), s # <<>>, NEW e
    PROVE  /\ Tail(s) \in Seq(S) /\ Head(s) \in S
           /\ Occurrences(s, e) = Occurrences(Tail(s), e) + IF Head(s) = e THEN 1 ELSE 0
<1>1. Len(s) \in Nat /\ 1 \in 0 .. Len(s) /\ Head(s) = s[1] /\ s[1] \in S
  BY EmptySeq
<1> DEFINE l == SubSeq(s, 1, 1)
           r == SubSeq(s, 1 + 1, Len(s))
           h == <<Head(s)>>
<1>2. Occurrences(h, e) = IF Head(s) = e THEN 1 ELSE 0
  BY <1>1, CountOne
<1>3. l = h
  <2>1. l \in Seq(S) /\ Len(l) = 1 /\ l[1] = Head(s)
    BY <1>1, SubSeqProperties
  <2>2. h \in Seq(S) /\ Len(h) = 1 /\ h[1] = Head(s)
    BY <1>1
  <2> HIDE DEF l, h
  <2> QED BY <2>1, <2>2, SeqEqual
<1>4. r = Tail(s)
  BY <1>1, TailIsSubSeq
<1>5. Occurrences(s, e) = Occurrences(l, e) + Occurrences(r, e)
  BY <1>1, CountSplit
<1>6. Occurrences(Tail(s), e) \in Nat /\ Tail(s) \in Seq(S)
  BY HeadTailProperties, CountType
<1> HIDE DEF l, r, h
<1> QED BY <1>1, <1>2, <1>3, <1>4, <1>5, <1>6

-----------------------------------------------------------------------------
(* Submission.                                                              *)

\* io_uring_submit does not fail with an error of its own; it may still take a
\* part of the ring, or refuse with -EBUSY.
SubmitWorks == "submit" \notin CanFail

\* io_uring_submit moves requests from the ring to the kernel, and at least one
\* when no completion is waiting.
LEMMA SubmitMoves ==
    ASSUME SubmitWorks, TypeOK, NEW s \in Seq(Entries), Len(s) <= SqSize,
           NEW o \in SubmitOutcomes(Len(s)), Submit(s, o)
    PROVE  /\ sq' \in Seq(Entries) /\ Len(sq') <= SqSize
           /\ kernel' \in [Entries -> Nat]
           /\ \A e \in Entries : Occurrences(sq', e) + kernel'[e] = Occurrences(s, e) + kernel[e]
           /\ ~SubmitFails(o.r)
           /\ s # <<>> /\ cq = <<>> => \E e \in Entries : kernel'[e] > 0
<1>1. /\ o.taken \in 0 .. Len(s) /\ o.r # "error" /\ Len(s) \in Nat
      /\ Len(s) > 0 /\ cq = <<>> => o.taken >= 1
  BY RingAssumption DEF SubmitOutcomes, SubmitWorks, TypeOK
<1> DEFINE l == SubSeq(s, 1, o.taken)
<1>2. /\ sq' = SubSeq(s, o.taken + 1, Len(s))
      /\ kernel' = [e \in Entries |-> kernel[e] + Occurrences(l, e)]
  BY DEF Submit
<1>3. l \in Seq(Entries) /\ Len(l) = o.taken /\ \A i \in 1 .. o.taken : l[i] = s[i]
  BY <1>1
<1>4. sq' \in Seq(Entries) /\ Len(sq') <= SqSize
  BY <1>1, <1>2, RingAssumption
<1>5. ASSUME NEW e \in Entries
      PROVE  /\ Occurrences(l, e) \in Nat /\ kernel[e] \in Nat /\ Occurrences(sq', e) \in Nat
             /\ Occurrences(s, e) = Occurrences(l, e) + Occurrences(sq', e)
  <2>1. Occurrences(s, e) = Occurrences(l, e) + Occurrences(sq', e)
    BY <1>1, <1>2, CountSplit
  <2>2. kernel[e] \in Nat
    BY DEF TypeOK
  <2> HIDE DEF l
  <2>3. Occurrences(l, e) \in Nat /\ Occurrences(sq', e) \in Nat
    BY <1>3, <1>4, CountType
  <2> QED BY <2>1, <2>2, <2>3
<1>6. ASSUME s # <<>>, cq = <<>> PROVE \E e \in Entries : kernel'[e] > 0
  <2>1. Len(s) > 0 /\ s[1] \in Entries /\ 1 \in 1 .. o.taken /\ l[1] = s[1]
    BY <1>1, <1>3, <1>6, EmptySeq
  <2> HIDE DEF l
  <2>2. Occurrences(l, s[1]) > 0
    BY <1>3, <2>1, CountType
  <2> QED BY <1>2, <1>5, <2>1, <2>2
<1> HIDE DEF l
<1>7. kernel' \in [Entries -> Nat]
  BY <1>2, <1>5
<1>8. \A e \in Entries : Occurrences(sq', e) + kernel'[e] = Occurrences(s, e) + kernel[e]
  BY <1>2, <1>5
<1> QED BY <1>1, <1>4, <1>6, <1>7, <1>8 DEF SubmitFails

\* _put_sq adds a request exactly when it reports success, and leaves none for
\* a thread that sleeps.
LEMMA PutAdds ==
    ASSUME SubmitWorks, TypeOK, NothingStranded,
           NEW e \in Entries, NEW ok \in BOOLEAN, PutSq(e, ok)
    PROVE  /\ pending' \in Seq(Entries) /\ sq' \in Seq(Entries) /\ Len(sq') <= SqSize
           /\ kernel' \in [Entries -> Nat]
           /\ \A c \in Coros :
                 Occurrences(pending', c) + Occurrences(sq', c) + kernel'[c]
                 = Occurrences(pending, c) + Occurrences(sq, c) + kernel[c]
                   + IF ok /\ c = e THEN 1 ELSE 0
           /\ tpc = "wait" /\ cq = <<>> => \E x \in Entries : kernel'[x] > 0
<1>0. /\ pending \in Seq(Entries) /\ sq \in Seq(Entries) /\ Len(sq) <= SqSize /\ Len(sq) \in Nat
      /\ kernel \in [Entries -> Nat] /\ SqSize \in Nat \ {0}
  BY RingAssumption DEF TypeOK
<1>c. \A c \in Coros : /\ c \in Entries /\ Occurrences(pending, c) \in Nat
                       /\ Occurrences(sq, c) \in Nat /\ kernel[c] \in Nat
  BY <1>0, CountType DEF Entries
<1>1. ASSUME Len(sq) < SqSize, UNCHANGED pending,
             NEW o \in SubmitOutcomes(Len(sq) + 1), Submit(Append(sq, e), o), ok = ~SubmitFails(o.r)
      PROVE  /\ sq' \in Seq(Entries) /\ Len(sq') <= SqSize
             /\ kernel' \in [Entries -> Nat] /\ ok
             /\ \A c \in Coros : Occurrences(sq', c) + kernel'[c]
                                 = Occurrences(sq, c) + kernel[c] + IF c = e THEN 1 ELSE 0
             /\ cq = <<>> => \E x \in Entries : kernel'[x] > 0
  <2> DEFINE s == Append(sq, e)
  <2>1. s \in Seq(Entries) /\ Len(s) = Len(sq) + 1 /\ s # <<>>
    BY <1>0, AppendProperties
  <2>2. \A c \in Coros : Occurrences(s, c) = Occurrences(sq, c) + IF e = c THEN 1 ELSE 0
    BY <1>0, <1>c, CountAppend
  <2>3. o \in SubmitOutcomes(Len(s)) /\ Submit(s, o) /\ Len(s) <= SqSize
    BY <1>0, <1>1, <2>1
  <2> HIDE DEF s
  <2>4. /\ sq' \in Seq(Entries) /\ Len(sq') <= SqSize
        /\ kernel' \in [Entries -> Nat] /\ ok
        /\ \A x \in Entries : Occurrences(sq', x) + kernel'[x] = Occurrences(s, x) + kernel[x]
        /\ cq = <<>> => \E x \in Entries : kernel'[x] > 0
    BY <1>1, <2>1, <2>3, SubmitMoves
  <2>5. \A c \in Coros : Occurrences(sq', c) + kernel'[c]
                         = Occurrences(sq, c) + kernel[c] + IF c = e THEN 1 ELSE 0
    BY <1>0, <1>c, <2>2, <2>4
  <2> QED BY <2>4, <2>5
<1>2. ASSUME Len(sq) = SqSize, UNCHANGED <<sq, kernel>>,
             pending' = IF ok THEN PushBack(e) ELSE pending
      PROVE  /\ pending' \in Seq(Entries)
             /\ \A c \in Coros : Occurrences(pending', c)
                                 = Occurrences(pending, c) + IF ok /\ c = e THEN 1 ELSE 0
             /\ tpc = "wait" /\ cq = <<>> => \E x \in Entries : kernel'[x] > 0
  <2>1. tpc = "wait" /\ cq = <<>> => \E x \in Entries : kernel'[x] > 0
    BY <1>0, <1>2, EmptySeq DEF NothingStranded
  <2>2. CASE ok
    BY <1>0, <1>c, <1>2, <2>1, <2>2, CountAppend DEF PushBack
  <2>3. CASE ~ok
    BY <1>0, <1>c, <1>2, <2>1, <2>3
  <2> QED BY <2>2, <2>3
<1>3. CASE /\ Len(sq) = SqSize /\ UNCHANGED <<sq, kernel>>
           /\ pending' = IF ok THEN PushBack(e) ELSE pending
  BY <1>0, <1>c, <1>2, <1>3
<1>4. CASE /\ Len(sq) < SqSize /\ UNCHANGED pending
           /\ \E o \in SubmitOutcomes(Len(sq) + 1) :
                 Submit(Append(sq, e), o) /\ ok = ~SubmitFails(o.r)
  <2>1. /\ sq' \in Seq(Entries) /\ Len(sq') <= SqSize
        /\ kernel' \in [Entries -> Nat] /\ ok
        /\ \A c \in Coros : Occurrences(sq', c) + kernel'[c]
                            = Occurrences(sq, c) + kernel[c] + IF c = e THEN 1 ELSE 0
        /\ cq = <<>> => \E x \in Entries : kernel'[x] > 0
    BY <1>1, <1>4
  <2>2. \A c \in Coros : Occurrences(sq', c) \in Nat /\ kernel'[c] \in Nat
    BY <1>c, <2>1, CountType
  <2>3. ASSUME NEW c \in Coros
        PROVE  Occurrences(pending', c) + Occurrences(sq', c) + kernel'[c]
               = Occurrences(pending, c) + Occurrences(sq, c) + kernel[c]
                 + IF ok /\ c = e THEN 1 ELSE 0
    <3>1. (IF ok /\ c = e THEN 1 ELSE 0) = IF c = e THEN 1 ELSE 0
      BY <2>1
    <3>2. /\ pending' = pending
          /\ Occurrences(sq', c) + kernel'[c]
             = Occurrences(sq, c) + kernel[c] + IF c = e THEN 1 ELSE 0
      BY <1>4, <2>1
    <3> QED BY <1>c, <2>2, <3>1, <3>2
  <2> QED BY <1>0, <1>4, <2>1, <2>3
<1> QED BY <1>3, <1>4 DEF PutSq

-----------------------------------------------------------------------------
(* One lemma for each action, or for a few that do much the same.           *)

\* What RequestConserved adds up, for one coroutine.
Counted(c) ==
    /\ c \in Entries /\ c # Nop
    /\ Occurrences(pending, c) \in Nat /\ Occurrences(sq, c) \in Nat
    /\ kernel[c] \in Nat /\ Occurrences(cq, c) \in Nat /\ jobs[c] \in Nat
    /\ Handled(c) \in Nat /\ Handled(c) <= Occurrences(cq, c)
    /\ Occurrences(pending, c) + Occurrences(sq, c) + kernel[c]
          + Occurrences(cq, c) - Handled(c) + jobs[c]
       = IF cpc[c] \in {"put", "waiting"} THEN 1 ELSE 0

\* The invariant makes the sum right for every coroutine.
LEMMA Counts == IndInv => \A c \in Coros : Counted(c)
<1> SUFFICES ASSUME IndInv, NEW c \in Coros PROVE Counted(c)
  OBVIOUS
<1>1. c \in Entries /\ c # Nop
  BY RingAssumption DEF Entries
<1>2. /\ pending \in Seq(Entries) /\ sq \in Seq(Entries) /\ cq \in Seq(Entries)
      /\ kernel[c] \in Nat /\ jobs[c] \in Nat
  BY <1>1 DEF IndInv, TypeOK
<1>3. Occurrences(pending, c) \in Nat /\ Occurrences(sq, c) \in Nat /\ Occurrences(cq, c) \in Nat
  BY <1>2, CountType
<1>4. tpc = "seen" /\ Head(cq) = c => Occurrences(cq, c) >= 1
  <2>1. ASSUME tpc = "seen", Head(cq) = c PROVE Occurrences(cq, c) > 0
    <3>1. cq # <<>> /\ Len(cq) \in Nat /\ 1 \in 1 .. Len(cq) /\ cq[1] = c
      BY <1>2, <2>1, EmptySeq DEF IndInv, HeadInv
    <3> QED BY <1>2, <3>1, CountType
  <2> QED BY <1>3, <2>1
<1>5. Handled(c) \in Nat /\ Handled(c) <= Occurrences(cq, c)
  BY <1>3, <1>4 DEF Handled
<1> QED BY <1>1, <1>2, <1>3, <1>5 DEF IndInv, RequestConserved, Counted

\* The rings are empty.
LEMMA InitInv == Init => IndInv
<1> SUFFICES ASSUME Init PROVE IndInv
  OBVIOUS
<1>1. TypeOK
  BY RingAssumption DEF Init, TypeOK
<1>2. ASSUME NEW c \in Coros PROVE Occurrences(<<>>, c) = 0
  <2>1. {i \in DOMAIN <<>> : <<>>[i] = c} = {}
    OBVIOUS
  <2> QED BY <2>1, FS_EmptySet DEF Occurrences
<1>3. RequestConserved
  BY <1>2 DEF Init, RequestConserved, Handled, Entries
<1> QED BY <1>1, <1>3 DEF Init, IndInv, NothingStranded, HeadInv, LockInv, MutexOutlivesHolder

\* await_suspend begins.
LEMMA SuspendInv ==
    ASSUME IndInv, NEW c \in Coros, Suspend(c)
    PROVE  IndInv'
<1>1. TypeOK'
  BY DEF Suspend, Goto, ringVars, IndInv, TypeOK
<1>2. RequestConserved'
  <2>c. \A d \in Coros : Counted(d)
    BY Counts
  <2>1. ASSUME NEW d \in Coros
        PROVE  Occurrences(pending', d) + Occurrences(sq', d) + kernel'[d]
                  + Occurrences(cq', d) - Handled(d)' + jobs'[d]
               = IF cpc'[d] \in {"put", "waiting"} THEN 1 ELSE 0
    BY <2>c DEF Counted, Suspend, Goto, ringVars, Handled
  <2> QED BY <2>1 DEF RequestConserved
<1>3. NothingStranded'
  BY DEF Suspend, ringVars, IndInv, NothingStranded
<1>4. HeadInv'
  BY DEF Suspend, ringVars, IndInv, HeadInv
<1>5. LockInv'
  BY DEF Suspend, Goto, IndInv, TypeOK, LockInv
<1>6. MutexOutlivesHolder'
  BY DEF Suspend, Goto, ringVars, IndInv, MutexOutlivesHolder
<1> QED BY <1>1, <1>2, <1>3, <1>4, <1>5, <1>6 DEF IndInv

\* await_suspend ends.
LEMMA SuspendedInv ==
    ASSUME IndInv, NEW c \in Coros, Suspended(c)
    PROVE  IndInv'
<1>1. TypeOK'
  BY DEF Suspended, Goto, ringVars, IndInv, TypeOK
<1>2. RequestConserved'
  <2>c. \A d \in Coros : Counted(d)
    BY Counts
  <2>1. ASSUME NEW d \in Coros
        PROVE  Occurrences(pending', d) + Occurrences(sq', d) + kernel'[d]
                  + Occurrences(cq', d) - Handled(d)' + jobs'[d]
               = IF cpc'[d] \in {"put", "waiting"} THEN 1 ELSE 0
    BY <2>c DEF Counted, Suspended, Goto, ringVars, Handled
  <2> QED BY <2>1 DEF RequestConserved
<1>3. NothingStranded'
  BY DEF Suspended, ringVars, IndInv, NothingStranded
<1>4. HeadInv'
  BY DEF Suspended, ringVars, IndInv, HeadInv
<1>5. LockInv'
  BY DEF Suspended, Goto, IndInv, TypeOK, LockInv
<1>6. MutexOutlivesHolder'
  BY DEF Suspended, Goto, ringVars, IndInv, MutexOutlivesHolder
<1> QED BY <1>1, <1>2, <1>3, <1>4, <1>5, <1>6 DEF IndInv

\* await_resume.
LEMMA ResumeInv ==
    ASSUME IndInv, NEW c \in Coros, Resume(c)
    PROVE  IndInv'
<1>1. TypeOK'
  BY DEF Resume, Goto, ringVars, IndInv, TypeOK
<1>2. RequestConserved'
  <2>1. ASSUME NEW d \in Coros
        PROVE  Occurrences(pending', d) + Occurrences(sq', d) + kernel'[d]
                  + Occurrences(cq', d) - Handled(d)' + jobs'[d]
               = IF cpc'[d] \in {"put", "waiting"} THEN 1 ELSE 0
    <3>c. Counted(d)
      BY Counts
    <3>0. Handled(d)' = Handled(d)
      BY DEF Resume, ringVars, Handled
    <3>1. CASE d = c
      <4>1. /\ jobs[c] > 0 /\ jobs'[c] = jobs[c] - 1 /\ cpc'[c] = "idle"
            /\ UNCHANGED <<pending, sq, kernel, cq>>
        BY DEF Resume, Goto, ringVars, IndInv, TypeOK
      <4> QED BY <3>0, <3>c, <3>1, <4>1 DEF Counted
    <3>2. CASE d # c
      BY <3>0, <3>2, <3>c DEF Counted, Resume, Goto, ringVars
    <3> QED BY <3>1, <3>2
  <2> QED BY <2>1 DEF RequestConserved
<1>3. NothingStranded'
  BY DEF Resume, ringVars, IndInv, NothingStranded
<1>4. HeadInv'
  BY DEF Resume, ringVars, IndInv, HeadInv
<1>5. LockInv'
  BY DEF Resume, Goto, IndInv, LockInv
<1>6. MutexOutlivesHolder'
  BY DEF Resume, MayResume, Goto, ringVars, IndInv, MutexOutlivesHolder
<1> QED BY <1>1, <1>2, <1>3, <1>4, <1>5, <1>6 DEF IndInv

\* await_suspend calls _put_sq.
LEMMA PutInv ==
    ASSUME SubmitWorks, IndInv, NEW c \in Coros, Put(c)
    PROVE  IndInv'
<1>a. PICK ok \in BOOLEAN : PutSq(c, ok) /\ Goto(c, IF ok THEN "put" ELSE "failed")
  BY DEF Put
<1>b. /\ TypeOK /\ NothingStranded /\ c \in Entries /\ cpc[c] = "locked"
      /\ UNCHANGED <<cq, tpc, cmtx, jobs, stop>>
  BY Counts DEF Put, IndInv, Counted
<1>c. /\ pending' \in Seq(Entries) /\ sq' \in Seq(Entries) /\ Len(sq') <= SqSize
      /\ kernel' \in [Entries -> Nat]
      /\ \A d \in Coros :
            Occurrences(pending', d) + Occurrences(sq', d) + kernel'[d]
            = Occurrences(pending, d) + Occurrences(sq, d) + kernel[d]
              + IF ok /\ d = c THEN 1 ELSE 0
      /\ tpc = "wait" /\ cq = <<>> => \E x \in Entries : kernel'[x] > 0
  BY <1>a, <1>b, PutAdds
<1>d. /\ cpc' = [cpc EXCEPT ![c] = IF ok THEN "put" ELSE "failed"]
      /\ cpc \in [Coros -> {"idle", "locked", "put", "failed", "waiting"}]
  BY <1>a, <1>b DEF Goto, TypeOK
<1>e. \A d \in Coros : d # c => cpc'[d] = cpc[d]
  BY <1>d
<1>f. cpc'[c] \in {"put", "failed"} /\ (ok <=> cpc'[c] = "put")
  BY <1>d
<1>1. TypeOK'
  BY <1>b, <1>c, <1>d DEF TypeOK
<1>2. RequestConserved'
  <2>1. ASSUME NEW d \in Coros
        PROVE  Occurrences(pending', d) + Occurrences(sq', d) + kernel'[d]
                  + Occurrences(cq', d) - Handled(d)' + jobs'[d]
               = IF cpc'[d] \in {"put", "waiting"} THEN 1 ELSE 0
    <3>c. Counted(d)
      BY Counts
    <3>0. Handled(d)' = Handled(d) /\ cq' = cq /\ jobs'[d] = jobs[d]
      BY <1>b DEF Handled
    <3>n. Occurrences(pending', d) \in Nat /\ Occurrences(sq', d) \in Nat /\ kernel'[d] \in Nat
      BY <1>c, CountType, <3>c DEF Counted
    <3>m. Occurrences(pending', d) + Occurrences(sq', d) + kernel'[d]
          = Occurrences(pending, d) + Occurrences(sq, d) + kernel[d]
            + IF ok /\ d = c THEN 1 ELSE 0
      BY <1>c
    <3>1. CASE d = c /\ ok
      <4>1. (IF ok /\ d = c THEN 1 ELSE 0) = 1
        BY <3>1
      <4>2. cpc[d] = "locked" /\ cpc'[d] = "put"
        BY <1>b, <1>f, <3>1
      <4>3. Occurrences(pending', d) + Occurrences(sq', d) + kernel'[d]
            = Occurrences(pending, d) + Occurrences(sq, d) + kernel[d] + 1
        BY <3>m, <4>1
      <4> QED BY <3>0, <3>c, <4>2, <4>3 DEF Counted
    <3>2. CASE ~(d = c /\ ok)
      <4>1. (IF ok /\ d = c THEN 1 ELSE 0) = 0
        BY <3>2
      <4>2. cpc'[d] \in {"put", "waiting"} <=> cpc[d] \in {"put", "waiting"}
        BY <1>b, <1>e, <1>f, <3>2
      <4> QED BY <3>0, <3>c, <3>m, <4>1, <4>2 DEF Counted
    <3> QED BY <3>1, <3>2
  <2> QED BY <2>1 DEF RequestConserved
<1>3. NothingStranded'
  BY <1>b, <1>c DEF NothingStranded
<1>4. HeadInv'
  BY <1>b DEF IndInv, HeadInv
<1>5. LockInv'
  BY <1>b, <1>e DEF IndInv, LockInv
<1>6. MutexOutlivesHolder'
  BY <1>b, <1>e DEF IndInv, HeadInv, MutexOutlivesHolder
<1> QED BY <1>1, <1>2, <1>3, <1>4, <1>5, <1>6 DEF IndInv

\* stop() puts its request.
LEMMA StopInv ==
    ASSUME SubmitWorks, IndInv, StopPut \/ StopJoin
    PROVE  IndInv'
<1>a. CASE StopJoin
  <2>1. UNCHANGED <<pending, sq, kernel, cq, tpc, cpc, cmtx, jobs>> /\ stop' = "stopped"
    BY <1>a DEF StopJoin, ringVars
  <2> QED BY <2>1 DEF IndInv, TypeOK, RequestConserved, Handled, NothingStranded, HeadInv, LockInv,
                      MutexOutlivesHolder
<1> SUFFICES ASSUME StopPut PROVE IndInv'
  BY <1>a
<1>b. PICK ok \in BOOLEAN : PutSq(Nop, ok)
  BY DEF StopPut
<1>c. /\ TypeOK /\ NothingStranded /\ Nop \in Entries
      /\ UNCHANGED <<cq, tpc, cpc, cmtx, jobs>> /\ stop' = "joining"
  BY DEF StopPut, IndInv, Entries
<1>d. /\ pending' \in Seq(Entries) /\ sq' \in Seq(Entries) /\ Len(sq') <= SqSize
      /\ kernel' \in [Entries -> Nat]
      /\ \A d \in Coros :
            Occurrences(pending', d) + Occurrences(sq', d) + kernel'[d]
            = Occurrences(pending, d) + Occurrences(sq, d) + kernel[d]
              + IF ok /\ d = Nop THEN 1 ELSE 0
      /\ tpc = "wait" /\ cq = <<>> => \E x \in Entries : kernel'[x] > 0
  BY <1>b, <1>c, PutAdds
<1>1. TypeOK'
  BY <1>c, <1>d DEF TypeOK
<1>2. RequestConserved'
  <2>1. ASSUME NEW d \in Coros
        PROVE  Occurrences(pending', d) + Occurrences(sq', d) + kernel'[d]
                  + Occurrences(cq', d) - Handled(d)' + jobs'[d]
               = IF cpc'[d] \in {"put", "waiting"} THEN 1 ELSE 0
    <3>c. Counted(d)
      BY Counts
    <3>0. Handled(d)' = Handled(d) /\ cq' = cq /\ jobs'[d] = jobs[d] /\ cpc'[d] = cpc[d]
      BY <1>c DEF Handled
    <3>n. Occurrences(pending', d) \in Nat /\ Occurrences(sq', d) \in Nat /\ kernel'[d] \in Nat
      BY <1>d, CountType, <3>c DEF Counted
    <3>1. (IF ok /\ d = Nop THEN 1 ELSE 0) = 0
      BY <3>c DEF Counted
    <3>2. Occurrences(pending', d) + Occurrences(sq', d) + kernel'[d]
          = Occurrences(pending, d) + Occurrences(sq, d) + kernel[d]
            + IF ok /\ d = Nop THEN 1 ELSE 0
      BY <1>d
    <3> QED BY <3>0, <3>c, <3>2 DEF Counted
  <2> QED BY <2>1 DEF RequestConserved
<1>3. NothingStranded'
  BY <1>c, <1>d DEF NothingStranded
<1>4. HeadInv'
  BY <1>c DEF IndInv, HeadInv
<1>5. LockInv'
  BY <1>c DEF IndInv, LockInv
<1>6. MutexOutlivesHolder'
  BY <1>c DEF IndInv, MutexOutlivesHolder
<1> QED BY <1>1, <1>2, <1>3, <1>4, <1>5, <1>6 DEF IndInv

\* The kernel completes a request.
LEMMA CompleteInv ==
    ASSUME IndInv, NEW e \in Entries, Complete(e)
    PROVE  IndInv'
<1>a. /\ cq \in Seq(Entries) /\ cq' = Append(cq, e) /\ kernel \in [Entries -> Nat]
      /\ kernel[e] > 0 /\ kernel' = [kernel EXCEPT ![e] = @ - 1]
      /\ UNCHANGED <<pending, sq, tpc, cpc, cmtx, jobs, stop>>
  BY DEF Complete, IndInv, TypeOK
<1>b. /\ cq' \in Seq(Entries) /\ cq' # <<>>
      /\ cq # <<>> => Head(cq') = Head(cq)
  BY <1>a
<1>1. TypeOK'
  BY <1>a DEF IndInv, TypeOK
<1>2. RequestConserved'
  <2>1. ASSUME NEW d \in Coros
        PROVE  Occurrences(pending', d) + Occurrences(sq', d) + kernel'[d]
                  + Occurrences(cq', d) - Handled(d)' + jobs'[d]
               = IF cpc'[d] \in {"put", "waiting"} THEN 1 ELSE 0
    <3>c. Counted(d)
      BY Counts
    <3>1. Handled(d)' = Handled(d)
      BY <1>a DEF IndInv, HeadInv, Handled
    <3>2. Occurrences(cq', d) = Occurrences(cq, d) + IF e = d THEN 1 ELSE 0
      BY <1>a, CountAppend
    <3>3. kernel'[d] = IF e = d THEN kernel[d] - 1 ELSE kernel[d]
      <4>1. d \in Entries
        BY <3>c DEF Counted
      <4> QED BY <1>a, <4>1
    <3>4. pending' = pending /\ sq' = sq /\ cpc' = cpc /\ jobs' = jobs
      BY <1>a
    <3>5. CASE e = d
      BY <3>1, <3>2, <3>3, <3>4, <3>5, <3>c DEF Counted
    <3>6. CASE e # d
      BY <3>1, <3>2, <3>3, <3>4, <3>6, <3>c DEF Counted
    <3> QED BY <3>5, <3>6
  <2> QED BY <2>1 DEF RequestConserved
<1>3. NothingStranded'
  BY <1>b DEF NothingStranded
<1>4. HeadInv'
  BY <1>a DEF IndInv, HeadInv
<1>5. LockInv'
  BY <1>a DEF IndInv, LockInv
<1>6. MutexOutlivesHolder'
  BY <1>a DEF IndInv, HeadInv, MutexOutlivesHolder
<1> QED BY <1>1, <1>2, <1>3, <1>4, <1>5, <1>6 DEF IndInv

\* The thread finds a completion, or none, or the request of stop().
LEMMA LoopInv ==
    ASSUME IndInv, WaitCqe \/ Shutdown \/ PeekCqe
    PROVE  IndInv'
<1>1. TypeOK'
  BY DEF WaitCqe, Shutdown, PeekCqe, ringVars, IndInv, TypeOK
<1>2. RequestConserved'
  <2>c. \A d \in Coros : Counted(d)
    BY Counts
  <2>1. ASSUME NEW d \in Coros
        PROVE  Occurrences(pending', d) + Occurrences(sq', d) + kernel'[d]
                  + Occurrences(cq', d) - Handled(d)' + jobs'[d]
               = IF cpc'[d] \in {"put", "waiting"} THEN 1 ELSE 0
    BY <2>c DEF Counted, WaitCqe, Shutdown, PeekCqe, ringVars, Handled
  <2> QED BY <2>1 DEF RequestConserved
<1>3. NothingStranded'
  BY DEF WaitCqe, Shutdown, PeekCqe, NothingStranded
<1>4. HeadInv'
  BY DEF WaitCqe, Shutdown, PeekCqe, ringVars, HeadInv
<1>5. LockInv'
  BY DEF WaitCqe, Shutdown, PeekCqe, IndInv, LockInv
<1>6. MutexOutlivesHolder'
  BY DEF WaitCqe, Shutdown, PeekCqe, MutexOutlivesHolder
<1> QED BY <1>1, <1>2, <1>3, <1>4, <1>5, <1>6 DEF IndInv

\* The thread locks the awaiter.
LEMMA LockAwaiterInv ==
    ASSUME IndInv, LockAwaiter
    PROVE  IndInv'
<1>a. cq # <<>> /\ cq \in Seq(Entries) /\ Head(cq) \in Coros
  BY DEF LockAwaiter, IndInv, TypeOK, HeadInv, Entries
<1>b. cpc[Head(cq)] = "waiting"
  <2>1. Len(cq) \in Nat /\ 1 \in 1 .. Len(cq) /\ cq[1] = Head(cq)
    BY <1>a, EmptySeq
  <2>2. Occurrences(cq, Head(cq)) > 0
    BY <1>a, <2>1, CountType
  <2>3. Handled(Head(cq)) = 0 /\ ~cmtx[Head(cq)]
    BY DEF LockAwaiter, Handled
  <2>c. Counted(Head(cq))
    BY <1>a, Counts
  <2>4. cpc[Head(cq)] \in {"put", "waiting"}
    BY <2>2, <2>3, <2>c DEF Counted
  <2> QED BY <1>a, <2>3, <2>4 DEF IndInv, LockInv
<1>1. TypeOK'
  BY DEF LockAwaiter, ringVars, IndInv, TypeOK
<1>2. RequestConserved'
  <2>c. \A d \in Coros : Counted(d)
    BY Counts
  <2>1. ASSUME NEW d \in Coros
        PROVE  Occurrences(pending', d) + Occurrences(sq', d) + kernel'[d]
                  + Occurrences(cq', d) - Handled(d)' + jobs'[d]
               = IF cpc'[d] \in {"put", "waiting"} THEN 1 ELSE 0
    BY <2>c DEF Counted, LockAwaiter, ringVars, Handled
  <2> QED BY <2>1 DEF RequestConserved
<1>3. NothingStranded'
  BY DEF LockAwaiter, NothingStranded
<1>4. HeadInv'
  BY <1>a DEF LockAwaiter, ringVars, HeadInv
<1>5. LockInv'
  BY DEF LockAwaiter, IndInv, LockInv
<1>6. MutexOutlivesHolder'
  BY <1>a, <1>b DEF LockAwaiter, ringVars, IndInv, TypeOK, MutexOutlivesHolder
<1> QED BY <1>1, <1>2, <1>3, <1>4, <1>5, <1>6 DEF IndInv

\* The thread posts the coroutine.
LEMMA PostInv ==
    ASSUME IndInv, PostResume
    PROVE  IndInv'
<1>1. TypeOK'
  BY DEF PostResume, ringVars, IndInv, TypeOK, HeadInv
<1>2. RequestConserved'
  <2>1. ASSUME NEW d \in Coros
        PROVE  Occurrences(pending', d) + Occurrences(sq', d) + kernel'[d]
                  + Occurrences(cq', d) - Handled(d)' + jobs'[d]
               = IF cpc'[d] \in {"put", "waiting"} THEN 1 ELSE 0
    <3>c. Counted(d)
      BY Counts
    <3>1. Handled(d) = 0 /\ Handled(d)' = IF Head(cq) = d THEN 1 ELSE 0
      BY DEF PostResume, ringVars, Handled
    <3>2. jobs'[d] = jobs[d] + IF Head(cq) = d THEN 1 ELSE 0
      BY DEF PostResume, IndInv, TypeOK
    <3> QED BY <3>1, <3>2, <3>c DEF Counted, PostResume, ringVars
  <2> QED BY <2>1 DEF RequestConserved
<1>3. NothingStranded'
  BY DEF PostResume, NothingStranded
<1>4. HeadInv'
  BY DEF PostResume, ringVars, IndInv, HeadInv
<1>5. LockInv'
  BY DEF PostResume, IndInv, LockInv
<1>6. MutexOutlivesHolder'
  BY DEF PostResume, ringVars, IndInv, MutexOutlivesHolder
<1> QED BY <1>1, <1>2, <1>3, <1>4, <1>5, <1>6 DEF IndInv

\* The thread is done with the completion.
LEMMA SeenInv ==
    ASSUME IndInv, CqeSeen
    PROVE  IndInv'
<1>a. /\ cq # <<>> /\ cq \in Seq(Entries) /\ cq' = Tail(cq) /\ cq' \in Seq(Entries)
      /\ Head(cq) \in Coros /\ cpc[Head(cq)] = "waiting"
  BY DEF CqeSeen, IndInv, TypeOK, HeadInv, MutexOutlivesHolder
<1>1. TypeOK'
  BY <1>a DEF CqeSeen, IndInv, TypeOK
<1>2. RequestConserved'
  <2>1. ASSUME NEW d \in Coros
        PROVE  Occurrences(pending', d) + Occurrences(sq', d) + kernel'[d]
                  + Occurrences(cq', d) - Handled(d)' + jobs'[d]
               = IF cpc'[d] \in {"put", "waiting"} THEN 1 ELSE 0
    <3>c. Counted(d)
      BY Counts
    <3>1. Handled(d)' = 0 /\ Handled(d) = IF Head(cq) = d THEN 1 ELSE 0
      BY DEF CqeSeen, Handled
    <3>2. Occurrences(cq, d) = Occurrences(cq', d) + IF Head(cq) = d THEN 1 ELSE 0
      BY <1>a, CountTail
    <3>3. Occurrences(cq', d) \in Nat
      BY <1>a, CountType
    <3> QED BY <3>1, <3>2, <3>3, <3>c DEF Counted, CqeSeen
  <2> QED BY <2>1 DEF RequestConserved
<1>3. NothingStranded'
  BY DEF CqeSeen, IndInv, NothingStranded
<1>4. HeadInv'
  BY DEF CqeSeen, IndInv, HeadInv
<1>5. LockInv'
  BY <1>a DEF CqeSeen, IndInv, LockInv
<1>6. MutexOutlivesHolder'
  BY DEF CqeSeen, MutexOutlivesHolder
<1> QED BY <1>1, <1>2, <1>3, <1>4, <1>5, <1>6 DEF IndInv

\* The thread submits what waited in _pending.
LEMMA DrainInv ==
    ASSUME SubmitWorks, IndInv, Drain
    PROVE  IndInv'
<1> DEFINE n == Fitting
           m == SubSeq(pending, 1, n)
           s == sq \o m
<1>a. /\ pending \in Seq(Entries) /\ sq \in Seq(Entries) /\ Len(sq) <= SqSize
      /\ Len(pending) \in Nat /\ Len(sq) \in Nat /\ SqSize \in Nat \ {0}
      /\ UNCHANGED <<cq, cpc, cmtx, jobs, stop>> /\ tpc = "drain" /\ tpc' = "wait"
  BY RingAssumption DEF Drain, IndInv, TypeOK
<1>b. n \in 0 .. Len(pending) /\ Len(sq) + n <= SqSize /\ (Len(sq) + n = 0 => Len(pending) = 0)
  BY <1>a DEF Fitting
<1>c. pending' = SubSeq(pending, n + 1, Len(pending))
  BY DEF Drain, PopPending
<1>d. PICK o \in SubmitOutcomes(Len(s)) : Submit(s, o)
  BY DEF Drain, SubmitMoved
<1> HIDE DEF n
<1>e. m \in Seq(Entries) /\ Len(m) = n /\ pending' \in Seq(Entries)
  BY <1>a, <1>b, <1>c
<1>f. \A e \in Entries : Occurrences(pending, e) = Occurrences(m, e) + Occurrences(pending', e)
  BY <1>a, <1>b, <1>c, CountSplit
<1> HIDE DEF m
<1>g. s \in Seq(Entries) /\ Len(s) = Len(sq) + n
  BY <1>a, <1>e, ConcatProperties
<1>h. \A e \in Entries : Occurrences(s, e) = Occurrences(sq, e) + Occurrences(m, e)
  BY <1>a, <1>e, CountConcat
<1> HIDE DEF s
<1>i. /\ sq' \in Seq(Entries) /\ Len(sq') <= SqSize /\ kernel' \in [Entries -> Nat]
      /\ \A e \in Entries : Occurrences(sq', e) + kernel'[e] = Occurrences(s, e) + kernel[e]
      /\ s # <<>> /\ cq = <<>> => \E e \in Entries : kernel'[e] > 0
  BY <1>b, <1>d, <1>g, SubmitMoves DEF IndInv
<1>1. TypeOK'
  BY <1>a, <1>e, <1>i DEF IndInv, TypeOK
<1>2. RequestConserved'
  <2>1. ASSUME NEW d \in Coros
        PROVE  Occurrences(pending', d) + Occurrences(sq', d) + kernel'[d]
                  + Occurrences(cq', d) - Handled(d)' + jobs'[d]
               = IF cpc'[d] \in {"put", "waiting"} THEN 1 ELSE 0
    <3>c. Counted(d)
      BY Counts
    <3>1. /\ Occurrences(m, d) \in Nat /\ Occurrences(pending', d) \in Nat
          /\ Occurrences(sq', d) \in Nat /\ kernel'[d] \in Nat
      BY <1>e, <1>i, CountType, <3>c DEF Counted
    <3>2. Handled(d) = 0 /\ Handled(d)' = 0
      BY <1>a DEF Handled
    <3>3. Occurrences(pending', d) + Occurrences(sq', d) + kernel'[d]
          = Occurrences(pending, d) + Occurrences(sq, d) + kernel[d]
      <4>1. Occurrences(pending, d) = Occurrences(m, d) + Occurrences(pending', d)
        BY <1>f, <3>c DEF Counted
      <4>2. Occurrences(sq', d) + kernel'[d] = Occurrences(sq, d) + Occurrences(m, d) + kernel[d]
        BY <1>h, <1>i, <3>c DEF Counted
      <4>3. Occurrences(sq, d) \in Nat /\ kernel[d] \in Nat
        BY <3>c DEF Counted
      <4> DEFINE p == Occurrences(pending', d)
                 q == Occurrences(sq', d)
                 k == kernel'[d]
                 r == Occurrences(m, d)
      <4>4. p \in Nat /\ q \in Nat /\ k \in Nat /\ r \in Nat
        BY <3>1
      <4>5. Occurrences(pending, d) = r + p /\ q + k = Occurrences(sq, d) + r + kernel[d]
        BY <4>1, <4>2
      <4> HIDE DEF p, q, k, r
      <4>6. p + q + k = Occurrences(pending, d) + Occurrences(sq, d) + kernel[d]
        BY <4>3, <4>4, <4>5
      <4> QED BY <4>6 DEF p, q, k
    <3> QED BY <1>a, <3>2, <3>3, <3>c DEF Counted
  <2> QED BY <2>1 DEF RequestConserved
<1>3. NothingStranded'
  <2>1. CASE s # <<>>
    BY <1>a, <1>i, <2>1 DEF NothingStranded
  <2>2. CASE s = <<>>
    <3>1. Len(sq) + n = 0 /\ Len(pending) = 0
      BY <1>b, <1>g, <2>2
    <3>2. sq' = SubSeq(s, o.taken + 1, 0) /\ o.taken \in Nat
      BY <1>d, <2>2 DEF Submit, SubmitOutcomes
    <3>3. sq' = <<>> /\ pending' = <<>>
      BY <1>c, <3>1, <3>2
    <3> QED BY <3>3 DEF NothingStranded
  <2> QED BY <2>1, <2>2
<1>4. HeadInv'
  BY <1>a DEF HeadInv
<1>5. LockInv'
  BY <1>a DEF IndInv, LockInv
<1>6. MutexOutlivesHolder'
  BY <1>a DEF MutexOutlivesHolder
<1> QED BY <1>1, <1>2, <1>3, <1>4, <1>5, <1>6 DEF IndInv

-----------------------------------------------------------------------------
(* The specification.                                                       *)

\* Every step preserves the invariant.
LEMMA StepInv == SubmitWorks => (IndInv /\ [Next]_vars => IndInv')
<1> SUFFICES ASSUME SubmitWorks, IndInv, [Next]_vars PROVE IndInv'
  OBVIOUS
<1>1. ASSUME NEW c \in Coros, Coroutine(c) PROVE IndInv'
  BY <1>1, SuspendInv, PutInv, SuspendedInv, ResumeInv DEF Coroutine
<1>2. ASSUME NEW e \in Entries, Complete(e) PROVE IndInv'
  BY <1>2, CompleteInv
<1>3. ASSUME Thread PROVE IndInv'
  BY <1>3, LoopInv, LockAwaiterInv, PostInv, SeenInv, DrainInv DEF Thread
<1>4. ASSUME StopPut \/ StopJoin PROVE IndInv'
  BY <1>4, StopInv
<1>5. ASSUME UNCHANGED vars PROVE IndInv'
  BY <1>5 DEF vars, ringVars, IndInv, TypeOK, RequestConserved, Handled, NothingStranded, HeadInv,
              LockInv, MutexOutlivesHolder
<1> QED BY <1>1, <1>2, <1>3, <1>4, <1>5 DEF Next

\* As long as io_uring_submit does not fail, the invariant holds in every state
\* the reactor can reach.
THEOREM Invariance == SubmitWorks => (Spec => []IndInv)
<1> SUFFICES ASSUME SubmitWorks PROVE Spec => []IndInv
  OBVIOUS
<1>1. IndInv /\ [Next]_vars => IndInv'
  BY StepInv
<1> QED BY <1>1, InitInv, PTL DEF Spec

\* The completion the thread is to handle is that of the request of a coroutine
\* that waits for it.
LEMMA InvSafe == IndInv => RequestSafe
<1> SUFFICES ASSUME IndInv PROVE RequestSafe
  OBVIOUS
<1>1. ASSUME tpc = "handle", Head(cq) # Nop
      PROVE  cpc[Head(cq)] \in {"put", "failed", "waiting"} /\ jobs[Head(cq)] = 0
  <2>1. cq # <<>> /\ cq \in Seq(Entries) /\ Head(cq) \in Coros
    BY <1>1, HeadTailProperties DEF IndInv, TypeOK, HeadInv, Entries
  <2>2. Len(cq) \in Nat /\ 1 \in 1 .. Len(cq) /\ cq[1] = Head(cq)
    BY <2>1, EmptySeq
  <2>3. Occurrences(cq, Head(cq)) > 0
    BY <2>1, <2>2, CountType
  <2>4. Handled(Head(cq)) = 0
    BY <1>1 DEF Handled
  <2>c. Counted(Head(cq))
    BY <2>1, Counts
  <2> QED BY <2>3, <2>4, <2>c DEF Counted
<1> QED BY <1>1 DEF IndInv, RequestSafe, AwaiterIsLive

\* As long as io_uring_submit does not fail, no request is lost, doubled, left
\* lying or completed into an awaiter that is gone, for rings of any size, any
\* number of coroutines, whatever the kernel takes or refuses with -EBUSY and
\* also when _pending cannot grow.
THEOREM RequestsAreSafe == SubmitWorks => (Spec => []RequestSafe)
<1> SUFFICES ASSUME SubmitWorks PROVE Spec => []RequestSafe
  OBVIOUS
<1> QED BY Invariance, InvSafe, PTL

\* Then the awaiter's mutex outlives the completion thread's lock on it, too.
THEOREM MutexOutlives == SubmitWorks => (Spec => []MutexOutlivesHolder)
<1> SUFFICES ASSUME SubmitWorks PROVE Spec => []MutexOutlivesHolder
  OBVIOUS
<1>1. IndInv => MutexOutlivesHolder
  BY DEF IndInv
<1> QED BY <1>1, Invariance, PTL
=============================================================================
