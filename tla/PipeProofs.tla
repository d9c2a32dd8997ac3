----------------------------- MODULE PipeProofs -----------------------------
(***************************************************************************)
(* For every size of the buffer and every length of the source: the stream *)
(* through a circular_buffer is intact, and the buffer is a bounded stream.*)
(*                                                                         *)
(* The pointers are compared around the ring: At(p, j) is the slot j       *)
(* places after p, Occ the number of elements between the read and the     *)
(* write pointer.  All the case distinctions of the code on which pointer  *)
(* is in front are in the lemmas of the first part, which say what each    *)
(* method does in terms of At and Occ.                                     *)
(***************************************************************************)
EXTENDS Pipe, SequenceTheorems, TLAPS

At(p, j) == IF p + j < End THEN p + j ELSE p + j - End
Occ(r, w) == IF r <= w THEN w - r ELSE w + End - r

Ranges == [s1 : Nat, l1 : Nat, s2 : Nat, l2 : Nat]

\* The ranges g cover the slots that follow p, not more than m of them.
RangesAt(g, p, m) ==
    /\ g.l1 + g.l2 <= m
    /\ g.l1 > 0 => g.s1 = p
    /\ g.s1 + g.l1 <= End
    /\ g.l2 > 0 => g.s2 = At(p, g.l1)
    /\ g.s2 + g.l2 <= End

\* The k slots from a on follow p at the places n and after.
Along(p, n, a, k) == \A i \in 0 .. k - 1 : a + i = At(p, n + i)

-----------------------------------------------------------------------------
(* The methods of circular_buffer.                                          *)

\* The slots used and the slots free are disjoint, and each is met once.
LEMMA Ring ==
    ASSUME NEW r \in Slots, NEW w \in Slots
    PROVE  /\ Occ(r, w) \in 0 .. Size
           /\ \A j \in 0 .. Size : At(w, j) \in Slots
           /\ \A i, j \in 0 .. Size : i # j => At(w, i) # At(w, j)
           /\ \A i \in 0 .. Occ(r, w) - 1 : \A j \in 0 .. Size - Occ(r, w) - 1 :
                 At(r, i) # At(w, j)
BY SizeAssumption DEF Slots, End, Occ, At

\* Moving the write pointer forwards, or the read pointer.
LEMMA Move ==
    ASSUME NEW r \in Slots, NEW w \in Slots, NEW n \in Nat
    PROVE  /\ n <= Size - Occ(r, w) =>
                 At(w, n) \in Slots /\ Occ(r, At(w, n)) = Occ(r, w) + n
           /\ n <= Occ(r, w) =>
                 At(r, n) \in Slots /\ Occ(At(r, n), w) = Occ(r, w) - n
BY SizeAssumption DEF Slots, End, Occ, At

\* Places counted from a pointer that has moved.
LEMMA Shift ==
    ASSUME NEW p \in Slots, NEW n \in 0 .. Size, NEW j \in 0 .. Size, n + j <= Size
    PROVE  At(At(p, n), j) = At(p, n + j)
BY SizeAssumption DEF Slots, End, At

\* commit() takes all it is told of, as long as that is free.
LEMMA CommitAll ==
    ASSUME NEW r \in Slots, NEW w \in Slots, NEW n \in Nat, n <= Size - Occ(r, w)
    PROVE  commit(r, w, n) = [w |-> At(w, n), n |-> n]
BY SizeAssumption DEF Slots, End, Occ, At, commit, WEnd, WrapW, Least

\* discard() drops all it is told of, as long as that is there.
LEMMA DiscardAll ==
    ASSUME NEW r \in Slots, NEW w \in Slots, NEW n \in Nat, n <= Occ(r, w)
    PROVE  discard(r, w, n) = [r |-> At(r, n), n |-> n]
BY SizeAssumption DEF Slots, End, Occ, At, discard, WrapR, Least

\* writable_ranges() are free slots from the write pointer on.
LEMMA WritableAt ==
    ASSUME NEW r \in Slots, NEW w \in Slots
    PROVE  LET g == writable_ranges(r, w) IN
           g \in Ranges /\ RangesAt(g, w, Size - Occ(r, w))
<1> DEFINE l == IF r <= w THEN WEnd(r) - w ELSE 0
           t == IF r <= w THEN WrapW(r, w + l) ELSE w
           m == IF r > t THEN r - 1 - t ELSE 0
<1>1. l \in Nat /\ t \in Nat /\ m \in Nat
  BY SizeAssumption DEF Slots, End, WEnd, WrapW
<1>2. /\ l + m <= Size - Occ(r, w) /\ w + l <= End /\ t + m <= End
      /\ m > 0 => t = At(w, l)
  BY SizeAssumption DEF Slots, End, Occ, At, WEnd, WrapW
<1>3. writable_ranges(r, w) = [s1 |-> w, l1 |-> l, s2 |-> t, l2 |-> m]
  BY DEF writable_ranges
<1> HIDE DEF l, t, m
<1> QED BY <1>1, <1>2, <1>3 DEF RangesAt, Ranges, Slots

\* readable_ranges() are used slots from the read pointer on.
LEMMA ReadableAt ==
    ASSUME NEW r \in Slots, NEW w \in Slots
    PROVE  LET g == readable_ranges(r, w) IN
           g \in Ranges /\ RangesAt(g, r, Occ(r, w))
<1> DEFINE l == IF r > w THEN End - r ELSE 0
           t == IF r > w THEN WrapR(r + l) ELSE r
           m == IF t < w THEN w - t ELSE 0
<1>1. l \in Nat /\ t \in Nat /\ m \in Nat
  BY SizeAssumption DEF Slots, End, WrapR
<1>2. /\ l + m <= Occ(r, w) /\ r + l <= End /\ t + m <= End
      /\ m > 0 => t = At(r, l)
  BY SizeAssumption DEF Slots, End, Occ, At, WrapR
<1>3. readable_ranges(r, w) = [s1 |-> r, l1 |-> l, s2 |-> t, l2 |-> m]
  BY DEF readable_ranges
<1> HIDE DEF l, t, m
<1> QED BY <1>1, <1>2, <1>3 DEF RangesAt, Ranges, Slots

\* What a call uses of the ranges is at the same place.
LEMMA LentAt ==
    ASSUME NEW g \in Ranges, NEW p \in Slots, NEW m \in 0 .. Size, RangesAt(g, p, m),
           NEW n \in Nat, NEW all \in BOOLEAN
    PROVE  Lent(g, n, all) \in Ranges /\ RangesAt(Lent(g, n, all), p, m)
<1> DEFINE l1 == Least(g.l1, n)
           l2 == IF ~all /\ g.l1 > 0 THEN 0 ELSE Least(g.l2, n - l1)
<1>0. g.s1 \in Nat /\ g.l1 \in Nat /\ g.s2 \in Nat /\ g.l2 \in Nat
  BY DEF Ranges
<1>1. l1 \in Nat /\ l2 \in Nat /\ l1 <= g.l1 /\ l2 <= g.l2 /\ (l2 > 0 => l1 = g.l1)
  BY <1>0 DEF Least
<1>2. Lent(g, n, all) = [s1 |-> g.s1, l1 |-> l1, s2 |-> g.s2, l2 |-> l2]
  BY DEF Lent
<1>3. Lent(g, n, all) \in Ranges
  BY <1>0, <1>1, <1>2 DEF Ranges
<1> HIDE DEF l1, l2
<1> DEFINE h == Lent(g, n, all)
<1>4. h.s1 = g.s1 /\ h.l1 = l1 /\ h.s2 = g.s2 /\ h.l2 = l2
  BY <1>2
<1> HIDE DEF h
<1>5. RangesAt(h, p, m)
  BY <1>0, <1>1, <1>4, SizeAssumption DEF RangesAt, Slots, End
<1> QED BY <1>3, <1>5 DEF h

\* write() fills free slots and leaves the write pointer behind them.
LEMMA WriteRanges ==
    ASSUME NEW r \in Slots, NEW w \in Slots, NEW n \in Nat
    PROVE  LET g == write(r, w, n) IN
           /\ g \in Ranges
           /\ RangesAt(g, w, Size - Occ(r, w))
           /\ RangeSize(g) <= n
           /\ g.s2 + g.l2 = At(w, RangeSize(g))
<1> DEFINE a == IF r <= w THEN Least(WEnd(r) - w, n) ELSE 0
           t == IF r <= w THEN WrapR(w + a) ELSE w
           b == IF r > t /\ t < r - 1 THEN Least(n - a, r - 1 - t) ELSE 0
<1>1. a \in Nat /\ t \in Nat /\ b \in Nat
  BY SizeAssumption DEF Slots, End, WEnd, WrapR, Least
<1>2. /\ a + b <= Size - Occ(r, w) /\ a + b <= n
      /\ w + a <= End /\ t + b <= End
      /\ b > 0 => t = At(w, a)
      /\ t + b = At(w, a + b)
  BY SizeAssumption DEF Slots, End, Occ, At, WEnd, WrapR, Least
<1>3. write(r, w, n) = [s1 |-> w, l1 |-> a, s2 |-> t, l2 |-> b]
  BY DEF write
<1> HIDE DEF a, t, b
<1> QED BY <1>1, <1>2, <1>3 DEF RangesAt, Ranges, RangeSize, Slots

\* read() takes used slots and leaves the read pointer behind them.
LEMMA ReadRanges ==
    ASSUME NEW r \in Slots, NEW w \in Slots, NEW n \in Nat
    PROVE  LET g == read(r, w, n) IN
           /\ g \in Ranges
           /\ RangesAt(g, r, Occ(r, w))
           /\ g.s2 + g.l2 = At(r, RangeSize(g))
BY SizeAssumption
DEF Slots, End, Occ, At, RangesAt, Ranges, RangeSize, read, WrapR, Least

\* The j-th element of the ranges is j places after the pointer.
LEMMA AddrAt ==
    ASSUME NEW g \in Ranges, NEW p \in Slots, NEW m \in 0 .. Size, RangesAt(g, p, m),
           NEW j \in Nat, j < RangeSize(g)
    PROVE  Addr(g, j) = At(p, j)
BY SizeAssumption DEF Slots, End, At, RangesAt, Ranges, RangeSize, Addr

\* Both ranges follow the pointer, the second after the first.
LEMMA RangesAlong ==
    ASSUME NEW g \in Ranges, NEW p \in Slots, NEW m \in 0 .. Size, RangesAt(g, p, m)
    PROVE  Along(p, 0, g.s1, g.l1) /\ Along(p, g.l1, g.s2, g.l2)
<1>0. /\ g.s1 \in Nat /\ g.l1 \in Nat /\ g.s2 \in Nat /\ g.l2 \in Nat
      /\ RangeSize(g) = g.l1 + g.l2
  BY DEF Ranges, RangeSize
<1>1. ASSUME NEW j \in 0 .. RangeSize(g) - 1 PROVE Addr(g, j) = At(p, j)
  <2>1. j \in Nat /\ j < RangeSize(g)
    BY <1>0
  <2> QED BY <2>1, AddrAt
<1>2. ASSUME NEW i \in 0 .. g.l1 - 1 PROVE g.s1 + i = At(p, 0 + i)
  <2>1. i \in 0 .. RangeSize(g) - 1 /\ i < g.l1 /\ 0 + i = i
    BY <1>0
  <2> QED BY <1>1, <2>1 DEF Addr
<1>3. ASSUME NEW i \in 0 .. g.l2 - 1 PROVE g.s2 + i = At(p, g.l1 + i)
  <2>1. g.l1 + i \in 0 .. RangeSize(g) - 1 /\ ~(g.l1 + i < g.l1) /\ g.l1 + i - g.l1 = i
    BY <1>0
  <2>2. Addr(g, g.l1 + i) = g.s2 + i
    BY <1>0, <2>1 DEF Addr
  <2> QED BY <1>1, <2>1, <2>2
<1> QED BY <1>2, <1>3 DEF Along

\* A transfer of k elements that stays in one range uses neighbouring slots.
LEMMA SpanAt ==
    ASSUME NEW call, call.ranges \in Ranges, call.n \in Nat,
           call.n <= RangeSize(call.ranges),
           NEW p \in Slots, NEW m \in 0 .. Size, RangesAt(call.ranges, p, m),
           NEW k \in Nat \ {0}, k <= Span(call)
    PROVE  /\ call.n + k <= RangeSize(call.ranges)
           /\ Addr(call.ranges, call.n) \in Slots
           /\ Along(p, call.n, Addr(call.ranges, call.n), k)
<1> DEFINE g == call.ranges
           n == call.n
<1>1. n + k <= g.l1 + g.l2 /\ (n < g.l1 => n + k <= g.l1)
  BY DEF Span, Ranges, RangeSize
<1>2. n < g.l1 + g.l2
  BY <1>1 DEF Ranges
<1>3. ASSUME NEW i \in 0 .. k - 1 PROVE Addr(g, n) + i = Addr(g, n + i) /\ n + i < RangeSize(g)
  BY <1>1 DEF Addr, Ranges, RangeSize
<1>4. ASSUME NEW i \in 0 .. k - 1 PROVE Addr(g, n) + i = At(p, n + i)
  <2>1. n + i \in Nat
    OBVIOUS
  <2>2. Addr(g, n + i) = At(p, n + i)
    BY <1>3, <2>1, AddrAt
  <2> QED BY <1>3, <2>2
<1>5. Addr(g, n) = At(p, n) /\ n \in 0 .. Size
  <2>1. Addr(g, n) = At(p, n)
    BY <1>2, AddrAt DEF RangeSize
  <2> QED BY <1>2, <2>1, SizeAssumption DEF RangesAt, Ranges
<1>6. At(p, n) \in Slots
  BY <1>5, Ring
<1> QED BY <1>1, <1>4, <1>5, <1>6 DEF RangeSize, Along

-----------------------------------------------------------------------------
(* The inductive invariant.                                                 *)

Calls == [busy : BOOLEAN, all : BOOLEAN, n : Nat, ranges : Ranges]

Used == Occ(rp, wp)
Free == Size - Occ(rp, wp)

\* Between the pointers are the elements that come next.
Filled == \A j \in 0 .. Used - 1 : data[At(rp, j)] = out + j

\* The producer fills free slots from the write pointer on, in order.
ProdInv ==
    /\ prod \in Calls /\ (~prod.busy => prod = Idle)
    /\ prod.n <= RangeSize(prod.ranges)
    /\ RangesAt(prod.ranges, wp, Free)
    /\ \A j \in 0 .. prod.n - 1 : data[At(wp, j)] = in + j
    /\ src = in + prod.n

\* The consumer takes used slots from the read pointer on, in order.
ConsInv ==
    /\ cons \in Calls /\ (~cons.busy => cons = Idle)
    /\ cons.n <= RangeSize(cons.ranges)
    /\ RangesAt(cons.ranges, rp, Used)
    /\ Len(sink) = out + cons.n

IndInv ==
    /\ TypeOK
    /\ in = out + Used
    /\ Filled /\ ProdInv /\ ConsInv
    /\ DeliveredInOrder

\* The sequence s is the first m elements of the source.
Prefix(s, m) ==
    s \in Seq(Nat \cup {Junk}) /\ Len(s) = m /\ \A i \in DOMAIN s : s[i] = i - 1

\* A step of the bounded stream, or none.
StreamStep == [Stream!Next]_<<in, out>>

\* The facts that every step needs.
LEMMA Facts ==
    ASSUME IndInv
    PROVE  /\ rp \in Slots /\ wp \in Slots /\ in \in Nat /\ out \in Nat
           /\ Used \in 0 .. Size /\ Free \in 0 .. Size /\ Free = Size - Used
           /\ Idle \in Calls /\ RangeSize(Idle.ranges) = 0 /\ Idle.n = 0
           /\ \A p \in Slots, m \in 0 .. Size : RangesAt(Idle.ranges, p, m)
<1>1. rp \in Slots /\ wp \in Slots /\ in \in Nat /\ out \in Nat
  BY DEF IndInv, TypeOK
<1>2. Used \in 0 .. Size /\ Free \in 0 .. Size /\ Free = Size - Used
  <2>1. Occ(rp, wp) \in 0 .. Size
    BY <1>1, Ring
  <2> QED BY <2>1, SizeAssumption DEF Used, Free
<1>3. Idle \in Calls /\ RangeSize(Idle.ranges) = 0 /\ Idle.n = 0
  BY DEF Idle, NoRanges, Calls, Ranges, RangeSize
<1>4. \A p \in Slots, m \in 0 .. Size : RangesAt(Idle.ranges, p, m)
  BY SizeAssumption DEF Idle, NoRanges, RangesAt, End
<1> QED BY <1>1, <1>2, <1>3, <1>4

\* Slots after the used ones are those from the write pointer on.
LEMMA BehindUsed ==
    ASSUME IndInv, NEW j \in Used .. Size
    PROVE  At(rp, j) = At(wp, j - Used)
BY Facts, SizeAssumption DEF Used, Occ, At, Slots, End

\* The write pointer moves past n elements that are in place.
LEMMA PutInv ==
    ASSUME IndInv, NEW n \in 0 .. Free,
           data' \in [Slots -> Nat \cup {Junk}],
           \A j \in 0 .. Used - 1 : data'[At(rp, j)] = data[At(rp, j)],
           \A j \in 0 .. n - 1 : data'[At(wp, j)] = in + j,
           wp' = At(wp, n), in' = in + n, src' = in', src' \in 0 .. Total,
           prod' = Idle, UNCHANGED <<rp, sink, out, cons>>
    PROVE  IndInv' /\ StreamStep
<1>0. /\ rp \in Slots /\ wp \in Slots /\ in \in Nat /\ out \in Nat
      /\ Used \in 0 .. Size /\ Free \in 0 .. Size /\ Free = Size - Used
      /\ Idle \in Calls /\ RangeSize(Idle.ranges) = 0 /\ Idle.n = 0
      /\ \A p \in Slots, m \in 0 .. Size : RangesAt(Idle.ranges, p, m)
  BY Facts
<1>1. wp' \in Slots /\ Used' = Used + n /\ in' \in Nat /\ Free' = Free - n
  <2>1. n \in Nat /\ n <= Size - Occ(rp, wp)
    BY <1>0, SizeAssumption DEF Free
  <2>2. At(wp, n) \in Slots /\ Occ(rp, At(wp, n)) = Occ(rp, wp) + n
    BY <1>0, <2>1, Move
  <2> QED BY <1>0, <2>1, <2>2, SizeAssumption DEF Used, Free
<1>2. Used' \in 0 .. Size /\ Free' \in 0 .. Size
  BY <1>0, <1>1, SizeAssumption
<1>3. Filled'
  <2>1. ASSUME NEW j \in 0 .. Used - 1 PROVE data'[At(rp, j)] = out + j
    BY <2>1 DEF IndInv, Filled
  <2>2. ASSUME NEW j \in Used .. Used + n - 1 PROVE data'[At(rp, j)] = out + j
    <3>0. j \in Used .. Size
      BY <1>0, SizeAssumption
    <3>1. At(rp, j) = At(wp, j - Used)
      BY <3>0, BehindUsed
    <3>2. j - Used \in 0 .. n - 1
      BY <1>0, SizeAssumption
    <3>3. in = out + Used
      BY DEF IndInv
    <3> QED BY <1>0, <3>1, <3>2, <3>3, SizeAssumption
  <2>3. \A j \in 0 .. Used' - 1 : j \in 0 .. Used - 1 \/ j \in Used .. Used + n - 1
    BY <1>0, <1>1, SizeAssumption
  <2>4. \A j \in 0 .. Used' - 1 : data'[At(rp, j)] = out + j
    BY <2>1, <2>2, <2>3
  <2> QED BY <2>4 DEF Filled, At
<1>4. ProdInv'
  BY <1>0, <1>1, <1>2 DEF ProdInv
<1>5. ConsInv'
  <2>1. RangesAt(cons.ranges, rp, Used) /\ cons.ranges \in Ranges
    BY DEF IndInv, ConsInv, Calls
  <2>2. RangesAt(cons.ranges, rp, Used')
    BY <1>0, <1>1, <2>1, SizeAssumption DEF RangesAt, Ranges
  <2> QED BY <2>2 DEF IndInv, ConsInv
<1>6. TypeOK' /\ DeliveredInOrder' /\ in' = out' + Used'
  <2>1. TypeOK'
    BY <1>1 DEF IndInv, TypeOK
  <2>2. DeliveredInOrder'
    BY DEF IndInv, DeliveredInOrder
  <2> QED BY <1>0, <1>1, <2>1, <2>2, SizeAssumption DEF IndInv
<1>7. StreamStep
  <2>1. in + n <= out + Size
    BY <1>0, SizeAssumption DEF IndInv
  <2> QED BY <1>0, <2>1, SizeAssumption DEF StreamStep, Stream!Next, Stream!PutIn
<1> QED BY <1>3, <1>4, <1>5, <1>6, <1>7 DEF IndInv

\* The read pointer moves past n elements that the sink has received.
LEMMA TakeInv ==
    ASSUME IndInv, NEW n \in 0 .. Used,
           Prefix(sink', out + n),
           rp' = At(rp, n), out' = out + n,
           cons' = Idle, UNCHANGED <<data, wp, src, in, prod>>
    PROVE  IndInv' /\ StreamStep
<1>0. /\ rp \in Slots /\ wp \in Slots /\ in \in Nat /\ out \in Nat
      /\ Used \in 0 .. Size /\ Free \in 0 .. Size /\ Free = Size - Used
      /\ Idle \in Calls /\ RangeSize(Idle.ranges) = 0 /\ Idle.n = 0
      /\ \A p \in Slots, m \in 0 .. Size : RangesAt(Idle.ranges, p, m)
  BY Facts
<1>1. rp' \in Slots /\ Used' = Used - n /\ out' \in Nat /\ Free' = Free + n
  <2>1. n \in Nat /\ n <= Occ(rp, wp)
    BY <1>0, SizeAssumption DEF Used
  <2>2. At(rp, n) \in Slots /\ Occ(At(rp, n), wp) = Occ(rp, wp) - n
    BY <1>0, <2>1, Move
  <2> QED BY <1>0, <2>1, <2>2, SizeAssumption DEF Used, Free
<1>2. Used' \in 0 .. Size /\ Free' \in 0 .. Size
  BY <1>0, <1>1, SizeAssumption
<1>3. Filled'
  <2> SUFFICES ASSUME NEW j \in 0 .. Used - n - 1 PROVE data[At(At(rp, n), j)] = out + n + j
    BY <1>1 DEF Filled, At
  <2>1. At(At(rp, n), j) = At(rp, n + j)
    <3>1. n \in 0 .. Size /\ j \in 0 .. Size /\ n + j <= Size
      BY <1>0, SizeAssumption
    <3> QED BY <1>0, <3>1, Shift
  <2>2. n + j \in 0 .. Used - 1
    BY <1>0, SizeAssumption
  <2> QED BY <1>0, <2>1, <2>2, SizeAssumption DEF IndInv, Filled
<1>4. ProdInv'
  <2>1. RangesAt(prod.ranges, wp, Free) /\ prod.ranges \in Ranges
    BY DEF IndInv, ProdInv, Calls
  <2>2. RangesAt(prod.ranges, wp, Free')
    BY <1>0, <1>1, <2>1, SizeAssumption DEF RangesAt, Ranges
  <2> QED BY <2>2 DEF IndInv, ProdInv, At
<1>5. ConsInv'
  BY <1>0, <1>1, <1>2 DEF ConsInv, Prefix
<1>6. TypeOK' /\ DeliveredInOrder' /\ in' = out' + Used'
  <2>1. TypeOK'
    BY <1>1 DEF IndInv, TypeOK, Prefix
  <2>2. DeliveredInOrder'
    BY DEF Prefix, DeliveredInOrder
  <2> QED BY <1>0, <1>1, <2>1, <2>2, SizeAssumption DEF IndInv
<1>7. StreamStep
  <2>1. out + n <= in
    BY <1>0 DEF IndInv
  <2> QED BY <1>0, <2>1, SizeAssumption DEF StreamStep, Stream!Next, Stream!TakeOut
<1> QED BY <1>3, <1>4, <1>5, <1>6, <1>7 DEF IndInv

\* The array after k elements, numbered from x on, were stored from a on.
Stored(d, a, k, x) ==
    [i \in Slots |-> IF i \in a .. a + k - 1 THEN x + (i - a) ELSE d[i]]

\* The arrays d and e differ in k free slots from the n-th on, where e has the
\* elements numbered from x on.
Adds(d, e, n, k, x) ==
    /\ e \in [Slots -> Nat \cup {Junk}]
    /\ \A j \in 0 .. Used - 1 : e[At(rp, j)] = d[At(rp, j)]
    /\ \A j \in 0 .. Free - 1 :
          e[At(wp, j)] = IF j \in n .. n + k - 1 THEN x + (j - n) ELSE d[At(wp, j)]

\* Storing elements in free slots changes those and no others.
LEMMA Place ==
    ASSUME IndInv, NEW d \in [Slots -> Nat \cup {Junk}], NEW x \in Nat,
           NEW n \in Nat, NEW k \in Nat, n + k <= Free, NEW a \in Nat,
           Along(wp, n, a, k)
    PROVE  Adds(d, Stored(d, a, k, x), n, k, x)
<1> DEFINE e == Stored(d, a, k, x)
<1>0. /\ rp \in Slots /\ wp \in Slots /\ Used \in 0 .. Size /\ Free \in 0 .. Size
      /\ Free = Size - Used
  BY Facts
<1>1. e \in [Slots -> Nat \cup {Junk}]
  <2>1. ASSUME NEW i \in Slots, i \in a .. a + k - 1 PROVE x + (i - a) \in Nat
    BY <2>1 DEF Slots
  <2> QED BY <2>1 DEF Stored
<1>2. ASSUME NEW i \in a .. a + k - 1
      PROVE  i - a \in 0 .. k - 1 /\ n + (i - a) \in 0 .. Free - 1 /\ i = At(wp, n + (i - a))
  <2>1. i - a \in 0 .. k - 1 /\ a + (i - a) = i /\ n + (i - a) \in 0 .. Free - 1
    BY <1>0, SizeAssumption
  <2> QED BY <2>1 DEF Along
<1>3. ASSUME NEW j \in 0 .. Used - 1 PROVE e[At(rp, j)] = d[At(rp, j)]
  <2>1. At(rp, j) \in Slots
    <3>1. j \in 0 .. Size
      BY <1>0, SizeAssumption
    <3> QED BY <1>0, <3>1, Ring
  <2>2. \A m \in 0 .. Free - 1 : At(rp, j) # At(wp, m)
    BY <1>0, Ring DEF Used, Free
  <2>3. At(rp, j) \notin a .. a + k - 1
    BY <1>2, <2>2
  <2> QED BY <2>1, <2>3 DEF Stored
<1>4. ASSUME NEW j \in 0 .. Free - 1
      PROVE  e[At(wp, j)] = IF j \in n .. n + k - 1 THEN x + (j - n) ELSE d[At(wp, j)]
  <2>0. j \in 0 .. Size
    BY <1>0, SizeAssumption
  <2>1. At(wp, j) \in Slots
    BY <1>0, <2>0, Ring
  <2>2. CASE j \in n .. n + k - 1
    <3>1. j - n \in 0 .. k - 1 /\ n + (j - n) = j
      BY <2>2
    <3>2. At(wp, j) = a + (j - n)
      BY <3>1 DEF Along
    <3>3. At(wp, j) \in a .. a + k - 1 /\ At(wp, j) - a = j - n
      BY <3>1, <3>2
    <3> QED BY <2>1, <2>2, <3>3 DEF Stored
  <2>3. CASE j \notin n .. n + k - 1
    <3>1. ASSUME At(wp, j) \in a .. a + k - 1 PROVE FALSE
      <4> DEFINE m == n + (At(wp, j) - a)
      <4>1. m \in 0 .. Free - 1 /\ At(wp, j) = At(wp, m) /\ At(wp, j) - a \in 0 .. k - 1
        BY <1>2, <3>1
      <4>2. m \in n .. n + k - 1
        BY <4>1
      <4> HIDE DEF m
      <4>3. m \in 0 .. Size /\ m # j
        BY <1>0, <2>3, <4>1, <4>2, SizeAssumption
      <4> QED BY <1>0, <2>0, <4>1, <4>3, Ring
    <3> QED BY <2>1, <2>3, <3>1 DEF Stored
  <2> QED BY <2>2, <2>3
<1> HIDE DEF e
<1>5. Adds(d, e, n, k, x)
  BY <1>1, <1>3, <1>4 DEF Adds
<1> QED BY <1>5 DEF e

\* Elements that follow those in the sink are appended to it.
LEMMA Receive ==
    ASSUME NEW s \in Seq(Nat \cup {Junk}), NEW a \in Nat, NEW k \in Nat,
           \A i \in DOMAIN s : s[i] = i - 1,
           \A i \in 0 .. k - 1 : data[a + i] = Len(s) + i
    PROVE  Prefix(s \o Received(a, k), Len(s) + k)
<1> DEFINE v == Received(a, k)
<1>1. \A j \in 1 .. k : v[j] = Len(s) + j - 1
  <2> SUFFICES ASSUME NEW j \in 1 .. k PROVE data[a + j - 1] = Len(s) + j - 1
    BY DEF Received
  <2>1. j - 1 \in 0 .. k - 1 /\ a + j - 1 = a + (j - 1)
    OBVIOUS
  <2> QED BY <2>1
<1>2. v \in Seq(Nat \cup {Junk}) /\ Len(v) = k /\ Len(s) \in Nat
  <2>1. Len(s) \in Nat
    OBVIOUS
  <2>2. v = [j \in 1 .. k |-> Len(s) + j - 1]
    BY <1>1 DEF Received
  <2>3. v \in [1 .. k -> Nat]
    BY <2>1, <2>2
  <2> HIDE DEF v
  <2>4. v \in Seq(Nat \cup {Junk})
    BY <2>3, SeqDef
  <2> QED BY <2>1, <2>2, <2>4
<1> HIDE DEF v
<1>3. (s \o v) \in Seq(Nat \cup {Junk}) /\ Len(s \o v) = Len(s) + k
  BY <1>2, ConcatProperties
<1>4. ASSUME NEW i \in 1 .. Len(s) + k PROVE (s \o v)[i] = i - 1
  <2>1. CASE i <= Len(s)
    BY <1>2, <2>1
  <2>2. CASE i > Len(s)
    BY <1>1, <1>2, <2>2
  <2> QED BY <1>2, <2>1, <2>2
<1> QED BY <1>3, <1>4 DEF v, Prefix

-----------------------------------------------------------------------------
(* One lemma for each action.                                               *)

\* Nothing has been read.
LEMMA InitInv == Init => IndInv
<1> SUFFICES ASSUME Init PROVE IndInv
  OBVIOUS
<1>1. rp = 0 /\ wp = 0 /\ 0 \in Slots /\ Used = 0 /\ Free = Size
  BY SizeAssumption DEF Init, Slots, Used, Free, Occ
<1>2. TypeOK
  BY <1>1, PipeAssumption DEF Init, TypeOK
<1>3. /\ Idle \in Calls /\ Idle.n = 0 /\ RangeSize(Idle.ranges) = 0
      /\ RangesAt(Idle.ranges, 0, 0) /\ RangesAt(Idle.ranges, 0, Size)
  BY SizeAssumption DEF Idle, NoRanges, Calls, Ranges, RangeSize, RangesAt, End
<1>4. Filled /\ ProdInv /\ ConsInv /\ DeliveredInOrder
  BY <1>1, <1>3 DEF Init, Filled, ProdInv, ConsInv, DeliveredInOrder
<1> QED BY <1>1, <1>2, <1>4 DEF IndInv, Init

\* A producer asks for ranges.
LEMMA ReadBeginInv ==
    ASSUME IndInv, NEW n \in Counts, NEW all \in BOOLEAN, ReadBegin(n, all)
    PROVE  IndInv' /\ StreamStep
<1> DEFINE g == writable_ranges(rp, wp)
           h == Lent(g, n, all)
<1>1. rp \in Slots /\ wp \in Slots /\ Free \in 0 .. Size /\ n \in Nat
  BY Facts DEF Counts
<1>2. g \in Ranges /\ RangesAt(g, wp, Free)
  BY <1>1, WritableAt DEF Free
<1>3. h \in Ranges /\ RangesAt(h, wp, Free)
  BY <1>1, <1>2, LentAt
<1>4. prod' = [busy |-> TRUE, all |-> all, n |-> 0, ranges |-> h]
  BY DEF ReadBegin, Begun
<1> HIDE DEF g, h
<1>5. ~prod.busy /\ UNCHANGED <<data, rp, wp, src, sink, in, out, cons>>
  BY DEF ReadBegin, bufVars
<1>6. prod = Idle /\ src = in
  BY <1>5, Facts DEF IndInv, ProdInv
<1>7. ProdInv'
  <2>1. prod' \in Calls /\ prod'.busy /\ prod'.n = 0 /\ prod'.ranges = h
    BY <1>3, <1>4 DEF Calls
  <2>2. 0 <= RangeSize(h)
    BY <1>3 DEF Ranges, RangeSize
  <2>3. Free' = Free
    BY <1>5 DEF Free
  <2> QED BY <1>1, <1>3, <1>5, <1>6, <2>1, <2>2, <2>3, Facts DEF ProdInv
<1>8. TypeOK' /\ in' = out' + Used' /\ Filled' /\ ConsInv' /\ DeliveredInOrder'
  BY <1>5 DEF IndInv, TypeOK, Filled, ConsInv, DeliveredInOrder, Used, At
<1> QED BY <1>5, <1>7, <1>8 DEF IndInv, StreamStep

\* A consumer asks for ranges.
LEMMA WriteBeginInv ==
    ASSUME IndInv, NEW n \in Counts, NEW all \in BOOLEAN, WriteBegin(n, all)
    PROVE  IndInv' /\ StreamStep
<1> DEFINE g == readable_ranges(rp, wp)
           h == Lent(g, n, all)
<1>1. rp \in Slots /\ wp \in Slots /\ Used \in 0 .. Size /\ n \in Nat
  BY Facts DEF Counts
<1>2. g \in Ranges /\ RangesAt(g, rp, Used)
  BY <1>1, ReadableAt DEF Used
<1>3. h \in Ranges /\ RangesAt(h, rp, Used)
  BY <1>1, <1>2, LentAt
<1>4. cons' = [busy |-> TRUE, all |-> all, n |-> 0, ranges |-> h]
  BY DEF WriteBegin, Begun
<1> HIDE DEF g, h
<1>5. ~cons.busy /\ UNCHANGED <<data, rp, wp, src, sink, in, out, prod>>
  BY DEF WriteBegin, bufVars
<1>6. cons = Idle /\ Len(sink) = out + 0
  BY <1>5, Facts DEF IndInv, ConsInv
<1>7. ConsInv'
  <2>1. cons' \in Calls /\ cons'.busy /\ cons'.n = 0 /\ cons'.ranges = h
    BY <1>3, <1>4 DEF Calls
  <2>2. 0 <= RangeSize(h)
    BY <1>3 DEF Ranges, RangeSize
  <2>3. Used' = Used
    BY <1>5 DEF Used
  <2> QED BY <1>3, <1>5, <1>6, <2>1, <2>2, <2>3 DEF ConsInv
<1>8. TypeOK' /\ in' = out' + Used' /\ Filled' /\ ProdInv' /\ DeliveredInOrder'
  BY <1>5 DEF IndInv, TypeOK, Filled, ProdInv, DeliveredInOrder, Used, Free, At
<1> QED BY <1>5, <1>7, <1>8 DEF IndInv, StreamStep

\* A channel delivers k elements.
LEMMA ReadSomeInv ==
    ASSUME IndInv, NEW k \in Counts, ReadSome(k)
    PROVE  IndInv' /\ StreamStep
<1> DEFINE g == prod.ranges
           n == prod.n
           a == Addr(g, n)
<1>0. /\ rp \in Slots /\ wp \in Slots /\ in \in Nat /\ out \in Nat
      /\ Used \in 0 .. Size /\ Free \in 0 .. Size /\ Free = Size - Used
  BY Facts
<1>1. /\ prod \in Calls /\ prod.busy /\ g \in Ranges /\ n \in Nat /\ n <= RangeSize(g)
      /\ RangesAt(g, wp, Free) /\ src = in + n
      /\ \A j \in 0 .. n - 1 : data[At(wp, j)] = in + j
  BY DEF IndInv, ProdInv, Calls, ReadSome
<1>2. k \in Nat \ {0} /\ k <= Span(prod) /\ src + k <= Total
  BY SizeAssumption DEF Counts, ReadSome
<1>3. /\ n + k <= RangeSize(g) /\ a \in Slots
      /\ Along(wp, n, a, k)
  BY <1>0, <1>1, <1>2, SpanAt
<1>4. n + k \in 0 .. Free
  <2> HIDE DEF a, g, n
  <2>1. RangeSize(g) \in Nat /\ RangeSize(g) <= Free
    BY <1>1 DEF RangesAt, Ranges, RangeSize
  <2> QED BY <1>0, <1>1, <1>2, <1>3, <2>1, SizeAssumption
<1>5. data' = Stored(data, a, k, in + n)
  BY <1>1 DEF ReadSome, Stored
<1>6. src' = in + (n + k) /\ src' \in 0 .. Total /\ UNCHANGED <<rp, sink, out, cons>>
  BY <1>0, <1>1, <1>2, PipeAssumption DEF ReadSome
<1>7. /\ data' \in [Slots -> Nat \cup {Junk}]
      /\ \A j \in 0 .. Used - 1 : data'[At(rp, j)] = data[At(rp, j)]
      /\ \A j \in 0 .. n + k - 1 : data'[At(wp, j)] = in + j
  <2>1. data \in [Slots -> Nat \cup {Junk}]
    BY DEF IndInv, TypeOK
  <2> DEFINE x == in + n
  <2>2. x \in Nat /\ n + k <= Free /\ a \in Nat /\ k \in Nat /\ n \in Nat /\ Along(wp, n, a, k)
    BY <1>0, <1>1, <1>2, <1>3, <1>4, SizeAssumption DEF Slots
  <2>0. data' = Stored(data, a, k, x)
    BY <1>5
  <2> HIDE DEF x, a, g, n
  <2>3. Adds(data, data', n, k, x)
    BY <2>0, <2>1, <2>2, Place
  <2>4. ASSUME NEW j \in 0 .. n + k - 1 PROVE data'[At(wp, j)] = in + j
    <3>1. j \in 0 .. Free - 1 /\ (j \notin n .. n + k - 1 => j \in 0 .. n - 1)
      BY <1>0, <1>1, <1>2, <1>4, SizeAssumption
    <3>2. x + (j - n) = in + j
      BY <1>0, <1>1, <1>2 DEF x
    <3>3. data'[At(wp, j)] = IF j \in n .. n + k - 1 THEN in + j ELSE data[At(wp, j)]
      BY <2>3, <3>1, <3>2 DEF Adds
    <3> QED BY <1>1, <3>1, <3>3
  <2> QED BY <2>3, <2>4 DEF Adds
<1> HIDE DEF a, g, n
<1>e. CASE Ends(prod, k)
  <2>1. wp' = commit(rp, wp, n + k).w /\ in' = in + commit(rp, wp, n + k).n /\ prod' = Idle
    BY <1>e DEF ReadSome, Commit, CommitCount, n
  <2>2. n + k \in Nat /\ n + k <= Size - Occ(rp, wp)
    BY <1>0, <1>4, SizeAssumption DEF Free
  <2>3. commit(rp, wp, n + k) = [w |-> At(wp, n + k), n |-> n + k]
    BY <1>0, <2>2, CommitAll
  <2> DEFINE m == n + k
  <2>4. wp' = At(wp, m) /\ in' = in + m /\ src' = in + m /\ m \in 0 .. Free
    BY <1>4, <1>6, <2>1, <2>3
  <2>5. \A j \in 0 .. m - 1 : data'[At(wp, j)] = in + j
    BY <1>1, <1>2, <1>7
  <2> HIDE DEF m
  <2> QED BY <1>6, <1>7, <2>1, <2>4, <2>5, PutInv
<1>f. CASE ~Ends(prod, k)
  <2>1. prod' = [prod EXCEPT !.n = n + k] /\ UNCHANGED <<wp, in>>
    BY <1>f DEF ReadSome, Advance, n
  <2>2. prod' \in Calls /\ prod'.busy /\ prod'.n = n + k /\ prod'.ranges = g
    <3>1. n + k \in Nat
      BY <1>1, <1>2
    <3> QED BY <1>1, <2>1, <3>1 DEF Calls, g
  <2>3. Used' = Used /\ Free' = Free
    BY <1>6, <2>1 DEF Used, Free
  <2>4. ProdInv'
    <3>1. RangesAt(prod'.ranges, wp', Free') /\ prod'.n <= RangeSize(prod'.ranges)
      BY <1>1, <1>3, <2>1, <2>2, <2>3
    <3>2. src' = in' + prod'.n
      BY <1>6, <2>1, <2>2
    <3>3. prod'.n - 1 = n + k - 1
      BY <1>1, <1>2, <2>2
    <3> QED BY <1>7, <2>1, <2>2, <3>1, <3>2, <3>3 DEF ProdInv, At
  <2>5. Filled'
    <3>1. \A j \in 0 .. Used - 1 : data'[At(rp, j)] = out + j
      BY <1>7 DEF IndInv, Filled
    <3> QED BY <1>6, <2>3, <3>1 DEF Filled, At
  <2>6. TypeOK' /\ ConsInv' /\ DeliveredInOrder' /\ in' = out' + Used'
    BY <1>6, <1>7, <2>1, <2>3 DEF IndInv, TypeOK, ConsInv, DeliveredInOrder
  <2> QED BY <1>6, <2>1, <2>4, <2>5, <2>6 DEF IndInv, StreamStep
<1> QED BY <1>e, <1>f

\* A channel fails: what it had delivered is committed.
LEMMA ReadFailsInv ==
    ASSUME IndInv, ReadFails
    PROVE  IndInv' /\ StreamStep
<1> DEFINE n == prod.n
<1>0. /\ rp \in Slots /\ wp \in Slots /\ in \in Nat
      /\ Used \in 0 .. Size /\ Free \in 0 .. Size /\ Free = Size - Used
  BY Facts
<1>1. /\ n \in 0 .. Free /\ src = in + n
      /\ \A j \in 0 .. n - 1 : data[At(wp, j)] = in + j
  BY <1>0, SizeAssumption DEF IndInv, ProdInv, Calls, Ranges, RangesAt, RangeSize
<1>2. /\ wp' = commit(rp, wp, n).w /\ in' = in + commit(rp, wp, n).n /\ prod' = Idle
      /\ UNCHANGED <<data, rp, src, sink, out, cons>>
  BY DEF ReadFails, Commit, CommitCount
<1> HIDE DEF n
<1>3. n \in Nat /\ n <= Size - Occ(rp, wp)
  BY <1>0, <1>1, SizeAssumption DEF Free
<1>4. commit(rp, wp, n) = [w |-> At(wp, n), n |-> n]
  BY <1>0, <1>3, CommitAll
<1>5. wp' = At(wp, n) /\ in' = in + n
  BY <1>2, <1>4
<1>6. data' \in [Slots -> Nat \cup {Junk}] /\ src' \in 0 .. Total
  BY <1>2 DEF IndInv, TypeOK
<1> QED BY <1>1, <1>2, <1>5, <1>6, PutInv

\* The buffer's own write().
LEMMA WriteInv ==
    ASSUME IndInv, NEW n \in Counts, Write(n)
    PROVE  IndInv' /\ StreamStep
<1> DEFINE g == write(rp, wp, n)
<1>0. /\ rp \in Slots /\ wp \in Slots /\ in \in Nat /\ out \in Nat
      /\ Used \in 0 .. Size /\ Free \in 0 .. Size /\ Free = Size - Used
  BY Facts
<1>1. n \in Nat /\ ~prod.busy /\ src + n <= Total
  BY DEF Counts, Write
<1>2. prod = Idle /\ src = in
  BY <1>0, <1>1, Facts DEF IndInv, ProdInv
<1>3. /\ g \in Ranges /\ RangesAt(g, wp, Free) /\ RangeSize(g) <= n
      /\ g.s2 + g.l2 = At(wp, RangeSize(g))
  BY <1>0, <1>1, WriteRanges DEF Free
<1>4. /\ data' = [i \in Slots |->
                    IF i \in g.s1 .. g.s1 + g.l1 - 1 THEN in + (i - g.s1)
                    ELSE IF i \in g.s2 .. g.s2 + g.l2 - 1 THEN in + g.l1 + (i - g.s2)
                    ELSE data[i]]
      /\ wp' = g.s2 + g.l2 /\ src' = in + RangeSize(g) /\ in' = in + RangeSize(g)
      /\ prod' = Idle /\ UNCHANGED <<rp, sink, out, cons>>
  BY <1>2 DEF Write
<1> HIDE DEF g
<1>5. /\ g.s1 \in Nat /\ g.l1 \in Nat /\ g.s2 \in Nat /\ g.l2 \in Nat
      /\ RangeSize(g) = g.l1 + g.l2 /\ RangeSize(g) \in 0 .. Free
  BY <1>0, <1>3, SizeAssumption DEF Ranges, RangesAt, RangeSize
<1>6. Along(wp, 0, g.s1, g.l1) /\ Along(wp, g.l1, g.s2, g.l2)
  BY <1>0, <1>3, <1>5, RangesAlong
<1> DEFINE x == in + g.l1
           d == Stored(data, g.s2, g.l2, x)
<1>7. Adds(data, d, g.l1, g.l2, x) /\ d \in [Slots -> Nat \cup {Junk}]
  <2>1. data \in [Slots -> Nat \cup {Junk}]
    BY DEF IndInv, TypeOK
  <2>2. x \in Nat /\ g.l1 + g.l2 <= Free
    BY <1>0, <1>5, SizeAssumption
  <2>3. d = Stored(data, g.s2, g.l2, x)
    OBVIOUS
  <2> HIDE DEF x, d
  <2>4. Adds(data, d, g.l1, g.l2, x)
    BY <1>5, <1>6, <2>1, <2>2, <2>3, Place
  <2> QED BY <2>4 DEF Adds
<1>8. data' = Stored(d, g.s1, g.l1, in)
  BY <1>4 DEF Stored
<1> HIDE DEF d
<1>9. Adds(d, data', 0, g.l1, in)
  <2>1. 0 \in Nat /\ 0 + g.l1 <= Free
    BY <1>0, <1>5, SizeAssumption
  <2> QED BY <1>0, <1>5, <1>6, <1>7, <1>8, <2>1, Place
<1>10. /\ data' \in [Slots -> Nat \cup {Junk}]
       /\ \A j \in 0 .. Used - 1 : data'[At(rp, j)] = data[At(rp, j)]
  BY <1>7, <1>9 DEF Adds
<1>11. ASSUME NEW j \in 0 .. RangeSize(g) - 1 PROVE data'[At(wp, j)] = in + j
  <2>1. j \in 0 .. Free - 1 /\ (j \notin 0 .. 0 + g.l1 - 1 => j \in g.l1 .. g.l1 + g.l2 - 1)
    BY <1>0, <1>5, SizeAssumption
  <2>2. in + (j - 0) = in + j /\ x + (j - g.l1) = in + j
    BY <1>0, <1>5
  <2>3. CASE j \in 0 .. 0 + g.l1 - 1
    BY <1>9, <2>1, <2>2, <2>3 DEF Adds
  <2>4. CASE j \notin 0 .. 0 + g.l1 - 1
    <3>1. data'[At(wp, j)] = d[At(wp, j)]
      BY <1>9, <2>1, <2>4 DEF Adds
    <3>2. d[At(wp, j)] = in + j
      BY <1>7, <2>1, <2>2, <2>4 DEF Adds
    <3> QED BY <3>1, <3>2
  <2> QED BY <2>3, <2>4
<1>12. src' = in' /\ src' \in 0 .. Total /\ wp' = At(wp, RangeSize(g))
  BY <1>0, <1>1, <1>2, <1>3, <1>4, <1>5, PipeAssumption
<1> QED BY <1>4, <1>5, <1>10, <1>11, <1>12, PutInv

\* What the consumer finds from a on is what comes next.
LEMMA Found ==
    ASSUME IndInv, NEW n \in Nat, NEW k \in Nat, n + k <= Used, NEW a \in Nat,
           Along(rp, n, a, k),
           NEW s, Prefix(s, out + n)
    PROVE  Prefix(s \o Received(a, k), out + (n + k))
<1>0. Used \in 0 .. Size /\ out \in Nat
  BY Facts
<1>1. ASSUME NEW i \in 0 .. k - 1 PROVE data[a + i] = Len(s) + i
  <2>1. n + i \in 0 .. Used - 1
    BY <1>0, SizeAssumption
  <2>2. data[At(rp, n + i)] = out + (n + i)
    BY <2>1 DEF IndInv, Filled
  <2>3. a + i = At(rp, n + i)
    BY DEF Along
  <2>4. Len(s) = out + n
    BY DEF Prefix
  <2> QED BY <1>0, <2>2, <2>3, <2>4
<1>2. Prefix(s \o Received(a, k), Len(s) + k)
  BY <1>1, Receive DEF Prefix
<1>3. Len(s) + k = out + (n + k)
  BY <1>0 DEF Prefix
<1> QED BY <1>2, <1>3

\* A channel accepts k elements.
LEMMA WriteSomeInv ==
    ASSUME IndInv, NEW k \in Counts, WriteSome(k)
    PROVE  IndInv' /\ StreamStep
<1> DEFINE g == cons.ranges
           n == cons.n
           a == Addr(g, n)
<1>0. /\ rp \in Slots /\ wp \in Slots /\ in \in Nat /\ out \in Nat
      /\ Used \in 0 .. Size /\ Free \in 0 .. Size /\ Free = Size - Used
  BY Facts
<1>1. /\ cons \in Calls /\ cons.busy /\ g \in Ranges /\ n \in Nat /\ n <= RangeSize(g)
      /\ RangesAt(g, rp, Used) /\ Len(sink) = out + n
  BY DEF IndInv, ConsInv, Calls, WriteSome
<1>2. k \in Nat \ {0} /\ k <= Span(cons)
  BY SizeAssumption DEF Counts, WriteSome
<1>3. n + k <= RangeSize(g) /\ a \in Slots /\ Along(rp, n, a, k)
  BY <1>0, <1>1, <1>2, SpanAt
<1>4. sink' = sink \o Received(a, k) /\ UNCHANGED <<data, wp, src, in, prod>>
  BY DEF WriteSome
<1> HIDE DEF a, g, n
<1>5. n + k \in 0 .. Used
  <2>1. RangeSize(g) \in Nat /\ RangeSize(g) <= Used
    BY <1>1 DEF RangesAt, Ranges, RangeSize
  <2> QED BY <1>0, <1>1, <1>2, <1>3, <2>1, SizeAssumption
<1>6. Prefix(sink', out + (n + k))
  <2>1. Prefix(sink, out + n)
    BY <1>1 DEF IndInv, TypeOK, DeliveredInOrder, Prefix
  <2>2. a \in Nat /\ k \in Nat /\ n + k <= Used
    BY <1>0, <1>2, <1>3, <1>5 DEF Slots
  <2> QED BY <1>1, <1>3, <1>4, <2>1, <2>2, Found
<1>e. CASE Ends(cons, k)
  <2> DEFINE m == n + k
  <2>1. rp' = discard(rp, wp, m).r /\ out' = out + discard(rp, wp, m).n /\ cons' = Idle
    BY <1>e DEF WriteSome, Discard, DiscardCount, n
  <2>2. m \in Nat /\ m <= Occ(rp, wp) /\ m \in 0 .. Used /\ Prefix(sink', out + m)
    BY <1>0, <1>5, <1>6, SizeAssumption DEF Used
  <2> HIDE DEF m
  <2>3. discard(rp, wp, m) = [r |-> At(rp, m), n |-> m]
    BY <1>0, <2>2, DiscardAll
  <2>4. rp' = At(rp, m) /\ out' = out + m
    BY <2>1, <2>3
  <2> QED BY <1>4, <2>1, <2>2, <2>4, TakeInv
<1>f. CASE ~Ends(cons, k)
  <2>1. cons' = [cons EXCEPT !.n = n + k] /\ UNCHANGED <<rp, out>>
    BY <1>f DEF WriteSome, Advance, n
  <2>2. cons' \in Calls /\ cons'.busy /\ cons'.n = n + k /\ cons'.ranges = g
    <3>1. n + k \in Nat
      BY <1>1, <1>2
    <3> QED BY <1>1, <2>1, <3>1 DEF Calls, g
  <2>3. Used' = Used /\ Free' = Free
    BY <1>4, <2>1 DEF Used, Free
  <2>4. ConsInv'
    BY <1>1, <1>3, <1>6, <2>1, <2>2, <2>3 DEF ConsInv, Prefix
  <2>5. ProdInv' /\ Filled'
    BY <1>4, <2>1, <2>3 DEF IndInv, ProdInv, Filled, At
  <2>6. TypeOK' /\ DeliveredInOrder' /\ in' = out' + Used'
    BY <1>4, <1>6, <2>1, <2>3 DEF IndInv, TypeOK, DeliveredInOrder, Prefix
  <2> QED BY <1>4, <2>1, <2>4, <2>5, <2>6 DEF IndInv, StreamStep
<1> QED BY <1>e, <1>f

\* A channel fails: what it had accepted is discarded.
LEMMA WriteFailsInv ==
    ASSUME IndInv, WriteFails
    PROVE  IndInv' /\ StreamStep
<1> DEFINE n == cons.n
<1>0. /\ rp \in Slots /\ wp \in Slots /\ out \in Nat /\ Used \in 0 .. Size
  BY Facts
<1>1. n \in 0 .. Used /\ Len(sink) = out + n
  BY <1>0, SizeAssumption DEF IndInv, ConsInv, Calls, Ranges, RangesAt, RangeSize
<1>2. /\ rp' = discard(rp, wp, n + 0).r /\ out' = out + discard(rp, wp, n + 0).n
      /\ cons' = Idle /\ UNCHANGED <<data, wp, src, sink, in, prod>>
  BY DEF WriteFails, Discard, DiscardCount
<1> HIDE DEF n
<1>3. n \in Nat /\ n + 0 = n /\ n <= Occ(rp, wp)
  BY <1>0, <1>1, SizeAssumption DEF Used
<1>4. discard(rp, wp, n) = [r |-> At(rp, n), n |-> n]
  BY <1>0, <1>3, DiscardAll
<1>5. rp' = At(rp, n) /\ out' = out + n
  BY <1>2, <1>3, <1>4
<1>6. Prefix(sink', out + n)
  BY <1>1, <1>2 DEF IndInv, TypeOK, DeliveredInOrder, Prefix
<1> QED BY <1>1, <1>2, <1>5, <1>6, TakeInv

\* The buffer's own read().
LEMMA ReadInv ==
    ASSUME IndInv, NEW n \in Counts, Read(n)
    PROVE  IndInv' /\ StreamStep
<1> DEFINE g == read(rp, wp, n)
           u == sink \o Received(g.s1, g.l1)
<1>0. /\ rp \in Slots /\ wp \in Slots /\ in \in Nat /\ out \in Nat /\ Used \in 0 .. Size
  BY Facts
<1>1. n \in Nat /\ ~cons.busy
  BY DEF Counts, Read
<1>2. cons = Idle /\ Len(sink) = out + 0
  BY <1>0, <1>1, Facts DEF IndInv, ConsInv
<1>3. g \in Ranges /\ RangesAt(g, rp, Used) /\ g.s2 + g.l2 = At(rp, RangeSize(g))
  BY <1>0, <1>1, ReadRanges DEF Used
<1>4. /\ sink' = u \o Received(g.s2, g.l2) /\ rp' = g.s2 + g.l2
      /\ out' = out + RangeSize(g) /\ cons' = Idle /\ UNCHANGED <<data, wp, src, in, prod>>
  BY <1>2 DEF Read
<1> HIDE DEF g, u
<1>5. /\ g.s1 \in Nat /\ g.l1 \in Nat /\ g.s2 \in Nat /\ g.l2 \in Nat
      /\ RangeSize(g) = g.l1 + g.l2 /\ RangeSize(g) \in 0 .. Used
  BY <1>0, <1>3, SizeAssumption DEF Ranges, RangesAt, RangeSize
<1>6. Along(rp, 0, g.s1, g.l1) /\ Along(rp, g.l1, g.s2, g.l2)
  BY <1>0, <1>3, <1>5, RangesAlong
<1>7. Prefix(u, out + g.l1)
  <2>1. Prefix(sink, out + 0)
    BY <1>2 DEF IndInv, TypeOK, DeliveredInOrder, Prefix
  <2>2. 0 \in Nat /\ 0 + g.l1 <= Used /\ 0 + g.l1 = g.l1
    BY <1>0, <1>5, SizeAssumption
  <2>3. Prefix(u, out + (0 + g.l1))
    BY <1>5, <1>6, <2>1, <2>2, Found DEF u
  <2> QED BY <2>2, <2>3
<1>8. Prefix(sink', out + RangeSize(g))
  <2>1. g.l1 + g.l2 <= Used
    BY <1>0, <1>5, SizeAssumption
  <2>2. Prefix(sink', out + (g.l1 + g.l2))
    BY <1>4, <1>5, <1>6, <1>7, <2>1, Found
  <2> QED BY <1>5, <2>2
<1> DEFINE m == RangeSize(g)
<1>9. m \in 0 .. Used /\ Prefix(sink', out + m) /\ rp' = At(rp, m) /\ out' = out + m
  BY <1>3, <1>4, <1>5, <1>8
<1> HIDE DEF m
<1> QED BY <1>4, <1>9, TakeInv

\* Every step keeps the invariant, and is a step of the bounded stream or none.
LEMMA StepInv == IndInv /\ [Next]_vars => IndInv' /\ StreamStep
<1> SUFFICES ASSUME IndInv, [Next]_vars PROVE IndInv' /\ StreamStep
  OBVIOUS
<1>1. ASSUME NEW n \in Counts, NEW all \in BOOLEAN, ReadBegin(n, all) \/ WriteBegin(n, all)
      PROVE  IndInv' /\ StreamStep
  BY <1>1, ReadBeginInv, WriteBeginInv
<1>2. ASSUME NEW k \in Counts, ReadSome(k) \/ WriteSome(k) \/ Write(k) \/ Read(k)
      PROVE  IndInv' /\ StreamStep
  BY <1>2, ReadSomeInv, WriteSomeInv, WriteInv, ReadInv
<1>3. CASE ReadFails \/ WriteFails
  BY <1>3, ReadFailsInv, WriteFailsInv
<1>4. CASE UNCHANGED vars
  <2>1. Used' = Used /\ Free' = Free
    BY <1>4 DEF vars, Used, Free
  <2> QED BY <1>4, <2>1
       DEF vars, IndInv, TypeOK, Filled, ProdInv, ConsInv, DeliveredInOrder, At, StreamStep
<1> QED BY <1>1, <1>2, <1>3, <1>4 DEF Next

-----------------------------------------------------------------------------
(* The theorems.                                                            *)

\* The inductive invariant, whatever the size of the buffer and of the source.
THEOREM Invariance == Spec => []IndInv
<1>1. IndInv /\ [Next]_vars => IndInv'
  BY StepInv
<1> QED BY InitInv, <1>1, PTL DEF Spec

\* Ranges lent to the two channels are on different sides of the pointers.
LEMMA Disjoint == IndInv => RangesDisjoint
<1> SUFFICES ASSUME IndInv, NEW i \in prod.n .. RangeSize(prod.ranges) - 1,
                    NEW j \in cons.n .. RangeSize(cons.ranges) - 1
             PROVE  Addr(prod.ranges, i) # Addr(cons.ranges, j)
  BY DEF RangesDisjoint, Borrowed
<1>0. /\ rp \in Slots /\ wp \in Slots
      /\ Used \in 0 .. Size /\ Free \in 0 .. Size /\ Free = Size - Used
  BY Facts
<1>1. /\ prod.ranges \in Ranges /\ prod.n \in Nat /\ RangesAt(prod.ranges, wp, Free)
      /\ cons.ranges \in Ranges /\ cons.n \in Nat /\ RangesAt(cons.ranges, rp, Used)
  BY DEF IndInv, ProdInv, ConsInv, Calls
<1>2. /\ RangeSize(prod.ranges) \in Nat /\ RangeSize(prod.ranges) <= Free
      /\ RangeSize(cons.ranges) \in Nat /\ RangeSize(cons.ranges) <= Used
  BY <1>1 DEF RangesAt, Ranges, RangeSize
<1>3. /\ i \in Nat /\ i < RangeSize(prod.ranges) /\ i \in 0 .. Free - 1
      /\ j \in Nat /\ j < RangeSize(cons.ranges) /\ j \in 0 .. Used - 1
  BY <1>0, <1>1, <1>2, SizeAssumption
<1>4. Addr(prod.ranges, i) = At(wp, i) /\ Addr(cons.ranges, j) = At(rp, j)
  BY <1>0, <1>1, <1>3, AddrAt
<1>5. At(rp, j) # At(wp, i)
  BY <1>0, <1>3, Ring DEF Used, Free
<1> QED BY <1>4, <1>5

\* StreamIntact for every Size and Total: between read_all and write_all no
\* element is overwritten, lost, doubled or reordered, whichever ranges the two
\* coroutines were lent and wherever a channel fails (commit() and discard()).
THEOREM StreamIsIntact == Spec => []StreamIntact
<1>1. IndInv => StreamIntact
  BY Disjoint DEF IndInv, StreamIntact, NothingLost, ProdInv, ConsInv
<1> QED BY Invariance, <1>1, PTL

\* ImplementsStream for every Size and Total: the pointers of circular_buffer
\* move as the two counters of a stream that holds at most Size elements.
THEOREM Refinement == Spec => ImplementsStream
<1>1. Init => Stream!Init
  BY DEF Init, Stream!Init
<1>2. IndInv /\ [Next]_vars => [Stream!Next]_<<in, out>>
  BY StepInv DEF StreamStep
<1> QED BY Invariance, <1>1, <1>2, PTL DEF Spec, ImplementsStream, Stream!Spec
=============================================================================
