------------------------ MODULE DynamicBufferProofs -------------------------
(***************************************************************************)
(* Proofs about DynamicBuffer: for extents of every size, any number of    *)
(* ranges and a source of any length, the consumer receives the elements   *)
(* in order, the SK_CHECKs of _make_tail, _ensure_minfree, read() and      *)
(* commit() hold, and only a head that the tail left behind partly filled  *)
(* cuts the consumer off.                                                  *)
(*                                                                         *)
(* The argument numbers the places.  There are numbers b such that place j *)
(* of extent i is for element b[i] + j of the source: extents that follow  *)
(* each other have consecutive numbers, where an extent in front of the    *)
(* tail ends at its write pointer and the others at XSize (Chain).  A turn *)
(* of a loop moves a pointer, the number of one extent or the end of the   *)
(* numbers, and the places keep theirs; an extent that goes behind the     *)
(* tail gets those that follow the extent in front of it.  The state       *)
(* determines the numbers, but as a sum over the list, about which the     *)
(* provers know nothing.  So the invariant says that there are some, and   *)
(* the proof of a step says which they are after it.                       *)
(*                                                                         *)
(* What is between two pointers is a range of numbers: from the elements   *)
(* the consumer has, less those not discarded yet, up to the elements that *)
(* are committed, and from there to those a channel has filled in.  The    *)
(* ranges a coroutine holds across a co_await stay ranges of these numbers *)
(* whatever the other one does (LentInv, CallInv).                         *)
(***************************************************************************)
EXTENDS DynamicBuffer, SequenceTheorems, TLAPS

\* How far extent i reaches: the tail has left those in front of it.
Reach(e, t, i) == IF i < t THEN e[i].w ELSE XSize

\* A list of extents with its tail: only the head has been read from, the spares
\* are empty and the head is not used up.
Shape(e, t) ==
    /\ e \in Seq(Extents) /\ t \in 1 .. Len(e)
    /\ \A i \in 1 .. Len(e) : e[i].r <= e[i].w
    /\ \A i \in 2 .. Len(e) : e[i].r = 0
    /\ \A i \in t + 1 .. Len(e) : e[i].w = 0
    /\ ~dead(e[1])

\* b numbers the extents: each begins where the one in front of it ends.  The
\* second line follows by induction; it is what the proofs use.
Numbers(e, t, b) ==
    /\ \A i \in 1 .. Len(e) - 1 : b[i + 1] = b[i] + Reach(e, t, i)
    /\ \A i, k \in 1 .. Len(e) : i < k => b[k] >= b[i] + Reach(e, t, i)

\* Up to top, the places that are still to be read hold the elements of their numbers.
Holds(e, t, b, top) ==
    \A i \in 1 .. Len(e), j \in Places :
        e[i].r <= j /\ j < Reach(e, t, i) /\ b[i] + j < top => e[i].data[j] = b[i] + j

\* A list of extents whose elements from lo to hi can be read, and in which those
\* from hi to top are written but not committed.
Chain(e, t, b, lo, hi, top) ==
    /\ Shape(e, t)
    /\ b \in [1 .. Len(e) -> Int]
    /\ lo \in Int /\ hi \in Int /\ top \in Int /\ hi <= top
    /\ b[1] + e[1].r = lo /\ b[t] + e[t].w = hi
    /\ Numbers(e, t, b)
    /\ Holds(e, t, b, top)

\* Elements the consumer has that are still in the buffer, and elements in the
\* buffer that are not yet committed.
Undiscarded == IF loop.op = "discard" THEN loop.left ELSE call.n
Uncommitted == IF loop.op \in {"fill", "commit"} THEN loop.left ELSE 0

\* The range that a channel has been lent is still what the tail can take.
LentInv ==
    /\ lent \in [at : 0 .. XSize, len : -1 .. XSize]
    /\ lent.len = -1 => lent = NotLent
    /\ lent.len > 0 => lent.at = ext[tail].w /\ lent.len = XSize - ext[tail].w
    /\ lent # NotLent => loop.op \in {"none", "read", "discard"}

\* What a loop has left to do is there to be done: elements of the source, and
\* for commit() room in the list.  The loop of read_all has come to the range
\* that is next in the numbering.
LoopInv(b) ==
    /\ loop \in [op : {"none", "write", "fill", "commit", "read", "discard"}, left : Nat, i : Nat]
    /\ loop.op = "none" => loop = NoLoop
    /\ loop.op \notin {"none", "fill"} => loop.left > 0
    /\ loop.op \in {"write", "fill", "commit"} => in + loop.left <= Total
    /\ loop.op \in {"read", "discard"} => call = NoCall
    /\ loop.op = "commit" => in + loop.left <= b[Len(ext)] + XSize
    /\ loop.op = "fill" =>
          /\ loop.i \in 1 .. Len(ext) - tail + 1
          /\ b[tail + loop.i - 1] + ext[tail + loop.i - 1].w = in + loop.left

\* The ranges of a write function are what the extents had to read when it began,
\* all of it in the extents in front of one it has still to come to, and the
\* consumer has what it has accepted.
CallInv(b) ==
    /\ call \in [lens : Seq(Nat), i : Nat, off : Nat, n : Nat, all : BOOLEAN]
    /\ call # NoCall =>
          /\ Len(call.lens) <= Len(ext)
          /\ call.i \in 1 .. Len(call.lens) /\ call.off < call.lens[call.i]
          /\ \A i \in 1 .. Len(call.lens) : call.lens[i] <= ext[i].w - ext[i].r
          /\ \A i, k \in 1 .. Len(call.lens) :
                i < k /\ call.lens[k] > 0 => i < tail /\ call.lens[i] = ext[i].w - ext[i].r
          /\ Len(sink) = b[call.i] + ext[call.i].r + call.off

\* What has been committed and received.
SinkInv == in \in 0 .. Total /\ sink \in Seq(Int) /\ ElementsInOrder

\* The state with the numbers b.
Parts(b) ==
    /\ Chain(ext, tail, b, Len(sink) - Undiscarded, in, in + Uncommitted)
    /\ SinkInv /\ LentInv /\ LoopInv(b) /\ CallInv(b)

IndInv == \E b \in [1 .. Len(ext) -> Int] : Parts(b)

-----------------------------------------------------------------------------
(* What the operations do to the list of extents.                           *)

USE DEF ConstantsOK

\* The parts of an extent.
LEMMA ExtentType ==
    ASSUME NEW x \in Extents
    PROVE  x.r \in 0 .. XSize /\ x.w \in 0 .. XSize /\ x.data \in [Places -> Int]
BY DEF Extents

\* An extent that starts again.
LEMMA ClearType ==
    ASSUME ConstantsOK, NEW x \in Extents
    PROVE  clear(x) \in Extents /\ clear(x).r = 0 /\ clear(x).w = 0
BY ExtentType DEF Extents, clear

\* The read pointer is set.
LEMMA MoveRead ==
    ASSUME NEW x \in Extents, NEW k \in 0 .. XSize
    PROVE  /\ [x EXCEPT !.r = k] \in Extents
           /\ [x EXCEPT !.r = k].r = k /\ [x EXCEPT !.r = k].w = x.w
           /\ [x EXCEPT !.r = k].data = x.data
BY DEF Extents

\* The write pointer is set.
LEMMA MoveWrite ==
    ASSUME NEW x \in Extents, NEW k \in 0 .. XSize
    PROVE  /\ [x EXCEPT !.w = k] \in Extents
           /\ [x EXCEPT !.w = k].w = k /\ [x EXCEPT !.w = k].r = x.r
           /\ [x EXCEPT !.w = k].data = x.data
BY DEF Extents

\* Copying changes the places named, and nothing else.
LEMMA FillType ==
    ASSUME ConstantsOK, NEW x \in Extents, NEW p \in Int, NEW q \in Int, NEW v \in Int
    PROVE  /\ Fill(x, p, q, v) \in Extents
           /\ Fill(x, p, q, v).r = x.r /\ Fill(x, p, q, v).w = x.w
           /\ \A j \in Places : Fill(x, p, q, v).data[j]
                                 = IF p <= j /\ j < q THEN v + (j - p) ELSE x.data[j]
<1> DEFINE d == [j \in Places |-> IF j \in p .. q - 1 THEN v + (j - p) ELSE x.data[j]]
<1>1. x.data \in [Places -> Int] /\ \A j \in Places : j \in Int
  BY DEF Extents, Places
<1>2. /\ d \in [Places -> Int]
      /\ \A j \in Places : d[j] = IF p <= j /\ j < q THEN v + (j - p) ELSE x.data[j]
  BY <1>1
<1>3. Fill(x, p, q, v) = [x EXCEPT !.data = d]
  BY DEF Fill
<1> HIDE DEF d
<1> QED BY <1>2, <1>3 DEF Extents

\* A new extent is empty.
LEMMA NewExtentType ==
    ASSUME ConstantsOK
    PROVE  NewExtent \in Extents /\ NewExtent.r = 0 /\ NewExtent.w = 0
BY DEF Extents, NewExtent, Places

\* The types in a chain.
LEMMA ChainType ==
    ASSUME ConstantsOK, NEW e, NEW t, NEW b, NEW lo, NEW hi, NEW top,
           Chain(e, t, b, lo, hi, top)
    PROVE  /\ e \in Seq(Extents) /\ Len(e) \in Nat /\ t \in 1 .. Len(e) /\ t \in Nat
           /\ \A i \in 1 .. Len(e) : /\ e[i] \in Extents /\ e[i].w \in 0 .. XSize
                                     /\ e[i].r \in 0 .. XSize /\ e[i].r <= e[i].w
                                     /\ b[i] \in Int /\ Reach(e, t, i) \in 0 .. XSize
           /\ lo \in Int /\ hi \in Int /\ top \in Int /\ hi <= top
           /\ b[1] + e[1].r = lo /\ b[t] + e[t].w = hi
<1>1. /\ e \in Seq(Extents) /\ Len(e) \in Nat /\ t \in 1 .. Len(e)
      /\ \A i \in 1 .. Len(e) : e[i].r <= e[i].w /\ b[i] \in Int
  BY DEF Chain, Shape
<1>2. \A i \in 1 .. Len(e) : e[i] \in Extents /\ e[i].w \in 0 .. XSize /\ e[i].r \in 0 .. XSize
  BY <1>1, ExtentType
<1>3. \A i \in 1 .. Len(e) : Reach(e, t, i) \in 0 .. XSize
  BY <1>2 DEF Reach
<1>4. /\ lo \in Int /\ hi \in Int /\ top \in Int /\ hi <= top
      /\ b[1] + e[1].r = lo /\ b[t] + e[t].w = hi
  BY DEF Chain
<1> QED BY <1>1, <1>2, <1>3, <1>4

\* What a chain says of each of its extents.
LEMMA ChainShape ==
    ASSUME NEW e, NEW t, NEW b, NEW lo, NEW hi, NEW top, Chain(e, t, b, lo, hi, top)
    PROVE  /\ \A i \in 2 .. Len(e) : e[i].r = 0
           /\ \A i \in t + 1 .. Len(e) : e[i].w = 0
           /\ ~dead(e[1])
           /\ b \in [1 .. Len(e) -> Int]
BY DEF Chain, Shape

\* What a chain says of the numbers of its extents.
LEMMA ChainNumbers ==
    ASSUME NEW e, NEW t, NEW b, NEW lo, NEW hi, NEW top, Chain(e, t, b, lo, hi, top)
    PROVE  /\ \A i \in 1 .. Len(e) - 1 : b[i + 1] = b[i] + Reach(e, t, i)
           /\ \A i, k \in 1 .. Len(e) : i < k => b[k] >= b[i] + Reach(e, t, i)
           /\ \A i \in 1 .. Len(e), j \in Places :
                e[i].r <= j /\ j < Reach(e, t, i) /\ b[i] + j < top => e[i].data[j] = b[i] + j
BY DEF Chain, Numbers, Holds

\* A chain whose extents keep their reach keeps its numbers.
LEMMA SameReach ==
    ASSUME NEW e, NEW t, NEW b, NEW lo, NEW hi, NEW top, Chain(e, t, b, lo, hi, top),
           NEW f, NEW u, Len(f) = Len(e),
           \A i \in 1 .. Len(e) : Reach(f, u, i) = Reach(e, t, i)
    PROVE  Numbers(f, u, b)
<1>1. /\ \A i \in 1 .. Len(e) - 1 : b[i + 1] = b[i] + Reach(e, t, i)
      /\ \A i, k \in 1 .. Len(e) : i < k => b[k] >= b[i] + Reach(e, t, i)
  BY ChainNumbers
<1>2. Len(e) \in Nat
  BY DEF Chain, Shape
<1>3. \A i \in 1 .. Len(f) - 1 : b[i + 1] = b[i] + Reach(f, u, i)
  BY <1>1, <1>2
<1>4. \A i, k \in 1 .. Len(f) : i < k => b[k] >= b[i] + Reach(f, u, i)
  BY <1>1
<1> QED BY <1>3, <1>4 DEF Numbers

\* commit() and write() go to the next extent.
LEMMA NextExtent ==
    ASSUME ConstantsOK, NEW e, NEW t, NEW b, NEW lo, NEW hi, NEW top,
           Chain(e, t, b, lo, hi, top), writable(e[t]) = 0, t < Len(e)
    PROVE  Chain(e, t + 1, b, lo, hi, top)
<1>1. Len(e) \in Nat /\ t \in 1 .. Len(e) /\ t + 1 \in 1 .. Len(e) /\ t \in Nat
  BY ChainType
<1>2. /\ e \in Seq(Extents) /\ \A i \in 1 .. Len(e) : e[i].r <= e[i].w
      /\ e[t].w \in 0 .. XSize /\ b[t] \in Int
      /\ lo \in Int /\ hi \in Int /\ top \in Int /\ hi <= top
      /\ b[1] + e[1].r = lo /\ b[t] + e[t].w = hi
  BY ChainType
<1>3. e[t].w = XSize
  BY <1>2 DEF writable
<1>4. e[t + 1].w = 0
  <2>1. t + 1 \in t + 1 .. Len(e)
    BY <1>1
  <2> QED BY <2>1, ChainShape
<1>5. Shape(e, t + 1)
  <2>1. \A i \in (t + 1) + 1 .. Len(e) : e[i].w = 0
    BY <1>1, ChainShape
  <2> QED BY <1>1, <1>2, <2>1, ChainShape DEF Shape
<1>6. \A i \in 1 .. Len(e) : Reach(e, t + 1, i) = Reach(e, t, i)
  BY <1>1, <1>3 DEF Reach
<1>7. Numbers(e, t + 1, b)
  BY <1>6, SameReach
<1>8. Holds(e, t + 1, b, top)
  BY <1>6, ChainNumbers DEF Holds
<1>9. b[t + 1] + e[t + 1].w = hi
  <2>1. t \in 1 .. Len(e) - 1 /\ Reach(e, t, t) = XSize
    BY <1>1 DEF Reach
  <2>2. b[t + 1] = b[t] + XSize
    BY <2>1, ChainNumbers
  <2> QED BY <1>2, <1>3, <1>4, <2>2
<1> QED BY <1>2, <1>5, <1>7, <1>8, <1>9, ChainShape DEF Chain

\* An extent is put behind the tail, which advances into it.
LEMMA GrowChain ==
    ASSUME ConstantsOK, NEW e, NEW t, NEW b, NEW lo, NEW hi,
           Chain(e, t, b, lo, hi, hi), t = Len(e)
    PROVE  Chain(Append(e, NewExtent), t + 1,
                 [i \in 1 .. t + 1 |-> IF i <= t THEN b[i] ELSE hi], lo, hi, hi)
<1> DEFINE f == Append(e, NewExtent)
           c == [i \in 1 .. t + 1 |-> IF i <= t THEN b[i] ELSE hi]
<1>1. /\ e \in Seq(Extents) /\ Len(e) \in Nat /\ t \in 1 .. Len(e) /\ t \in Nat
      /\ \A i \in 1 .. t : /\ e[i] \in Extents /\ e[i].w \in 0 .. XSize /\ e[i].r \in 0 .. XSize
                           /\ e[i].r <= e[i].w /\ b[i] \in Int
      /\ lo \in Int /\ hi \in Int /\ b[t] + e[t].w = hi /\ b[1] + e[1].r = lo
  BY ChainType
<1>2. /\ f \in Seq(Extents) /\ Len(f) = t + 1 /\ f[t + 1] = NewExtent
      /\ \A i \in 1 .. t : f[i] = e[i]
  BY <1>1, NewExtentType
<1>0. Chain(e, t, b, lo, hi, hi) /\ t = Len(e)
  OBVIOUS
<1>y. /\ t \in Nat /\ t >= 1 /\ hi \in Int /\ b[t] + e[t].w = hi /\ XSize \in Nat
      /\ \A i \in 1 .. t : e[i].w \in Nat /\ e[i].w <= XSize /\ b[i] \in Int
  BY <1>1
<1>c. /\ c \in [1 .. t + 1 -> Int] /\ c[t + 1] = hi
      /\ \A i \in 1 .. t : c[i] = b[i]
  BY <1>1
<1> HIDE DEF f, c
<1>3. Shape(f, t + 1)
  <2>1. \A i \in 1 .. t + 1 : f[i].r <= f[i].w
    BY <1>1, <1>2, NewExtentType
  <2>2. \A i \in 2 .. t + 1 : f[i].r = 0
    BY <1>1, <1>2, NewExtentType DEF Chain, Shape
  <2>3. ~dead(f[1]) /\ t + 1 \in 1 .. Len(f)
    BY <1>1, <1>2 DEF Chain, Shape
  <2> QED BY <1>1, <1>2, <2>1, <2>2, <2>3 DEF Shape
<1>4. /\ \A i \in 1 .. t : Reach(f, t + 1, i) = e[i].w
      /\ \A i \in 1 .. t - 1 : Reach(e, t, i) = e[i].w
  BY <1>1, <1>2 DEF Reach
<1>5. \A i \in 1 .. t : b[i] + e[i].w <= hi
  <2>1. \A i \in 1 .. t - 1 : b[t] >= b[i] + e[i].w
    BY <1>1, <1>4 DEF Chain, Numbers
  <2>2. ASSUME NEW i \in 1 .. t PROVE b[i] + e[i].w <= hi
    <3>1. CASE i = t
      BY <1>1, <3>1
    <3>2. CASE i # t
      <4>1. i \in 1 .. t - 1
        BY <1>1, <3>2
      <4>2. b[t] >= b[i] + e[i].w
        BY ONLY <2>1, <4>1
      <4>3. /\ b[i] \in Int /\ e[i].w \in Int /\ b[t] \in Int /\ e[t].w \in Nat
            /\ b[t] + e[t].w = hi
        BY ONLY <1>y, <2>2
      <4> QED BY ONLY <4>2, <4>3
    <3> QED BY <1>1, <3>1, <3>2
  <2> QED BY <2>2
<1>6. Numbers(f, t + 1, c)
  <2>1. \A i \in 1 .. t : c[i + 1] = c[i] + Reach(f, t + 1, i)
    <3> SUFFICES ASSUME NEW i \in 1 .. t PROVE c[i + 1] = c[i] + e[i].w
      BY <1>4
    <3>0. i \in 1 .. t
      OBVIOUS
    <3>1. CASE i = t
      BY <1>1, <1>c, <3>1
    <3>2. CASE i < t
      <4>1. i \in 1 .. Len(e) - 1 /\ i \in 1 .. t - 1 /\ i + 1 \in 1 .. t
        BY ONLY <1>0, <1>y, <3>0, <3>2
      <4>2. b[i + 1] = b[i] + Reach(e, t, i)
        BY ONLY <1>0, <4>1, ChainNumbers
      <4>3. c[i + 1] = b[i + 1] /\ c[i] = b[i] /\ Reach(e, t, i) = e[i].w
        BY ONLY <1>c, <1>4, <4>1
      <4> QED BY ONLY <4>2, <4>3
    <3> QED BY <1>1, <3>1, <3>2
  <2>2. ASSUME NEW i \in 1 .. t + 1, NEW k \in 1 .. t + 1, i < k
        PROVE  c[k] >= c[i] + Reach(f, t + 1, i)
    <3>1. CASE k = t + 1
      <4>1. i \in 1 .. t
        BY ONLY <1>y, <2>2, <3>1
      <4>2. c[k] = hi /\ c[i] = b[i] /\ Reach(f, t + 1, i) = e[i].w /\ b[i] + e[i].w <= hi
        BY ONLY <1>c, <1>4, <1>5, <3>1, <4>1
      <4>3. hi \in Int /\ b[i] \in Int /\ e[i].w \in Int
        BY ONLY <1>y, <4>1
      <4> QED BY ONLY <4>2, <4>3
    <3>2. CASE k < t + 1
      <4>1. i \in 1 .. t - 1 /\ k \in 1 .. t /\ i \in 1 .. t
        BY ONLY <1>y, <2>2, <3>2
      <4>2. b[k] >= b[i] + Reach(e, t, i)
        BY <1>1, <2>2, <4>1 DEF Chain, Numbers
      <4>3. c[k] = b[k] /\ c[i] = b[i] /\ Reach(f, t + 1, i) = Reach(e, t, i)
        BY ONLY <1>c, <1>4, <4>1
      <4> QED BY ONLY <4>2, <4>3
    <3> QED BY <1>1, <3>1, <3>2
  <2>3. Len(f) - 1 = t
    BY <1>1, <1>2
  <2> QED BY <1>2, <2>1, <2>2, <2>3 DEF Numbers
<1>7. Holds(f, t + 1, c, hi)
  <2> SUFFICES ASSUME NEW i \in 1 .. t + 1, NEW j \in Places, f[i].r <= j,
                      j < Reach(f, t + 1, i), c[i] + j < hi
               PROVE  f[i].data[j] = c[i] + j
    BY <1>2 DEF Holds
  <2>0. /\ j \in Int /\ j >= 0 /\ c[i] + j < hi /\ j < Reach(f, t + 1, i) /\ f[i].r <= j
        /\ i \in 1 .. t + 1 /\ j \in Places
    BY DEF Places
  <2>1. i \in 1 .. t
    <3>1. CASE i = t + 1
      BY ONLY <1>y, <1>c, <2>0, <3>1
    <3>2. CASE i # t + 1
      BY ONLY <1>y, <2>0, <3>2
    <3> QED BY ONLY <3>1, <3>2
  <2>2. c[i] = b[i] /\ f[i] = e[i] /\ i \in 1 .. Len(e)
    BY ONLY <1>0, <1>2, <1>c, <2>1
  <2>3. j < Reach(e, t, i)
    <3>1. j < e[i].w
      BY ONLY <1>4, <2>0, <2>1
    <3>2. e[i].w \in Nat /\ e[i].w <= XSize /\ XSize \in Nat /\ j \in Int
      BY ONLY <1>y, <2>0, <2>1
    <3> QED BY ONLY <3>1, <3>2 DEF Reach
  <2>4. e[i].r <= j /\ b[i] + j < hi /\ j \in Places
    BY ONLY <2>0, <2>2
  <2>5. e[i].data[j] = b[i] + j
    BY ONLY <1>0, <2>2, <2>3, <2>4, ChainNumbers
  <2> QED BY ONLY <2>2, <2>5
<1>8. c[1] + f[1].r = lo /\ c[t + 1] + f[t + 1].w = hi
  BY <1>1, <1>2, <1>c, NewExtentType
<1>9. Chain(f, t + 1, c, lo, hi, hi)
  BY <1>1, <1>2, <1>c, <1>3, <1>6, <1>7, <1>8 DEF Chain
<1> QED BY <1>9 DEF f, c

\* One extent of the list is replaced.
LEMMA SetExtent ==
    ASSUME NEW e \in Seq(Extents), NEW m \in 1 .. Len(e), NEW x \in Extents
    PROVE  /\ [e EXCEPT ![m] = x] \in Seq(Extents) /\ Len([e EXCEPT ![m] = x]) = Len(e)
           /\ [e EXCEPT ![m] = x][m] = x
           /\ \A i \in 1 .. Len(e) : i # m => [e EXCEPT ![m] = x][i] = e[i]
OBVIOUS

\* The elements from top to q are copied into an extent that the tail has not left.
LEMMA FillChain ==
    ASSUME ConstantsOK, NEW e, NEW t, NEW b, NEW lo, NEW hi, NEW top, Chain(e, t, b, lo, hi, top),
           NEW m \in t .. Len(e), NEW q \in Int, b[m] <= top, top <= q, q <= b[m] + XSize,
           NEW f \in Seq(Extents), Len(f) = Len(e), f[m].r = e[m].r, f[m].w = e[m].w,
           \A i \in 1 .. Len(e) : i # m => f[i] = e[i],
           \A j \in Places : f[m].data[j] = IF top <= b[m] + j /\ b[m] + j < q
                                            THEN b[m] + j ELSE e[m].data[j]
    PROVE  Chain(f, t, b, lo, hi, q)
<1>1. Len(e) \in Nat /\ t \in 1 .. Len(e) /\ t \in Nat /\ m \in 1 .. Len(e) /\ m \in Int /\ t <= m
  BY ChainType
<1>x. \A i \in 1 .. Len(e) : /\ e[i].w \in 0 .. XSize
                             /\ e[i].r \in 0 .. XSize /\ e[i].r <= e[i].w
                             /\ b[i] \in Int /\ Reach(e, t, i) \in 0 .. XSize
  BY ChainType
<1>b. /\ lo \in Int /\ hi \in Int /\ top \in Int /\ hi <= top
      /\ b[1] + e[1].r = lo /\ b[t] + e[t].w = hi
  BY ChainType
<1>5. \A i \in 1 .. Len(e) : f[i].r = e[i].r /\ f[i].w = e[i].w
  OBVIOUS
<1>6. Shape(f, t)
  <2>1. f[1].r = e[1].r /\ f[1].w = e[1].w
    BY <1>1, <1>5
  <2>2. \A i \in 2 .. Len(e) : f[i].r = 0
    BY <1>1, <1>5, ChainShape
  <2>3. \A i \in t + 1 .. Len(e) : f[i].w = 0
    BY <1>1, <1>5, ChainShape
  <2>4. \A i \in 1 .. Len(e) : f[i].r <= f[i].w
    BY <1>x, <1>5
  <2>5. ~dead(f[1])
    BY <2>1, ChainShape DEF dead, readable, writable
  <2> QED BY <1>1, <2>2, <2>3, <2>4, <2>5 DEF Shape
<1>7. \A i \in 1 .. Len(e) : Reach(f, t, i) = Reach(e, t, i)
  BY <1>5 DEF Reach
<1>8. Numbers(f, t, b)
  BY <1>7, SameReach
<1>9. Holds(f, t, b, q)
  <2> SUFFICES ASSUME NEW i \in 1 .. Len(e), NEW j \in Places, e[i].r <= j,
                      j < Reach(e, t, i), b[i] + j < q
               PROVE  f[i].data[j] = b[i] + j
    BY <1>5, <1>7 DEF Holds
  <2>0. /\ j \in Int /\ j < XSize /\ j >= 0 /\ j < Reach(e, t, i)
        /\ b[i] \in Int /\ Reach(e, t, i) \in Int /\ i \in Int /\ b[i] + j < q
    <3>1. /\ j \in Int /\ j < XSize /\ j >= 0 /\ b[i] + j < q
          /\ i \in 1 .. Len(e) /\ j < Reach(e, t, i)
      BY DEF Places
    <3>2. b[i] \in Int /\ Reach(e, t, i) \in 0 .. XSize /\ XSize \in Nat
      BY <1>x
    <3>3. Reach(e, t, i) \in Int /\ i \in Int
      BY ONLY <1>1, <3>1, <3>2
    <3> QED BY ONLY <3>1, <3>2, <3>3
  <2>1. b[i] + j < top => e[i].data[j] = b[i] + j
    BY ChainNumbers
  <2>y. /\ b[m] <= top /\ b[m] \in Int /\ q <= b[m] + XSize /\ top <= q /\ top \in Int /\ q \in Int
        /\ XSize \in Nat
    BY <1>1, <1>x, <1>b
  <2>2. CASE i = m
    <3>1. f[i].data[j] = IF top <= b[m] + j /\ b[m] + j < q THEN b[m] + j ELSE e[m].data[j]
      BY <2>2
    <3>2. ~(top <= b[m] + j) => b[i] + j < top
      BY ONLY <2>0, <2>y, <2>2
    <3> QED BY ONLY <2>0, <2>1, <2>2, <3>1, <3>2
  <2>3. CASE i < m
    <3>1. b[m] >= b[i] + Reach(e, t, i)
      BY <1>1, <2>3, ChainNumbers
    <3>2. b[i] + j < top
      <4>1. PICK a \in Int, d \in Int, g \in Int : a = b[i] /\ d = b[m] /\ g = Reach(e, t, i)
        BY ONLY <2>0, <2>y
      <4>2. /\ a \in Int /\ d \in Int /\ g \in Int /\ j \in Int /\ top \in Int
            /\ d <= top /\ j < g /\ d >= a + g
        BY ONLY <2>0, <2>y, <3>1, <4>1
      <4>3. a + j < top
        BY ONLY <4>2
      <4> QED BY ONLY <4>1, <4>3
    <3>3. f[i] = e[i]
      BY <1>1, <2>3
    <3> QED BY <2>1, <3>2, <3>3
  <2>4. CASE i > m
    <3>x. Reach(e, t, m) = XSize
      BY <1>1 DEF Reach
    <3>1. b[i] >= b[m] + XSize
      BY <1>1, <2>0, <3>x, <2>4, ChainNumbers
    <3>2. FALSE
      BY ONLY <2>y, <2>0, <3>1
    <3> QED BY <3>2
  <2> QED BY <1>1, <2>0, <2>2, <2>3, <2>4
<1>10. b[1] + f[1].r = lo /\ b[t] + f[t].w = hi
  BY <1>1, <1>b, <1>5
<1>11. b \in [1 .. Len(f) -> Int]
  BY ChainShape
<1>12. hi <= q
  BY <1>b
<1> QED BY <1>b, <1>6, <1>8, <1>9, <1>10, <1>11, <1>12 DEF Chain

\* The list f is the list e with x in the place of extent m.
Replaced(e, f, m, x) ==
    /\ f \in Seq(Extents) /\ Len(f) = Len(e) /\ f[m] = x
    /\ \A i \in 1 .. Len(e) : i # m => f[i] = e[i]

\* The elements from top to z are to be put into the places w and after of extent m,
\* where they belong.
Fits(x, v, w, q, top, z) ==
    /\ v + x.w = top /\ w \in Int /\ q \in Int /\ z \in Int /\ w <= q
    /\ q - w <= writable(x) /\ (w < q => w = x.w) /\ z = top + (q - w)

\* The source's next elements are copied to the places from the write pointer to q.
LEMMA FillNext ==
    ASSUME ConstantsOK, NEW e, NEW t, NEW b, NEW lo, NEW hi, NEW top, Chain(e, t, b, lo, hi, top),
           NEW m \in t .. Len(e), NEW w, NEW q, NEW z, Fits(e[m], b[m], w, q, top, z),
           NEW f, Replaced(e, f, m, Fill(e[m], w, q, top))
    PROVE  /\ Chain(f, t, b, lo, hi, z)
           /\ \A i \in 1 .. Len(e) : f[i].r = e[i].r /\ f[i].w = e[i].w
<1>0. ConstantsOK /\ Chain(e, t, b, lo, hi, top) /\ m \in t .. Len(e)
  OBVIOUS
<1>n. XSize \in Nat /\ w \in Int /\ q \in Int /\ w <= q
  BY DEF Fits
<1>1. /\ Len(e) \in Nat /\ t \in Nat /\ t >= 1 /\ m \in 1 .. Len(e) /\ e[m] \in Extents
      /\ top \in Int
  BY ChainType
<1>v. PICK v \in Nat : v = e[m].w
  BY <1>1, ChainType
<1>2. /\ v \in Nat /\ b[m] \in Int /\ b[m] + v = top /\ v + (q - w) <= XSize /\ (w < q => w = v)
  <2>1. b[m] \in Int
    BY <1>1, ChainType
  <2>2. q - w <= XSize - v /\ (w < q => w = v) /\ b[m] + v = top
    BY <1>v DEF Fits, writable
  <2>3. v \in Nat /\ q - w <= XSize - v
    BY ONLY <1>v, <2>2
  <2>4. v + (q - w) <= XSize
    BY ONLY <1>n, <2>3
  <2> QED BY ONLY <2>1, <2>2, <2>3, <2>4
<1>f. /\ f \in Seq(Extents) /\ Len(f) = Len(e) /\ f[m] = Fill(e[m], w, q, top)
      /\ \A i \in 1 .. Len(e) : i # m => f[i] = e[i]
  BY DEF Replaced
<1>3. /\ f[m].r = e[m].r /\ f[m].w = e[m].w
      /\ \A j \in Places : f[m].data[j] = IF w <= j /\ j < q THEN top + (j - w)
                                          ELSE e[m].data[j]
  BY ONLY <1>0, <1>1, <1>n, <1>f, FillType
<1>4. z \in Int /\ z = top + (q - w)
  BY DEF Fits
<1>5. \A j \in Places : f[m].data[j] = IF top <= b[m] + j /\ b[m] + j < z
                                       THEN b[m] + j ELSE e[m].data[j]
  <2> SUFFICES ASSUME NEW j \in Places
               PROVE  f[m].data[j] = IF top <= b[m] + j /\ b[m] + j < z
                                     THEN b[m] + j ELSE e[m].data[j]
    OBVIOUS
  <2>1. j \in Int
    BY DEF Places
  <2>2. f[m].data[j] = IF w <= j /\ j < q THEN top + (j - w) ELSE e[m].data[j]
    BY ONLY <1>3
  <2>t. top \in Int
    BY ONLY <1>1
  <2>3. CASE w = q
    <3>1. ~(w <= j /\ j < q) /\ ~(top <= b[m] + j /\ b[m] + j < z)
      BY ONLY <1>n, <1>2, <1>4, <2>1, <2>t, <2>3
    <3> QED BY ONLY <2>2, <3>1
  <2>4. CASE w < q
    <3>1. /\ (w <= j /\ j < q) <=> (top <= b[m] + j /\ b[m] + j < z)
          /\ top + (j - w) = b[m] + j
      BY ONLY <1>n, <1>2, <1>4, <2>1, <2>t, <2>4
    <3> QED BY ONLY <2>2, <3>1
  <2> QED BY ONLY <1>n, <2>3, <2>4
<1>6. z \in Int /\ b[m] <= top /\ top <= z /\ z <= b[m] + XSize
  <2>1. top \in Int
    BY ONLY <1>1
  <2> QED BY ONLY <1>n, <1>2, <1>4, <2>1
<1>7. Chain(f, t, b, lo, hi, z)
  <2>1. /\ f \in Seq(Extents) /\ Len(f) = Len(e) /\ f[m].r = e[m].r /\ f[m].w = e[m].w
        /\ \A i \in 1 .. Len(e) : i # m => f[i] = e[i]
    BY ONLY <1>f, <1>3
  <2> QED BY ONLY <1>0, <1>5, <1>6, <2>1, FillChain
<1>8. \A i \in 1 .. Len(e) : f[i].r = e[i].r /\ f[i].w = e[i].w
  BY ONLY <1>f, <1>3
<1> QED BY ONLY <1>4, <1>7, <1>8

\* The write pointer of the tail moves over elements that are there.
LEMMA AdvanceWrite ==
    ASSUME ConstantsOK, NEW e, NEW t, NEW b, NEW lo, NEW hi, NEW top, Chain(e, t, b, lo, hi, top),
           NEW f \in Seq(Extents), Len(f) = Len(e), f[t].r = e[t].r, f[t].data = e[t].data,
           \A i \in 1 .. Len(e) : i # t => f[i] = e[i],
           e[t].w <= f[t].w, b[t] + f[t].w <= top
    PROVE  Chain(f, t, b, lo, b[t] + f[t].w, top)
<1>1. Len(e) \in Nat /\ t \in 1 .. Len(e) /\ t \in Nat
  BY ChainType
<1>x. \A i \in 1 .. Len(e) : /\ e[i].w \in 0 .. XSize
                             /\ e[i].r \in 0 .. XSize /\ e[i].r <= e[i].w
                             /\ b[i] \in Int
  BY ChainType
<1>b. /\ lo \in Int /\ hi \in Int /\ top \in Int /\ hi <= top
      /\ b[1] + e[1].r = lo /\ b[t] + e[t].w = hi
  BY ChainType
<1>w. f[t].w \in 0 .. XSize
  BY <1>1, ExtentType
<1>5. /\ \A i \in 1 .. Len(e) : f[i].r = e[i].r /\ f[i].data = e[i].data
      /\ \A i \in 1 .. Len(e) : i # t => f[i].w = e[i].w
  OBVIOUS
<1>6. Shape(f, t)
  <2>1. \A i \in 2 .. Len(e) : f[i].r = 0
    BY <1>1, <1>5, ChainShape
  <2>2. \A i \in t + 1 .. Len(e) : f[i].w = 0
    BY <1>1, <1>5, ChainShape
  <2>3. ASSUME NEW i \in 1 .. Len(e) PROVE f[i].r <= f[i].w
    <3>1. CASE i = t
      <4>1. e[t].r <= e[t].w /\ e[t].r \in Int /\ e[t].w \in Int
        BY <1>1, <1>x
      <4> QED BY <1>w, <3>1, <4>1
    <3>2. CASE i # t
      BY <1>x, <3>2
    <3> QED BY <3>1, <3>2
  <2>4. ~dead(f[1])
    <3>1. ~dead(e[1])
      BY ChainShape
    <3>2. CASE t = 1
      <4>1. e[1].r <= e[1].w /\ e[1].r \in Int /\ e[1].w \in Int
        BY <1>1, <1>x, <3>2
      <4>2. f[1].r = e[1].r /\ e[1].w <= f[1].w /\ f[1].w \in 0 .. XSize /\ XSize \in Nat
        BY <1>w, <3>2
      <4> QED BY ONLY <3>1, <4>1, <4>2 DEF dead, readable, writable
    <3>3. CASE t # 1
      BY <1>1, <3>1, <3>3
    <3> QED BY <3>2, <3>3
  <2> QED BY <1>1, <2>1, <2>2, <2>3, <2>4 DEF Shape
<1>7. \A i \in 1 .. Len(e) : Reach(f, t, i) = Reach(e, t, i)
  BY <1>1, <1>5 DEF Reach
<1>8. Numbers(f, t, b)
  BY <1>7, SameReach
<1>9. Holds(f, t, b, top)
  BY <1>5, <1>7, ChainNumbers DEF Holds
<1>10. b[1] + f[1].r = lo /\ b[t] + f[t].w \in Int
  <2>1. 1 \in 1 .. Len(e) /\ t \in 1 .. Len(e) /\ XSize \in Nat
    BY <1>1
  <2>2. f[1].r = e[1].r /\ b[t] \in Int
    BY ONLY <1>x, <1>5, <2>1
  <2>3. f[t].w \in Int
    BY ONLY <1>w, <2>1
  <2> QED BY ONLY <1>b, <2>2, <2>3
<1>11. b \in [1 .. Len(f) -> Int]
  BY ChainShape
<1> QED BY <1>b, <1>6, <1>8, <1>9, <1>10, <1>11 DEF Chain

\* The read pointer of the head moves past k elements.
LEMMA MoveHead ==
    ASSUME ConstantsOK, NEW e \in Seq(Extents), e # << >>, NEW k \in Nat, k <= readable(e[1])
    PROVE  /\ [e EXCEPT ![1].r = @ + k] \in Seq(Extents)
           /\ Len([e EXCEPT ![1].r = @ + k]) = Len(e)
           /\ [e EXCEPT ![1].r = @ + k][1] \in Extents
           /\ [e EXCEPT ![1].r = @ + k][1].r = e[1].r + k
           /\ [e EXCEPT ![1].r = @ + k][1].w = e[1].w
           /\ [e EXCEPT ![1].r = @ + k][1].data = e[1].data
           /\ e[1].r + k <= e[1].w
           /\ \A i \in 2 .. Len(e) : [e EXCEPT ![1].r = @ + k][i] = e[i]
<1> DEFINE x == [e[1] EXCEPT !.r = e[1].r + k]
<1>1. 1 \in 1 .. Len(e) /\ Len(e) \in Nat /\ e[1] \in Extents
  OBVIOUS
<1>3. e[1].r \in 0 .. XSize /\ e[1].w \in 0 .. XSize
  BY <1>1, ExtentType
<1>4. e[1].r + k \in 0 .. XSize /\ e[1].r + k <= e[1].w
  BY <1>3 DEF readable
<1>5. x \in Extents /\ x.r = e[1].r + k /\ x.w = e[1].w /\ x.data = e[1].data
  BY <1>1, <1>4, MoveRead
<1>6. [e EXCEPT ![1].r = @ + k] = [e EXCEPT ![1] = x]
  OBVIOUS
<1> HIDE DEF x
<1>7. /\ [e EXCEPT ![1] = x] \in Seq(Extents) /\ Len([e EXCEPT ![1] = x]) = Len(e)
      /\ [e EXCEPT ![1] = x][1] = x
      /\ \A i \in 1 .. Len(e) : i # 1 => [e EXCEPT ![1] = x][i] = e[i]
  BY <1>1, <1>5, SetExtent
<1>8. \A i \in 2 .. Len(e) : [e EXCEPT ![1] = x][i] = e[i]
  BY <1>1, <1>7
<1> QED BY <1>4, <1>5, <1>6, <1>7, <1>8

\* The head is not used up.
LEMMA KeepHead ==
    ASSUME ConstantsOK, NEW e, NEW t, NEW b, NEW lo, NEW hi, NEW top,
           Chain(e, t, b, lo, hi, top),
           NEW f, f \in Seq(Extents), Len(f) = Len(e), ~dead(f[1]),
           e[1].r <= f[1].r, f[1].r <= f[1].w, f[1].w = e[1].w, f[1].data = e[1].data,
           \A i \in 2 .. Len(e) : f[i] = e[i]
    PROVE  Chain(f, t, b, b[1] + f[1].r, hi, top) /\ f[t].w = e[t].w
<1>1. Len(e) \in Nat /\ t \in 1 .. Len(e) /\ t \in Nat
  BY ChainType
<1>x. \A i \in 1 .. Len(e) : e[i].r \in 0 .. XSize /\ e[i].w \in 0 .. XSize /\ e[i].r <= e[i].w
  BY ChainType
<1>b. /\ lo \in Int /\ hi \in Int /\ top \in Int /\ hi <= top
      /\ b[1] + e[1].r = lo /\ b[t] + e[t].w = hi /\ b[1] \in Int
  <2>1. ConstantsOK /\ Chain(e, t, b, lo, hi, top)
    OBVIOUS
  <2>2. 1 \in 1 .. Len(e)
    BY ONLY <1>1
  <2> QED BY ONLY <2>1, <2>2, ChainType
<1>f. f[1].r \in 0 .. XSize
  BY <1>1, ExtentType
<1>3. \A i \in 1 .. Len(e) : i = 1 \/ i \in 2 .. Len(e)
  BY <1>1
<1>4. \A i \in 1 .. Len(e) : f[i].w = e[i].w /\ f[i].data = e[i].data
  BY <1>3
<1>5. \A i \in 1 .. Len(e) : f[i].r <= f[i].w /\ (i # 1 => f[i].r = e[i].r)
  BY <1>3, <1>x
<1>6. Shape(f, t)
  <2>1. \A i \in 2 .. Len(e) : f[i].r = 0
    BY ChainShape
  <2>2. \A i \in t + 1 .. Len(e) : f[i].w = 0
    BY <1>1, <1>4, ChainShape
  <2> QED BY <1>1, <1>5, <2>1, <2>2 DEF Shape
<1>7. \A i \in 1 .. Len(e) : Reach(f, t, i) = Reach(e, t, i)
  BY <1>4 DEF Reach
<1>8. Numbers(f, t, b)
  BY <1>7, SameReach
<1>9. Holds(f, t, b, top)
  <2> SUFFICES ASSUME NEW i \in 1 .. Len(e), NEW j \in Places, f[i].r <= j,
                      j < Reach(e, t, i), b[i] + j < top
               PROVE  e[i].data[j] = b[i] + j
    BY <1>4, <1>7 DEF Holds
  <2>1. e[i].r <= j
    <3>1. CASE i = 1
      <4>1. e[1].r \in Int /\ j \in Int /\ f[1].r \in Int
        BY <1>1, <1>x, <1>f DEF Places
      <4> QED BY <3>1, <4>1
    <3>2. CASE i # 1
      BY <1>5, <3>2
    <3> QED BY <3>1, <3>2
  <2> QED BY <2>1, ChainNumbers
<1>10. b[1] + f[1].r \in Int /\ b[t] + f[t].w = hi /\ f[t].w = e[t].w
  BY <1>1, <1>4, <1>b, <1>f
<1>11. b \in [1 .. Len(f) -> Int]
  BY ChainShape
<1> QED BY <1>b, <1>6, <1>8, <1>9, <1>10, <1>11 DEF Chain

\* The head is used up and goes behind the tail.
LEMMA KillHead ==
    ASSUME ConstantsOK, NEW e, NEW t, NEW b, NEW lo, NEW hi,
           Chain(e, t, b, lo, hi, hi), t # 1, NEW f, Len(f) = Len(e), f \in Seq(Extents),
           \A i \in 1 .. t - 1 : f[i] = e[i + 1],
           \A i \in t .. Len(e) : f[i].r = 0 /\ f[i].w = 0
    PROVE  /\ \E c \in [1 .. Len(e) -> Int] : Chain(f, t - 1, c, b[1] + e[1].w, hi, hi)
           /\ f[t - 1].w = e[t].w
<1> DEFINE n == Len(e)
           u == t - 1
           c == [i \in 1 .. n |-> IF i < n THEN b[i + 1] ELSE b[n] + XSize]
<1>1. /\ n \in Nat /\ t \in 2 .. n /\ t \in Nat /\ u \in Nat /\ u \in 1 .. n - 1 /\ u + 1 = t
      /\ 1 \in 1 .. n /\ n \in 1 .. n
  BY ChainType
<1>x. \A i \in 1 .. n : /\ e[i] \in Extents /\ e[i].r \in 0 .. XSize /\ e[i].w \in 0 .. XSize
                        /\ e[i].r <= e[i].w /\ b[i] \in Int /\ Reach(e, t, i) \in 0 .. XSize
  BY ChainType
<1>b. /\ lo \in Int /\ hi \in Int
      /\ b[1] + e[1].r = lo /\ b[t] + e[t].w = hi
  BY ChainType
<1>s. (\A i \in 2 .. n : e[i].r = 0) /\ (\A i \in t + 1 .. n : e[i].w = 0)
  BY ChainShape
<1>m. /\ \A i \in 1 .. n - 1 : b[i + 1] = b[i] + Reach(e, t, i)
      /\ \A i, l \in 1 .. n : i < l => b[l] >= b[i] + Reach(e, t, i)
  BY ChainNumbers
<1>5. /\ Len(f) = n /\ \A i \in 1 .. u : f[i] = e[i + 1]
      /\ \A i \in t .. n : f[i].r = 0 /\ f[i].w = 0
  OBVIOUS
<1> HIDE DEF n, u
<1>6. \A i \in 1 .. n : f[i].r = 0 /\ f[i].w \in 0 .. XSize /\ (i >= t => f[i].w = 0)
  <2> SUFFICES ASSUME NEW i \in 1 .. n
               PROVE  f[i].r = 0 /\ f[i].w \in 0 .. XSize /\ (i >= t => f[i].w = 0)
    OBVIOUS
  <2>1. CASE i < t
    <3>1. i \in 1 .. u /\ i + 1 \in 1 .. n /\ i + 1 \in 2 .. n /\ ~(i >= t)
      BY <1>1, <2>1
    <3> QED BY <1>5, <1>x, <1>s, <3>1
  <2>2. CASE i >= t
    <3>1. i \in t .. n /\ 0 \in 0 .. XSize
      BY <1>1, <2>2
    <3> QED BY <1>5, <3>1
  <2> QED BY <1>1, <2>1, <2>2
<1>8. Shape(f, u)
  <2>1. f[1].r = 0 /\ f[1].w \in 0 .. XSize
    BY <1>1, <1>6
  <2>2. ~dead(f[1])
    BY <2>1 DEF dead, readable, writable
  <2>3. \A i \in 1 .. n : f[i].r <= f[i].w
    BY <1>6
  <2>4. (\A i \in 2 .. n : f[i].r = 0) /\ (\A i \in u + 1 .. n : f[i].w = 0)
    BY <1>1, <1>6
  <2> QED BY <1>1, <1>5, <2>2, <2>3, <2>4 DEF Shape
<1>9. \A i \in 1 .. n - 1 : Reach(f, u, i) = Reach(e, t, i + 1)
  BY <1>1, <1>5 DEF Reach
<1>10. Reach(f, u, n - 1) = XSize /\ Reach(f, u, n) = XSize
  BY <1>1 DEF Reach
<1>c. /\ c \in [1 .. n -> Int] /\ c[n] = b[n] + XSize /\ c[n] \in Int
      /\ \A i \in 1 .. n - 1 : c[i] = b[i + 1] /\ c[i] \in Int
  <2>1. c[n] = b[n] + XSize /\ c[n] \in Int
    BY <1>1, <1>x
  <2>2. ASSUME NEW i \in 1 .. n - 1 PROVE c[i] = b[i + 1] /\ c[i] \in Int
    <3>1. i + 1 \in 1 .. n /\ i \in 1 .. n /\ i < n
      BY <1>1
    <3> QED BY <1>x, <3>1
  <2>3. \A i \in 1 .. n : i = n \/ i \in 1 .. n - 1
    BY <1>1
  <2>4. \A i \in 1 .. n : c[i] \in Int
    BY <2>1, <2>2, <2>3
  <2> QED BY <2>1, <2>2, <2>4
<1> HIDE DEF c
<1>11. Numbers(f, u, c)
  <2>1. ASSUME NEW i \in 1 .. n - 1 PROVE c[i + 1] = c[i] + Reach(f, u, i)
    <3>1. CASE i = n - 1
      <4>1. i + 1 = n
        BY ONLY <1>1, <3>1
      <4>2. c[i] = b[n] /\ c[i + 1] = b[n] + XSize
        BY ONLY <1>c, <4>1
      <4>3. Reach(f, u, i) = XSize
        BY ONLY <1>10, <3>1
      <4> QED BY ONLY <4>2, <4>3
    <3>2. CASE i < n - 1
      <4>1. i + 1 \in 1 .. n - 1
        BY <1>1, <3>2
      <4> QED BY <1>c, <1>m, <1>9, <4>1
    <3>3. i = n - 1 \/ i < n - 1
      BY <1>1
    <3> QED BY <3>1, <3>2, <3>3
  <2>2. ASSUME NEW i \in 1 .. n, NEW l \in 1 .. n, i < l PROVE c[l] >= c[i] + Reach(f, u, i)
    <3>0. i \in 1 .. n - 1 /\ i + 1 \in 1 .. n /\ i \in Int /\ l \in Int /\ n \in Int
      BY <1>1, <2>2
    <3>1. c[i] = b[i + 1] /\ Reach(f, u, i) = Reach(e, t, i + 1) /\ b[i + 1] \in Int
      BY <1>c, <1>x, <1>9, <3>0
    <3>2. Reach(e, t, i + 1) \in 0 .. XSize /\ b[n] \in Int
      BY <1>1, <1>x, <3>0
    <3>3. CASE l = n /\ i + 1 = n
      BY <1>c, <3>1, <3>2, <3>3
    <3>4. CASE l = n /\ i + 1 # n
      <4>1. b[n] >= b[i + 1] + Reach(e, t, i + 1)
        BY <1>1, <1>m, <3>0, <3>4
      <4>2. PICK a \in Int, d \in Int, v \in 0 .. XSize :
              a = b[i + 1] /\ d = b[n] /\ v = Reach(e, t, i + 1)
        BY ONLY <3>1, <3>2
      <4>3. d \in Int /\ a \in Int /\ v \in Int /\ d >= a + v /\ XSize \in Nat
        BY <4>1, <4>2
      <4>4. d + XSize >= a + v
        BY ONLY <4>3
      <4>5. c[l] = d + XSize /\ c[i] = a /\ Reach(f, u, i) = v
        BY ONLY <1>c, <3>1, <3>4, <4>2
      <4> QED BY ONLY <4>4, <4>5
    <3>5. CASE l # n
      <4>1. l + 1 \in 1 .. n /\ l \in 1 .. n - 1 /\ i + 1 < l + 1
        BY <1>1, <2>2, <3>5
      <4>2. b[l + 1] >= b[i + 1] + Reach(e, t, i + 1)
        BY <1>m, <3>0, <4>1
      <4> QED BY <1>c, <3>1, <4>1, <4>2
    <3> QED BY <3>3, <3>4, <3>5
  <2> QED BY <1>5, <2>1, <2>2 DEF Numbers
<1>12. \A i \in t .. n : c[i] >= hi
  <2>0. t \in 1 .. n /\ t \in Int
    BY <1>1
  <2>1. b[t] \in Int /\ e[t].w \in 0 .. XSize /\ Reach(e, t, t) = XSize
    BY <1>x, <2>0 DEF Reach
  <2>2. b[n] \in Int /\ b[n] >= b[t]
    <3>1. CASE n = t
      BY <1>1, <1>x, <2>1, <3>1
    <3>2. CASE n # t
      <4>1. b[n] >= b[t] + XSize /\ b[n] \in Int
        BY <1>1, <1>x, <1>m, <2>1, <3>2
      <4> QED BY <2>1, <4>1
    <3> QED BY <3>1, <3>2
  <2>3. c[n] >= hi
    <3>1. PICK v \in Int, a \in Int, d \in Int : v = e[t].w /\ a = b[t] /\ d = b[n]
      BY ONLY <2>1, <2>2
    <3>2. /\ v <= XSize /\ d >= a /\ XSize \in Nat
          /\ v \in Int /\ a \in Int /\ d \in Int
      BY <2>1, <2>2, <3>1
    <3>3. d + XSize >= a + v
      BY ONLY <3>2
    <3>4. c[n] = d + XSize /\ hi = a + v
      BY ONLY <1>b, <1>c, <3>1
    <3> QED BY ONLY <3>3, <3>4
  <2>4. ASSUME NEW i \in t .. n - 1 PROVE c[i] >= hi
    <3>1. i \in 1 .. n - 1 /\ i + 1 \in 1 .. n /\ t < i + 1 /\ t \in 1 .. n
      BY <1>1
    <3>2. b[i + 1] >= b[t] + XSize /\ b[i + 1] \in Int /\ c[i] = b[i + 1]
      BY <1>c, <1>x, <1>m, <2>1, <3>1
    <3>3. PICK v \in Int, a \in Int, d \in Int : v = e[t].w /\ a = b[t] /\ d = b[i + 1]
      BY ONLY <2>1, <3>2
    <3>4. /\ v <= XSize /\ d >= a + XSize /\ XSize \in Nat
          /\ v \in Int /\ a \in Int /\ d \in Int
      BY <2>1, <3>2, <3>3
    <3>5. d >= a + v
      BY ONLY <3>4
    <3>6. c[i] = d /\ hi = a + v
      BY ONLY <1>b, <3>2, <3>3
    <3> QED BY ONLY <3>5, <3>6
  <2> QED BY <1>1, <2>3, <2>4
<1>13. Holds(f, u, c, hi)
  <2> SUFFICES ASSUME NEW i \in 1 .. n, NEW j \in Places, f[i].r <= j,
                      j < Reach(f, u, i), c[i] + j < hi
               PROVE  f[i].data[j] = c[i] + j
    BY <1>5 DEF Holds
  <2>0. j \in Int /\ 0 <= j /\ i \in Int /\ c[i] \in Int /\ c[i] + j < hi
    BY <1>1, <1>c DEF Places
  <2>1. i < t
    <3>1. ~(c[i] >= hi)
      BY ONLY <1>b, <2>0
    <3> QED BY <1>1, <1>12, <2>0, <3>1
  <2>2. i \in 1 .. u /\ i \in 1 .. n - 1 /\ i + 1 \in 1 .. n
    BY <1>1, <2>0, <2>1
  <2>3. f[i] = e[i + 1] /\ c[i] = b[i + 1] /\ Reach(f, u, i) = Reach(e, t, i + 1)
    BY <1>5, <1>c, <1>9, <2>2
  <2> QED BY <2>2, <2>3, ChainNumbers DEF n
<1>14. c[1] + f[1].r = b[1] + e[1].w /\ b[1] + e[1].w \in Int
  <2>1. 1 \in 1 .. n - 1 /\ 1 < t /\ 1 + 1 = 2
    BY <1>1
  <2>2. Reach(e, t, 1) = e[1].w
    BY <2>1 DEF Reach
  <2>3. c[1] = b[2] /\ b[2] = b[1] + e[1].w
    BY <1>c, <1>m, <2>1, <2>2
  <2>4. f[1].r = 0 /\ b[1] \in Int /\ e[1].w \in Int
    <3>1. 1 \in 1 .. n /\ XSize \in Nat
      BY <1>1
    <3> QED BY ONLY <1>x, <1>6, <3>1
  <2> QED BY <2>3, <2>4
<1>15. c[u] + f[u].w = hi /\ f[u].w = e[t].w
  <2>1. u \in 1 .. u /\ u \in 1 .. n - 1
    BY <1>1
  <2>2. f[u] = e[t] /\ c[u] = b[t]
    BY <1>1, <1>5, <1>c, <2>1
  <2> QED BY <1>b, <2>2
<1>16. Chain(f, u, c, b[1] + e[1].w, hi, hi)
  BY <1>b, <1>c, <1>5, <1>8, <1>11, <1>13, <1>14, <1>15 DEF Chain
<1> QED BY <1>c, <1>5, <1>15, <1>16 DEF n, u

\* The head is used up and starts again: it is the tail.
LEMMA ClearHead ==
    ASSUME ConstantsOK, NEW e, NEW b, NEW lo, NEW hi,
           Chain(e, 1, b, lo, hi, hi), e[1].w = XSize,
           NEW f, Len(f) = Len(e), f \in Seq(Extents), f[1].r = 0, f[1].w = 0,
           \A i \in 2 .. Len(e) : f[i] = e[i]
    PROVE  \E c \in [1 .. Len(e) -> Int] : Chain(f, 1, c, b[1] + e[1].w, hi, hi)
<1> DEFINE n == Len(e)
           c == [i \in 1 .. n |-> b[i] + XSize]
<1>1. n \in Nat /\ 1 \in 1 .. n
  BY ChainType
<1>x. \A i \in 1 .. n : e[i].r <= e[i].w /\ b[i] \in Int /\ e[i].w \in 0 .. XSize
  BY ChainType
<1>b. hi \in Int /\ b[1] + XSize = hi
  BY ChainType
<1>s. \A i \in 2 .. n : e[i].r = 0 /\ e[i].w = 0
  BY ChainShape
<1>2. Len(f) = n /\ \A i \in 2 .. n : f[i] = e[i]
  OBVIOUS
<1> HIDE DEF n
<1>r. \A i \in 1 .. n : Reach(e, 1, i) = XSize /\ Reach(f, 1, i) = XSize
  BY <1>1 DEF Reach
<1>m. /\ \A i \in 1 .. n - 1 : b[i + 1] = b[i] + XSize
      /\ \A i, l \in 1 .. n : i < l => b[l] >= b[i] + XSize
  <2>1. /\ \A i \in 1 .. n - 1 : b[i + 1] = b[i] + Reach(e, 1, i)
        /\ \A i, l \in 1 .. n : i < l => b[l] >= b[i] + Reach(e, 1, i)
    BY ChainNumbers DEF n
  <2> QED BY <1>1, <1>r, <2>1
<1>c. /\ c \in [1 .. n -> Int]
      /\ \A i \in 1 .. n : c[i] = b[i] + XSize /\ c[i] \in Int
  BY <1>x
<1> HIDE DEF c
<1>3. Shape(f, 1)
  <2>1. \A i \in 1 .. n : f[i].r <= f[i].w
    <3>1. \A i \in 1 .. n : i = 1 \/ i \in 2 .. n
      BY <1>1
    <3> QED BY <1>2, <1>s, <3>1
  <2>2. ~dead(f[1])
    BY DEF dead, readable, writable
  <2>3. \A i \in 2 .. n : f[i].r = 0
    BY <1>2, <1>s
  <2>4. \A i \in 1 + 1 .. n : f[i].w = 0
    BY <1>2, <1>s
  <2> QED BY <1>1, <1>2, <2>1, <2>2, <2>3, <2>4 DEF Shape
<1>4. Numbers(f, 1, c)
  <2>1. ASSUME NEW i \in 1 .. n - 1 PROVE c[i + 1] = c[i] + Reach(f, 1, i)
    <3>1. i \in 1 .. n /\ i + 1 \in 1 .. n
      BY <1>1
    <3> QED BY <1>c, <1>m, <1>r, <1>x, <3>1
  <2>2. ASSUME NEW i \in 1 .. n, NEW l \in 1 .. n, i < l PROVE c[l] >= c[i] + Reach(f, 1, i)
    <3>1. b[l] >= b[i] + XSize /\ b[l] \in Int /\ b[i] \in Int
      BY <1>m, <1>x, <2>2
    <3>2. c[l] = b[l] + XSize /\ c[i] = b[i] + XSize /\ Reach(f, 1, i) = XSize
      BY <1>c, <1>r
    <3> QED BY <3>1, <3>2
  <2> QED BY <1>2, <2>1, <2>2 DEF Numbers
<1>5. Holds(f, 1, c, hi)
  <2> SUFFICES ASSUME NEW i \in 1 .. n, NEW j \in Places, c[i] + j < hi PROVE FALSE
    BY <1>2 DEF Holds
  <2>1. j \in Int /\ 0 <= j /\ c[i] + j < hi
    BY DEF Places
  <2>2. c[i] >= hi /\ c[i] \in Int
    <3>1. c[1] = hi /\ c[1] \in Int
      BY <1>1, <1>b, <1>c
    <3>2. CASE i = 1
      BY <3>1, <3>2
    <3>3. CASE i # 1
      <4>1. b[i] >= b[1] + XSize /\ b[i] \in Int /\ b[1] \in Int /\ c[i] = b[i] + XSize
        BY <1>1, <1>c, <1>m, <1>x, <3>3
      <4> QED BY <1>b, <4>1
    <3> QED BY <3>2, <3>3
  <2> QED BY ONLY <1>b, <2>1, <2>2
<1>6. c[1] + f[1].r = b[1] + e[1].w /\ b[1] + e[1].w \in Int /\ c[1] + f[1].w = hi
  BY <1>1, <1>b, <1>c, <1>x
<1>7. Chain(f, 1, c, b[1] + e[1].w, hi, hi)
  BY <1>b, <1>c, <1>2, <1>3, <1>4, <1>5, <1>6 DEF Chain
<1> QED BY <1>c, <1>7 DEF n

\* read() and discard() move past k elements of the head and retire it if it is used up.
LEMMA RetireChain ==
    ASSUME ConstantsOK, NEW e, NEW t, NEW b, NEW lo, NEW hi, Chain(e, t, b, lo, hi, hi),
           NEW g \in Seq(Extents), Len(g) = Len(e), g[1] \in Extents,
           e[1].r <= g[1].r, g[1].r <= e[1].w, g[1].w = e[1].w, g[1].data = e[1].data,
           \A i \in 2 .. Len(e) : g[i] = e[i],
           NEW f, f = Retire(g, t).ext, NEW u, u = Retire(g, t).tail
    PROVE  /\ Len(f) = Len(e)
           /\ \E c \in [1 .. Len(e) -> Int] : Chain(f, u, c, b[1] + g[1].r, hi, hi)
           /\ e[t].w < XSize => f[u].w = e[t].w
<1>0. ConstantsOK /\ Chain(e, t, b, lo, hi, hi)
  OBVIOUS
<1>1. /\ Len(e) \in Nat /\ t \in 1 .. Len(e) /\ t \in Nat /\ 1 \in 1 .. Len(e)
      /\ e \in Seq(Extents) /\ e # << >>
  BY ChainType
<1>x. /\ e[1].r \in Int /\ e[1].w \in 0 .. XSize /\ b[1] \in Int /\ b[1] + e[1].r = lo
      /\ b \in [1 .. Len(e) -> Int]
  BY <1>1, ChainType, ChainShape
<1>2. /\ g \in Seq(Extents) /\ Len(g) = Len(e) /\ g[1] \in Extents
      /\ e[1].r <= g[1].r /\ g[1].r <= e[1].w /\ g[1].w = e[1].w /\ g[1].data = e[1].data
      /\ g[1].r \in 0 .. XSize
      /\ \A i \in 2 .. Len(e) : g[i] = e[i]
  BY ExtentType
<1>3. f = Retire(g, t).ext /\ u = Retire(g, t).tail
  OBVIOUS
<1>4. dead(g[1]) => e[1].w = XSize /\ b[1] + e[1].w = b[1] + g[1].r
  BY <1>0, <1>2, <1>x DEF dead, readable, writable
<1>5. CASE ~dead(g[1])
  <2>1. f = g /\ u = t
    BY <1>3, <1>5 DEF Retire
  <2>2. Chain(g, t, b, b[1] + g[1].r, hi, hi) /\ g[t].w = e[t].w
    BY ONLY <1>0, <1>2, <1>5, KeepHead
  <2> QED BY <1>x, <1>2, <2>1, <2>2
<1>6. CASE dead(g[1]) /\ t # 1
  <2>1. f = _kill_head(g, t) /\ u = t - 1
    BY <1>3, <1>6 DEF Retire
  <2>2. clear(g[1]) \in Extents /\ clear(g[1]).r = 0 /\ clear(g[1]).w = 0
    BY <1>2, ClearType
  <2>3. f = [i \in 1 .. Len(e) |-> IF i < t THEN g[i + 1]
                                   ELSE IF i = t THEN clear(g[1]) ELSE g[i]]
    BY <1>2, <2>1 DEF _kill_head
  <2>4. \A i \in 1 .. t - 1 : f[i] = e[i + 1] /\ f[i] \in Extents
    <3> SUFFICES ASSUME NEW i \in 1 .. t - 1 PROVE f[i] = e[i + 1] /\ f[i] \in Extents
      OBVIOUS
    <3>1. i \in 1 .. Len(e) /\ i < t /\ i + 1 \in 2 .. Len(e) /\ i + 1 \in 1 .. Len(e)
      BY <1>1
    <3>2. f[i] = g[i + 1]
      BY <2>3, <3>1
    <3> QED BY <1>1, <1>2, <3>1, <3>2
  <2>5. \A i \in t .. Len(e) : f[i] \in Extents /\ f[i].r = 0 /\ f[i].w = 0
    <3> SUFFICES ASSUME NEW i \in t .. Len(e)
                 PROVE  f[i] \in Extents /\ f[i].r = 0 /\ f[i].w = 0
      OBVIOUS
    <3>1. i \in 1 .. Len(e) /\ ~(i < t)
      BY <1>1
    <3>2. CASE i = t
      BY <2>2, <2>3, <3>1, <3>2
    <3>3. CASE i # t
      <4>1. i \in t + 1 .. Len(e) /\ i \in 2 .. Len(e)
        BY <1>1, <3>3
      <4>2. f[i] = e[i]
        BY <1>2, <2>3, <3>1, <3>3, <4>1
      <4> QED BY <1>1, <3>1, <4>1, <4>2, ChainShape
    <3> QED BY <3>2, <3>3
  <2>6. f \in Seq(Extents) /\ Len(f) = Len(e)
    <3>1. \A i \in 1 .. Len(e) : i \in 1 .. t - 1 \/ i \in t .. Len(e)
      BY <1>1
    <3>2. DOMAIN f = 1 .. Len(e) /\ f = [i \in 1 .. Len(e) |-> f[i]]
      BY <2>3
    <3>3. f \in [1 .. Len(e) -> Extents]
      BY <2>4, <2>5, <3>1, <3>2
    <3> HIDE <2>3
    <3> QED BY ONLY <1>1, <3>3
  <2>7. /\ \E c \in [1 .. Len(e) -> Int] : Chain(f, t - 1, c, b[1] + e[1].w, hi, hi)
        /\ f[t - 1].w = e[t].w
    <3>1. /\ \A i \in 1 .. t - 1 : f[i] = e[i + 1]
          /\ \A i \in t .. Len(e) : f[i].r = 0 /\ f[i].w = 0
      BY ONLY <2>4, <2>5
    <3> QED BY ONLY <1>0, <1>6, <2>6, <3>1, KillHead
  <2> QED BY <1>4, <1>6, <2>1, <2>6, <2>7
<1>7. CASE dead(g[1]) /\ t = 1
  <2>1. f = [g EXCEPT ![1] = clear(g[1])] /\ u = 1
    BY <1>3, <1>7 DEF Retire
  <2>2. clear(g[1]) \in Extents /\ clear(g[1]).r = 0 /\ clear(g[1]).w = 0
    BY <1>2, ClearType
  <2>3. /\ f \in Seq(Extents) /\ Len(f) = Len(g) /\ f[1] = clear(g[1])
        /\ \A i \in 1 .. Len(g) : i # 1 => f[i] = g[i]
    BY ONLY <1>1, <1>2, <2>1, <2>2, SetExtent
  <2>4. \A i \in 2 .. Len(e) : f[i] = e[i]
    BY ONLY <1>1, <1>2, <2>3
  <2>5. Len(f) = Len(e) /\ f[1].r = 0 /\ f[1].w = 0 /\ f \in Seq(Extents)
    BY <1>2, <2>2, <2>3
  <2>6. Chain(e, 1, b, lo, hi, hi) /\ e[1].w = XSize
    BY <1>4, <1>7
  <2>7. \E c \in [1 .. Len(e) -> Int] : Chain(f, 1, c, b[1] + e[1].w, hi, hi)
    BY ONLY <1>0, <2>4, <2>5, <2>6, ClearHead
  <2> QED BY ONLY <1>4, <1>7, <1>x, <2>1, <2>5, <2>6, <2>7
<1> QED BY <1>5, <1>6, <1>7

-----------------------------------------------------------------------------
(* What the steps have in common.                                           *)

\* The producer has moved on from (e, t), numbered b, to (f, u), numbered c.
Grown(e, t, b, f, u, c) ==
    /\ Len(f) \in Nat /\ Len(e) <= Len(f) /\ t <= u /\ u \in Nat
    /\ \A i \in 1 .. Len(e) : /\ f[i].r = e[i].r /\ c[i] = b[i] /\ f[i].w \in Int
                              /\ e[i].w <= f[i].w /\ (i < t => f[i].w = e[i].w)

\* The places of the extents the consumer reads hold the elements of their number.
LEMMA ReadableData ==
    ASSUME ConstantsOK, NEW e, NEW t, NEW b, NEW lo, NEW hi, NEW top,
           Chain(e, t, b, lo, hi, top), NEW i \in 1 .. Len(e), e[i].w > 0
    PROVE  /\ i <= t /\ b[i] + e[i].w <= hi
           /\ \A j \in Places : e[i].r <= j /\ j < e[i].w => e[i].data[j] = b[i] + j
<1>1. Len(e) \in Nat /\ t \in 1 .. Len(e) /\ t \in Nat /\ i \in Nat
  BY ChainType
<1>2. /\ e[i].w \in 0 .. XSize /\ b[i] \in Int /\ b[t] \in Int /\ e[t].w \in 0 .. XSize
      /\ b[t] + e[t].w = hi /\ top \in Int /\ hi \in Int /\ hi <= top
  BY <1>1, ChainType
<1>3. i <= t
  <2>1. ASSUME ~(i <= t) PROVE FALSE
    <3>1. i \in t + 1 .. Len(e)
      BY <1>1, <2>1
    <3>2. e[i].w = 0
      BY <3>1, ChainShape
    <3> QED BY <3>2
  <2> QED BY <2>1
<1>4. b[i] + e[i].w <= hi
  <2>1. CASE i = t
    BY <1>2, <2>1
  <2>2. CASE i < t
    <3>1. b[t] >= b[i] + Reach(e, t, i)
      BY <1>1, <2>2, ChainNumbers
    <3>2. Reach(e, t, i) = e[i].w
      BY <2>2 DEF Reach
    <3> QED BY ONLY <1>2, <3>1, <3>2
  <2> QED BY <1>1, <1>3, <2>1, <2>2
<1>5. ASSUME NEW j \in Places, e[i].r <= j, j < e[i].w PROVE e[i].data[j] = b[i] + j
  <2>1. j \in Int /\ j < e[i].w
    BY <1>5 DEF Places
  <2>2. b[i] + j < top
    BY ONLY <1>2, <1>4, <2>1
  <2>3. e[i].w <= Reach(e, t, i) /\ Reach(e, t, i) \in Int
    BY <1>2 DEF Reach
  <2>4. j < Reach(e, t, i)
    BY ONLY <1>2, <2>1, <2>3
  <2> QED BY <1>5, <2>2, <2>4, ChainNumbers
<1> QED BY <1>3, <1>4, <1>5

\* _make_tail at the end of the list.
LEMMA GrowTail ==
    ASSUME ConstantsOK, NEW e, NEW t, NEW b, NEW lo, NEW hi,
           Chain(e, t, b, lo, hi, hi), t = Len(e)
    PROVE  \E c \in [1 .. Len(Append(e, NewExtent)) -> Int] :
              /\ Chain(Append(e, NewExtent), t + 1, c, lo, hi, hi)
              /\ Grown(e, t, b, Append(e, NewExtent), t + 1, c)
<1> DEFINE f == Append(e, NewExtent)
           c == [i \in 1 .. t + 1 |-> IF i <= t THEN b[i] ELSE hi]
<1>1. Len(e) \in Nat /\ t \in Nat /\ hi \in Int /\ e \in Seq(Extents)
  BY ChainType
<1>2. \A i \in 1 .. t : b[i] \in Int /\ e[i].w \in 0 .. XSize
  BY ChainType
<1>3. Len(f) = t + 1 /\ \A i \in 1 .. t : f[i] = e[i]
  BY <1>1
<1>4. /\ c \in [1 .. t + 1 -> Int]
      /\ \A i \in 1 .. t : c[i] = b[i]
  BY <1>1, <1>2
<1>5. Chain(f, t + 1, c, lo, hi, hi)
  BY GrowChain
<1> HIDE DEF f, c
<1>6. Grown(e, t, b, f, t + 1, c)
  BY <1>1, <1>2, <1>3, <1>4 DEF Grown
<1> QED BY <1>3, <1>4, <1>5, <1>6 DEF f

\* The ranges a write function holds stay good while the producer moves on.
LEMMA CallKept ==
    ASSUME ConstantsOK, NEW b, NEW c, NEW lo, NEW hi, NEW top, Chain(ext, tail, b, lo, hi, top),
           CallInv(b), Grown(ext, tail, b, ext', tail', c), call' = call, sink' = sink
    PROVE  CallInv(c)'
<1>1. call \in [lens : Seq(Nat), i : Nat, off : Nat, n : Nat, all : BOOLEAN]
  BY DEF CallInv
<1> SUFFICES ASSUME call # NoCall
             PROVE  /\ Len(call.lens) <= Len(ext')
                    /\ call.i \in 1 .. Len(call.lens) /\ call.off < call.lens[call.i]
                    /\ \A i \in 1 .. Len(call.lens) : call.lens[i] <= ext'[i].w - ext'[i].r
                    /\ \A i, k \in 1 .. Len(call.lens) :
                          i < k /\ call.lens[k] > 0
                          => i < tail' /\ call.lens[i] = ext'[i].w - ext'[i].r
                    /\ Len(sink) = c[call.i] + ext'[call.i].r + call.off
  BY <1>1 DEF CallInv, NoCall
<1>2. /\ Len(call.lens) <= Len(ext)
      /\ call.i \in 1 .. Len(call.lens) /\ call.off < call.lens[call.i]
      /\ \A i \in 1 .. Len(call.lens) : call.lens[i] <= ext[i].w - ext[i].r
      /\ \A i, k \in 1 .. Len(call.lens) :
            i < k /\ call.lens[k] > 0 => i < tail /\ call.lens[i] = ext[i].w - ext[i].r
      /\ Len(sink) = b[call.i] + ext[call.i].r + call.off
  BY DEF CallInv
<1>3. Len(call.lens) \in Nat /\ \A i \in 1 .. Len(call.lens) : call.lens[i] \in Nat
  BY <1>1
<1>4. Len(ext) \in Nat /\ tail \in Nat
  BY ChainType
<1>5. \A i \in 1 .. Len(ext) : ext[i].w \in Int /\ ext[i].r \in Int
  BY ChainType
<1>6. /\ Len(ext') \in Nat /\ Len(ext) <= Len(ext') /\ tail <= tail' /\ tail' \in Nat
      /\ \A i \in 1 .. Len(ext) : /\ ext'[i].r = ext[i].r /\ c[i] = b[i] /\ ext'[i].w \in Int
                                  /\ ext[i].w <= ext'[i].w /\ (i < tail => ext'[i].w = ext[i].w)
  BY DEF Grown
<1>7. \A i \in 1 .. Len(call.lens) : i \in 1 .. Len(ext) /\ i \in Nat
  BY <1>2, <1>3, <1>4
<1>8. Len(call.lens) <= Len(ext') /\ call.i \in 1 .. Len(call.lens) /\ call.off < call.lens[call.i]
  BY <1>2, <1>3, <1>4, <1>6
<1>9. Len(sink) = c[call.i] + ext'[call.i].r + call.off
  BY <1>2, <1>6, <1>7
<1>10. ASSUME NEW i \in 1 .. Len(call.lens), NEW k \in 1 .. Len(call.lens),
              i < k /\ call.lens[k] > 0
       PROVE  i < tail' /\ call.lens[i] = ext'[i].w - ext'[i].r
  <2>1. i < tail /\ call.lens[i] = ext[i].w - ext[i].r
    BY <1>2, <1>10
  <2>2. ext'[i].w = ext[i].w /\ ext'[i].r = ext[i].r
    BY <1>6, <1>7, <2>1
  <2>3. i < tail'
    BY <1>4, <1>6, <1>7, <2>1
  <2> QED BY <2>1, <2>2, <2>3
<1>11. ASSUME NEW i \in 1 .. Len(call.lens) PROVE call.lens[i] <= ext'[i].w - ext'[i].r
  <2>1. i \in 1 .. Len(ext)
    BY <1>7
  <2>2. call.lens[i] <= ext[i].w - ext[i].r /\ call.lens[i] \in Nat
    BY <1>2, <1>3
  <2>3. ext[i].w <= ext'[i].w /\ ext'[i].r = ext[i].r /\ ext[i].w \in Int /\ ext[i].r \in Int
    BY <1>5, <1>6, <2>1
  <2>4. ext'[i].w \in Int
    BY <1>6, <2>1
  <2> QED BY ONLY <2>2, <2>3, <2>4
<1> QED BY <1>8, <1>9, <1>10, <1>11

\* The state in an invariant that the steps start from.
LEMMA PartsType ==
    ASSUME ConstantsOK, NEW b, Parts(b)
    PROVE  /\ Chain(ext, tail, b, Len(sink) - Undiscarded, in, in + Uncommitted)
           /\ in \in 0 .. Total /\ in \in Int /\ sink \in Seq(Int) /\ Len(sink) \in Nat
           /\ loop.op \in {"none", "write", "fill", "commit", "read", "discard"}
           /\ loop.left \in Nat /\ loop.i \in Nat
           /\ call.n \in Nat /\ call.i \in Nat /\ call.off \in Nat
           /\ SinkInv /\ LentInv /\ LoopInv(b) /\ CallInv(b)
BY DEF Parts, SinkInv, LoopInv, CallInv

\* The loop that a call begins with.
LEMMA LoopIs ==
    ASSUME NEW op \in {"write", "commit", "read", "discard"}, NEW n \in Nat
    PROVE  /\ n = 0 => Loop(op, n) = NoLoop
           /\ n # 0 => /\ Loop(op, n).op = op /\ Loop(op, n).left = n
                       /\ Loop(op, n) \in [op : {"none", "write", "fill", "commit", "read",
                                                 "discard"}, left : Nat, i : Nat]
           /\ NoLoop \in [op : {"none", "write", "fill", "commit", "read", "discard"},
                          left : Nat, i : Nat]
           /\ NoLoop.op = "none" /\ NoLoop.left = 0
BY DEF Loop, NoLoop

\* The loop after a turn: it has ended, or n elements are left.
LoopAt(l, op, n) ==
    /\ l \in [op : {"none", "write", "fill", "commit", "read", "discard"}, left : Nat, i : Nat]
    /\ l.op \in {"none", op} /\ (l.op = "none" => l = NoLoop)
    /\ (l.op # "none" => l.left > 0) /\ l.left = n

\* A loop of the code after a turn that leaves n elements.
LEMMA LoopGoesOn ==
    ASSUME NEW op \in {"write", "commit", "read", "discard"}, NEW n \in Nat
    PROVE  LoopAt(Loop(op, n), op, n)
BY DEF Loop, NoLoop, LoopAt

\* What a turn moves: no more than is left, and no more than there is.
LEMMA LeastOf ==
    ASSUME NEW n \in Nat, NEW m \in Nat, NEW k, k = Least(n, m)
    PROVE  k \in Nat /\ k <= n /\ k <= m /\ n - k \in Nat
BY DEF Least

\* Nothing is uncommitted.
LEMMA PlusNone ==
    ASSUME NEW x \in Int, NEW y, y = 0
    PROVE  x + y = x
OBVIOUS

\* write() begins.
LEMMA WriteInv ==
    ASSUME ConstantsOK, IndInv, NEW n \in Counts, Write(n)
    PROVE  IndInv'
<1>1. PICK b \in [1 .. Len(ext) -> Int] : Parts(b)
  BY DEF IndInv
<1>2. /\ loop = NoLoop /\ lent = NotLent /\ in + n <= Total /\ loop' = Loop("write", n)
      /\ UNCHANGED <<ext, tail, in, sink, lent, call>>
  BY DEF Write, MayPut
<1>3. n \in Nat /\ n # 0
  BY DEF Counts
<1>4. loop' \in [op : {"none", "write", "fill", "commit", "read", "discard"}, left : Nat, i : Nat]
      /\ loop'.op = "write" /\ loop'.left = n /\ loop.op = "none" /\ loop.left = 0
  BY <1>2, <1>3, LoopIs
<1>5. Undiscarded' = Undiscarded /\ Uncommitted' = Uncommitted
  BY <1>2, <1>4 DEF Undiscarded, Uncommitted
<1>6. Chain(ext', tail', b, Len(sink') - Undiscarded', in', in' + Uncommitted')
  BY <1>1, <1>2, <1>5 DEF Parts
<1>7. SinkInv' /\ CallInv(b)'
  BY <1>1, <1>2 DEF Parts, SinkInv, CallInv, ElementsInOrder
<1>8. LentInv'
  BY <1>1, <1>2, <1>4 DEF Parts, LentInv
<1>9. LoopInv(b)'
  BY <1>2, <1>3, <1>4 DEF LoopInv
<1> QED BY <1>1, <1>2, <1>6, <1>7, <1>8, <1>9 DEF IndInv, Parts

\* Chains that the producer leaves as they are have not shrunk.
LEMMA GrownSame ==
    ASSUME ConstantsOK, NEW e, NEW t, NEW b, NEW lo, NEW hi, NEW top,
           Chain(e, t, b, lo, hi, top), NEW f, NEW u \in Nat,
           Len(f) = Len(e), t <= u,
           \A i \in 1 .. Len(e) : f[i].r = e[i].r /\ f[i].w = e[i].w
    PROVE  Grown(e, t, b, f, u, b)
<1>1. Len(e) \in Nat /\ t \in Nat /\ \A i \in 1 .. Len(e) : e[i].w \in Int
  BY ChainType
<1>2. \A i \in 1 .. Len(e) : f[i].w \in Int /\ e[i].w <= f[i].w
  BY <1>1
<1> QED BY <1>1, <1>2 DEF Grown


\* The tail takes the source's next elements, up to place q.
LEMMA PutChain ==
    ASSUME ConstantsOK, NEW e, NEW t, NEW c, NEW lo, NEW hi, Chain(e, t, c, lo, hi, hi),
           NEW q \in Int, e[t].w <= q, q <= XSize,
           NEW f \in Seq(Extents), Len(f) = Len(e), f[t].r = e[t].r, f[t].w = q,
           f[t].data = Fill(e[t], e[t].w, q, hi).data,
           \A i \in 1 .. Len(e) : i # t => f[i] = e[i]
    PROVE  Chain(f, t, c, lo, c[t] + q, c[t] + q)
<1> DEFINE x == Fill(e[t], e[t].w, q, hi)
           g == [e EXCEPT ![t] = x]
<1>0. ConstantsOK /\ Chain(e, t, c, lo, hi, hi)
  OBVIOUS
<1>1. /\ Len(e) \in Nat /\ t \in Nat /\ t \in 1 .. Len(e) /\ t \in t .. Len(e) /\ hi \in Int
      /\ e \in Seq(Extents) /\ e[t] \in Extents
  BY ChainType
<1>v. PICK v \in Int : v = e[t].w
  BY <1>1, ChainType
<1>n. /\ v \in Int /\ q \in Int /\ v <= q /\ q <= XSize /\ c[t] + v = hi /\ c[t] \in Int
      /\ XSize \in Nat /\ hi \in Int
  BY <1>1, <1>v, ChainType
<1>f. /\ x = Fill(e[t], v, q, hi)
      /\ f \in Seq(Extents) /\ Len(f) = Len(e)
      /\ f[t].r = e[t].r /\ f[t].data = x.data /\ f[t].w = q
      /\ \A i \in 1 .. Len(e) : i # t => f[i] = e[i]
  BY <1>v
<1> HIDE DEF x
<1>2. x \in Extents /\ x.r = e[t].r /\ x.w = e[t].w
  BY ONLY <1>0, <1>1, <1>n, <1>f, FillType
<1>3. /\ g \in Seq(Extents) /\ Len(g) = Len(e) /\ g[t] = x
      /\ \A i \in 1 .. Len(e) : i # t => g[i] = e[i]
  BY ONLY <1>1, <1>2, SetExtent
<1> HIDE DEF g
<1>4. Chain(g, t, c, lo, hi, c[t] + q)
  <2>1. PICK z \in Int : z = hi + (q - v) /\ z = c[t] + q
    BY ONLY <1>n
  <2>2. Fits(e[t], c[t], v, q, hi, z)
    BY ONLY <1>n, <1>v, <2>1 DEF Fits, writable
  <2>3. t \in t .. Len(e) /\ Replaced(e, g, t, Fill(e[t], v, q, hi))
    BY ONLY <1>1, <1>3, <1>f DEF Replaced
  <2>4. Chain(g, t, c, lo, hi, z)
    BY ONLY <1>0, <2>2, <2>3, FillNext
  <2> QED BY ONLY <2>1, <2>4
<1>5. /\ Len(f) = Len(g) /\ f[t].r = g[t].r /\ f[t].data = g[t].data
      /\ \A i \in 1 .. Len(g) : i # t => f[i] = g[i]
  BY ONLY <1>2, <1>3, <1>f
<1>6. g[t].w <= f[t].w /\ c[t] + f[t].w = c[t] + q /\ c[t] + f[t].w <= c[t] + q
  <2>1. g[t].w = v /\ f[t].w = q
    BY ONLY <1>2, <1>3, <1>v, <1>f
  <2> QED BY ONLY <1>n, <2>1
<1>7. Chain(f, t, c, lo, c[t] + f[t].w, c[t] + q)
  BY ONLY <1>0, <1>f, <1>4, <1>5, <1>6, AdvanceWrite
<1> QED BY ONLY <1>6, <1>7

\* The list in which write() puts its next elements, and the elements it puts there.
LEMMA WriteTail ==
    ASSUME ConstantsOK, NEW e, NEW t, NEW b, NEW lo, NEW hi, Chain(e, t, b, lo, hi, hi),
           NEW f, NEW u,
           f = IF writable(e[t]) # 0 \/ t < Len(e) THEN e ELSE Append(e, NewExtent),
           u = IF writable(e[t]) = 0 THEN t + 1 ELSE t
    PROVE  \E c \in [1 .. Len(f) -> Int] : Chain(f, u, c, lo, hi, hi) /\ Grown(e, t, b, f, u, c)
<1>0. ConstantsOK /\ Chain(e, t, b, lo, hi, hi)
  OBVIOUS
<1>1. Len(e) \in Nat /\ t \in 1 .. Len(e) /\ t \in Nat /\ b \in [1 .. Len(e) -> Int]
  BY ChainType, ChainShape
<1>2. \A i \in 1 .. Len(e) : e[i].r = e[i].r /\ e[i].w = e[i].w
  OBVIOUS
<1>3. CASE writable(e[t]) # 0
  <2>1. f = e /\ u = t /\ t <= t
    BY <1>1, <1>3
  <2>2. Grown(e, t, b, e, t, b)
    BY ONLY <1>0, <1>1, <1>2, <2>1, GrownSame
  <2> QED BY ONLY <1>0, <1>1, <2>1, <2>2
<1>4. CASE writable(e[t]) = 0 /\ t < Len(e)
  <2>1. f = e /\ u = t + 1
    BY <1>4
  <2>2. t + 1 \in Nat /\ t <= t + 1
    BY <1>1
  <2>3. Grown(e, t, b, e, t + 1, b)
    BY ONLY <1>0, <1>2, <2>2, GrownSame
  <2>4. Chain(e, t + 1, b, lo, hi, hi)
    BY ONLY <1>0, <1>4, NextExtent
  <2> QED BY ONLY <1>1, <2>1, <2>3, <2>4
<1>5. CASE writable(e[t]) = 0 /\ ~(t < Len(e))
  <2>1. f = Append(e, NewExtent) /\ u = t + 1 /\ t = Len(e)
    BY <1>1, <1>5
  <2> QED BY ONLY <1>0, <2>1, GrowTail
<1> QED BY ONLY <1>3, <1>4, <1>5

\* Growing in two steps.
LEMMA GrownTwice ==
    ASSUME NEW e, NEW t \in Nat, NEW b, NEW f, NEW u, NEW c, NEW g, Len(e) \in Nat,
           \A i \in 1 .. Len(e) : e[i].w \in Int,
           Grown(e, t, b, f, u, c), Len(g) = Len(f),
           \A i \in 1 .. Len(f) : g[i].r = f[i].r /\ (i # u => g[i].w = f[i].w),
           g[u].w \in Int, f[u].w <= g[u].w
    PROVE  Grown(e, t, b, g, u, c)
<1>1. /\ Len(f) \in Nat /\ Len(e) <= Len(f) /\ t <= u /\ u \in Nat
      /\ \A i \in 1 .. Len(e) : /\ f[i].r = e[i].r /\ c[i] = b[i] /\ f[i].w \in Int
                                /\ e[i].w <= f[i].w /\ (i < t => f[i].w = e[i].w)
  BY DEF Grown
<1>2. ASSUME NEW i \in 1 .. Len(e)
      PROVE  /\ g[i].r = e[i].r /\ c[i] = b[i] /\ g[i].w \in Int
             /\ e[i].w <= g[i].w /\ (i < t => g[i].w = e[i].w)
  <2>1. i \in 1 .. Len(f) /\ i \in Nat
    BY <1>1
  <2>2. CASE i = u
    <3>1. ~(i < t)
      BY <1>1, <2>2
    <3>2. e[i].w \in Int /\ f[i].w \in Int /\ g[i].w \in Int /\ e[i].w <= f[i].w /\ f[i].w <= g[i].w
      BY <1>1, <2>2
    <3>3. e[i].w <= g[i].w
      BY ONLY <3>2
    <3> QED BY <1>1, <2>1, <3>1, <3>2, <3>3
  <2>3. CASE i # u
    BY <1>1, <2>1, <2>3
  <2> QED BY <2>2, <2>3
<1> QED BY <1>1, <1>2 DEF Grown

\* One turn of the loop of write().
LEMMA WriteChunkInv ==
    ASSUME ConstantsOK, IndInv, WriteChunk
    PROVE  IndInv'
<1>1. PICK b \in [1 .. Len(ext) -> Int] : Parts(b)
  BY DEF IndInv
<1> DEFINE f == IF writable(ext[tail]) # 0 \/ tail < Len(ext) THEN ext ELSE Append(ext, NewExtent)
           u == IF writable(ext[tail]) = 0 THEN tail + 1 ELSE tail
           k == Least(loop.left, writable(f[u]))
           w == f[u].w
           lo == Len(sink) - Undiscarded
<1>2. /\ loop.op = "write" /\ tail' = u /\ in' = in + k /\ loop' = Loop("write", loop.left - k)
      /\ ext' = [f EXCEPT ![u] = [Fill(f[u], w, w + k, in) EXCEPT !.w = w + k]]
      /\ sink' = sink /\ lent' = lent /\ call' = call
  BY DEF WriteChunk, _make_tail
<1>0. ConstantsOK
  OBVIOUS
<1>t. /\ in \in 0 .. Total /\ in \in Int /\ sink \in Seq(Int) /\ Len(sink) \in Nat
      /\ loop.left \in Nat /\ loop.left > 0 /\ in + loop.left <= Total /\ Total \in Nat
  BY <1>1, <1>2, PartsType DEF LoopInv
<1>3. Chain(ext, tail, b, lo, in, in)
  <2>1. in + Uncommitted = in
    BY <1>2, <1>t DEF Uncommitted
  <2> QED BY <1>1, <2>1 DEF Parts
<1> HIDE DEF lo
<1>4. PICK c \in [1 .. Len(f) -> Int] : Chain(f, u, c, lo, in, in) /\ Grown(ext, tail, b, f, u, c)
  BY ONLY <1>0, <1>3, WriteTail
<1> HIDE DEF f, u
<1>5. u \in 1 .. Len(f) /\ u \in Nat /\ w \in 0 .. XSize /\ Len(f) \in Nat
  BY ONLY <1>0, <1>4, ChainType
<1>6. k \in Nat /\ k <= writable(f[u]) /\ k <= loop.left
  <2>1. PICK n \in Nat : n = loop.left
    BY ONLY <1>t
  <2>2. PICK m \in Nat : m = writable(f[u])
    BY ONLY <1>0, <1>5 DEF writable
  <2>3. k = Least(n, m)
    BY ONLY <2>1, <2>2
  <2> HIDE DEF k
  <2> QED BY ONLY <2>1, <2>2, <2>3, LeastOf
<1> HIDE DEF w, k
<1>7. /\ Chain(ext', u, c, lo, in + k, in + k)
      /\ Len(ext') = Len(f) /\ ext'[u].w = w + k
      /\ \A i \in 1 .. Len(f) : ext'[i].r = f[i].r /\ (i # u => ext'[i].w = f[i].w)
  <2>w. w = f[u].w /\ w \in Int
    BY <1>5 DEF w
  <2>q. PICK q \in Int : q = w + k
    BY ONLY <1>6, <2>w
  <2>1. q \in 0 .. XSize /\ q \in Int /\ f[u].w <= q /\ q <= XSize
    BY ONLY <1>0, <1>5, <1>6, <2>w, <2>q DEF writable
  <2> DEFINE x == Fill(f[u], f[u].w, q, in)
             y == [x EXCEPT !.w = q]
  <2>2. ext' = [f EXCEPT ![u] = y]
    BY ONLY <1>2, <2>w, <2>q
  <2>3. f \in Seq(Extents) /\ f[u] \in Extents /\ f[u].w \in Int
    BY ONLY <1>0, <1>4, <1>5, <2>w, ChainType
  <2>4. x \in Extents /\ x.r = f[u].r /\ x.data = Fill(f[u], f[u].w, q, in).data
    BY ONLY <1>0, <1>t, <2>1, <2>3, FillType
  <2> HIDE DEF x
  <2>5. y \in Extents /\ y.w = q /\ y.r = x.r /\ y.data = x.data
    BY ONLY <2>1, <2>4, MoveWrite
  <2> HIDE DEF y
  <2>6. /\ ext' \in Seq(Extents) /\ Len(ext') = Len(f) /\ ext'[u] = y
        /\ \A i \in 1 .. Len(f) : i # u => ext'[i] = f[i]
    BY ONLY <1>5, <2>2, <2>3, <2>5, SetExtent
  <2>7. /\ ConstantsOK /\ Chain(f, u, c, lo, in, in)
        /\ ext'[u].r = f[u].r /\ ext'[u].w = q
        /\ ext'[u].data = Fill(f[u], f[u].w, q, in).data
        /\ ext' \in Seq(Extents) /\ Len(ext') = Len(f)
        /\ \A i \in 1 .. Len(f) : i # u => ext'[i] = f[i]
    BY ONLY <1>0, <1>4, <2>4, <2>5, <2>6
  <2>8. Chain(ext', u, c, lo, c[u] + q, c[u] + q)
    BY ONLY <2>1, <2>7, PutChain
  <2>9. c[u] + q = in + k
    <3>1. c[u] + f[u].w = in /\ c[u] \in Int
      BY ONLY <1>0, <1>4, <1>5, ChainType
    <3> QED BY ONLY <1>6, <2>w, <2>q, <3>1
  <2>10. \A i \in 1 .. Len(f) : ext'[i].r = f[i].r /\ (i # u => ext'[i].w = f[i].w)
    BY ONLY <2>7
  <2> QED BY ONLY <2>q, <2>6, <2>7, <2>8, <2>9, <2>10
<1>8. Grown(ext, tail, b, ext', tail', c)
  <2>1. tail \in Nat /\ Len(ext) \in Nat /\ \A i \in 1 .. Len(ext) : ext[i].w \in Int
    BY ONLY <1>0, <1>3, ChainType
  <2>2. ext'[u].w \in Int /\ f[u].w <= ext'[u].w
    BY ONLY <1>0, <1>5, <1>6, <1>7 DEF w
  <2>3. Grown(ext, tail, b, ext', u, c)
    BY ONLY <1>4, <1>7, <2>1, <2>2, GrownTwice
  <2> QED BY ONLY <1>2, <2>3
<1>9. CallInv(c)'
  <2>1. CallInv(b)
    BY <1>1 DEF Parts
  <2> QED BY ONLY <1>0, <1>2, <1>3, <1>8, <2>1, CallKept
<1>10. /\ loop' = Loop("write", loop.left - k) /\ loop.left - k \in Nat
       /\ in' + (loop.left - k) <= Total /\ in' \in 0 .. Total /\ in <= in' /\ in' \in Int
  <2>1. PICK n \in Nat, v \in Int : n = loop.left /\ v = in
    BY ONLY <1>t
  <2>2. k \in Nat /\ k <= n /\ 0 <= v /\ v + n <= Total
    BY ONLY <1>6, <1>t, <2>1
  <2>3. /\ n - k \in Nat /\ v + k + (n - k) = v + n /\ v + k \in 0 .. Total /\ v <= v + k
        /\ v + k \in Int
    BY ONLY <1>0, <2>1, <2>2
  <2> QED BY ONLY <1>2, <2>1, <2>2, <2>3
<1>11. /\ loop' \in [op : {"none", "write", "fill", "commit", "read", "discard"},
                     left : Nat, i : Nat]
       /\ loop'.op \in {"none", "write"} /\ (loop'.op = "none" => loop' = NoLoop)
       /\ (loop'.op # "none" => loop'.left > 0) /\ loop'.left = loop.left - k
  <2>1. PICK n \in Nat : n = loop.left - k
    BY ONLY <1>10
  <2>2. loop' = Loop("write", n)
    BY ONLY <1>10, <2>1
  <2>3. n \in Nat
    BY ONLY <2>1
  <2>4. LoopAt(loop', "write", n)
    BY ONLY <2>2, <2>3, LoopGoesOn
  <2> QED BY ONLY <2>1, <2>4 DEF LoopAt
<1>12. LoopInv(c)'
  BY ONLY <1>10, <1>11 DEF LoopInv
<1>13. LentInv'
  <2>1. lent = NotLent
    BY <1>1, <1>2 DEF Parts, LentInv
  <2>2. lent' = NotLent
    BY <1>2, <2>1
  <2> QED BY ONLY <1>0, <2>2 DEF LentInv, NotLent
<1>14. SinkInv'
  <2>1. SinkInv
    BY <1>1 DEF Parts
  <2> QED BY ONLY <1>2, <1>10, <1>t, <2>1 DEF SinkInv, ElementsInOrder
<1>15. Chain(ext', tail', c, Len(sink') - Undiscarded', in', in' + Uncommitted')
  <2>1. Undiscarded' = Undiscarded /\ Uncommitted' = 0
    BY ONLY <1>2, <1>11 DEF Undiscarded, Uncommitted
  <2>2. in' \in Int
    BY ONLY <1>10
  <2>3. in' + Uncommitted' = in'
    BY ONLY <2>1, <2>2, PlusNone
  <2> QED BY ONLY <1>2, <1>7, <2>1, <2>3 DEF lo
<1>16. c \in [1 .. Len(ext') -> Int]
  BY ONLY <1>4, <1>7
<1> QED BY ONLY <1>9, <1>12, <1>13, <1>14, <1>15, <1>16 DEF IndInv, Parts

\* writable_ranges() moves the tail on, or does not.
LEMMA MinFree ==
    ASSUME ConstantsOK, NEW b, NEW lo, NEW hi, Chain(ext, tail, b, lo, hi, hi), _ensure_minfree
    PROVE  \E c \in [1 .. Len(ext') -> Int] :
              Chain(ext', tail', c, lo, hi, hi) /\ Grown(ext, tail, b, ext', tail', c)
<1>0. ConstantsOK /\ Chain(ext, tail, b, lo, hi, hi)
  OBVIOUS
<1>1. CASE MustGrow
  <2>1. tail = Len(ext) /\ tail' = tail + 1 /\ ext' = Append(ext, NewExtent)
    <3>1. Len(ext) \in Nat
      BY ChainType
    <3> QED BY <1>1, <3>1 DEF _ensure_minfree, MustGrow, _make_tail
  <2> QED BY ONLY <1>0, <2>1, GrowTail
<1>2. CASE ~MustGrow
  <2>1. tail' = tail /\ ext' = ext
    BY <1>2 DEF _ensure_minfree
  <2>2. tail \in Nat /\ b \in [1 .. Len(ext) -> Int]
    BY ChainType, ChainShape
  <2>3. tail <= tail /\ \A i \in 1 .. Len(ext) : ext[i].r = ext[i].r /\ ext[i].w = ext[i].w
    BY <2>2
  <2>4. Grown(ext, tail, b, ext, tail, b)
    BY ONLY <1>0, <2>2, <2>3, GrownSame
  <2> QED BY ONLY <1>0, <2>1, <2>2, <2>4
<1> QED BY <1>1, <1>2

\* A call of the producer that begins with writable_ranges().
LEMMA RangesStart ==
    ASSUME ConstantsOK, IndInv, MayPut, _ensure_minfree, UNCHANGED <<in, sink, call>>,
           loop'.op \in {"none", "fill"}, loop'.left = 0
    PROVE  \E c \in [1 .. Len(ext') -> Int] :
              /\ Chain(ext', tail', c, Len(sink') - Undiscarded', in', in' + Uncommitted')
              /\ Chain(ext', tail', c, Len(sink') - Undiscarded', in', in')
              /\ SinkInv' /\ CallInv(c)' /\ in' \in 0 .. Total /\ in' \in Int /\ Total \in Nat
<1>1. PICK b \in [1 .. Len(ext) -> Int] : Parts(b)
  BY DEF IndInv
<1> DEFINE lo == Len(sink) - Undiscarded
<1>0. ConstantsOK /\ _ensure_minfree
  OBVIOUS
<1>2. loop.op = "none" /\ in' = in /\ sink' = sink /\ call' = call
  BY DEF MayPut, NoLoop
<1>t. in \in 0 .. Total /\ in \in Int /\ Total \in Nat
  BY <1>1, PartsType
<1>3. Undiscarded' = Undiscarded /\ Uncommitted' = 0 /\ Uncommitted = 0
  BY <1>2 DEF Undiscarded, Uncommitted
<1>4. Chain(ext, tail, b, lo, in, in)
  <2>1. in + Uncommitted = in
    BY ONLY <1>t, <1>3, PlusNone
  <2> QED BY <1>1, <2>1 DEF Parts
<1> HIDE DEF lo
<1>5. PICK c \in [1 .. Len(ext') -> Int] :
         Chain(ext', tail', c, lo, in, in) /\ Grown(ext, tail, b, ext', tail', c)
  BY ONLY <1>0, <1>4, MinFree
<1>6. CallInv(c)'
  <2>1. CallInv(b)
    BY <1>1 DEF Parts
  <2> QED BY ONLY <1>0, <1>2, <1>4, <1>5, <2>1, CallKept
<1>7. SinkInv'
  BY <1>1, <1>2 DEF Parts, SinkInv, ElementsInOrder
<1>8. Chain(ext', tail', c, Len(sink') - Undiscarded', in', in')
  BY ONLY <1>2, <1>3, <1>5 DEF lo
<1>9. in' + Uncommitted' = in' /\ in' \in Int /\ in' \in 0 .. Total
  BY ONLY <1>t, <1>2, <1>3, PlusNone
<1>10. Chain(ext', tail', c, Len(sink') - Undiscarded', in', in' + Uncommitted')
  BY ONLY <1>8, <1>9
<1> QED BY ONLY <1>5, <1>6, <1>7, <1>8, <1>9, <1>10, <1>t

\* async_read_some begins.
LEMMA ReadSomeBeginInv ==
    ASSUME ConstantsOK, IndInv, ReadSomeBegin
    PROVE  IndInv'
<1>0. ConstantsOK
  OBVIOUS
<1>1. /\ MayPut /\ _ensure_minfree /\ UNCHANGED <<in, sink, call>> /\ loop' = NoLoop
      /\ lent' = [at |-> ext'[tail'].w, len |-> XSize - ext'[tail'].w]
  BY DEF ReadSomeBegin, MayPut, writable
<1>2. loop'.op = "none" /\ loop'.left = 0
  BY <1>1 DEF NoLoop
<1>3. PICK c \in [1 .. Len(ext') -> Int] :
         /\ Chain(ext', tail', c, Len(sink') - Undiscarded', in', in' + Uncommitted')
         /\ SinkInv' /\ CallInv(c)'
  BY <1>1, <1>2, RangesStart
<1>4. ext'[tail'].w \in 0 .. XSize
  BY ONLY <1>0, <1>3, ChainType
<1>5. LentInv'
  <2>1. /\ lent' \in [at : 0 .. XSize, len : -1 .. XSize] /\ lent'.len # -1
        /\ lent'.at = ext'[tail'].w /\ lent'.len = XSize - ext'[tail'].w
    BY ONLY <1>0, <1>1, <1>4
  <2> QED BY ONLY <1>2, <2>1 DEF LentInv
<1>6. LoopInv(c)'
  BY <1>1, <1>2 DEF LoopInv, NoLoop
<1> QED BY <1>3, <1>5, <1>6 DEF IndInv, Parts

\* read_all begins.
LEMMA ReadAllInv ==
    ASSUME ConstantsOK, IndInv, ReadAll
    PROVE  IndInv'
<1>0. ConstantsOK
  OBVIOUS
<1>1. /\ MayPut /\ _ensure_minfree /\ UNCHANGED <<in, sink, call>> /\ lent' = NotLent
      /\ loop' = [op |-> "fill", left |-> 0, i |-> 1]
  BY DEF ReadAll, MayPut
<1>2. loop'.op = "fill" /\ loop'.left = 0 /\ loop'.i = 1
  BY <1>1
<1>3. PICK c \in [1 .. Len(ext') -> Int] :
         /\ Chain(ext', tail', c, Len(sink') - Undiscarded', in', in' + Uncommitted')
         /\ Chain(ext', tail', c, Len(sink') - Undiscarded', in', in')
         /\ SinkInv' /\ CallInv(c)' /\ in' \in 0 .. Total /\ in' \in Int /\ Total \in Nat
  BY <1>1, <1>2, RangesStart
<1>4. /\ tail' \in 1 .. Len(ext') /\ Len(ext') \in Nat /\ tail' \in Nat
      /\ c[tail'] + ext'[tail'].w = in'
  BY ONLY <1>0, <1>3, ChainType
<1>5. LentInv'
  BY <1>1 DEF LentInv, NotLent
<1>6. LoopInv(c)'
  <2>i. in' \in Int /\ in' <= Total
    BY ONLY <1>3
  <2>l. loop'.left = 0
    BY ONLY <1>2
  <2>1. in' + loop'.left = in' /\ in' <= Total
    BY ONLY <2>i, <2>l, PlusNone
  <2>2. loop'.i \in 1 .. Len(ext') - tail' + 1 /\ tail' + loop'.i - 1 = tail'
    <3>1. PICK n \in Nat, u \in Nat : n = Len(ext') /\ u = tail' /\ u <= n
      BY ONLY <1>4
    <3>y. n \in Nat /\ u \in Nat /\ u <= n
      BY ONLY <3>1
    <3>2. 1 \in 1 .. n - u + 1 /\ u + 1 - 1 = u
      BY ONLY <3>y
    <3> QED BY ONLY <1>2, <3>1, <3>2
  <2>3. loop' \in [op : {"none", "write", "fill", "commit", "read", "discard"}, left : Nat, i : Nat]
    BY ONLY <1>1
  <2> QED BY ONLY <1>2, <1>4, <2>1, <2>2, <2>3 DEF LoopInv
<1> QED BY <1>3, <1>5, <1>6 DEF IndInv, Parts

\* What a channel fills is there to be committed.
LEMMA FillStep ==
    ASSUME ConstantsOK, NEW b, NEW lo, NEW top, Chain(ext, tail, b, lo, in, top),
           NEW m \in tail .. Len(ext), b[m] + ext[m].w = top,
           NEW w \in Int, NEW k \in Nat, k <= writable(ext[m]), k > 0 => w = ext[m].w,
           NEW v, v = top, ext' = [ext EXCEPT ![m] = Fill(ext[m], w, w + k, v)],
           tail' = tail, call' = call, sink' = sink, CallInv(b)
    PROVE  /\ Chain(ext', tail, b, lo, in, top + k) /\ CallInv(b)'
           /\ Len(ext') = Len(ext) /\ \A i \in 1 .. Len(ext) : ext'[i].w = ext[i].w
<1> DEFINE q == w + k
           x == Fill(ext[m], w, q, top)
<1>0. ConstantsOK /\ Chain(ext, tail, b, lo, in, top)
  OBVIOUS
<1>n. k \in Nat /\ w \in Int
  OBVIOUS
<1>1. /\ Len(ext) \in Nat /\ tail \in Nat /\ m \in 1 .. Len(ext) /\ ext \in Seq(Extents)
      /\ ext[m] \in Extents /\ top \in Int
  BY ChainType
<1>2. q \in Int /\ w <= q /\ q - w = k /\ (w < q => k > 0)
  BY ONLY <1>n
<1>3. ext' = [ext EXCEPT ![m] = x]
  OBVIOUS
<1>4. x \in Extents
  BY ONLY <1>0, <1>1, <1>2, <1>n, FillType
<1>5. x = Fill(ext[m], w, q, top)
  OBVIOUS
<1> HIDE DEF x, q
<1>6. /\ ext' \in Seq(Extents) /\ Len(ext') = Len(ext) /\ ext'[m] = x
      /\ \A i \in 1 .. Len(ext) : i # m => ext'[i] = ext[i]
  BY ONLY <1>1, <1>3, <1>4, SetExtent
<1>7. /\ m \in tail .. Len(ext) /\ b[m] + ext[m].w = top /\ w \in Int /\ q \in Int
      /\ w <= q /\ q - w <= writable(ext[m]) /\ (w < q => w = ext[m].w)
  BY <1>2
<1>8. ext'[m] = Fill(ext[m], w, q, top)
  BY ONLY <1>5, <1>6
<1>f. /\ ext' \in Seq(Extents) /\ Len(ext') = Len(ext)
      /\ \A i \in 1 .. Len(ext) : i # m => ext'[i] = ext[i]
  BY ONLY <1>6
<1>z. PICK z \in Int : z = top + (q - w) /\ z = top + k
  BY ONLY <1>1, <1>2, <1>n
<1>9. /\ Chain(ext', tail, b, lo, in, z)
      /\ \A i \in 1 .. Len(ext) : ext'[i].r = ext[i].r /\ ext'[i].w = ext[i].w
  <2>0. Fits(ext[m], b[m], w, q, top, z) /\ m \in tail .. Len(ext)
    BY ONLY <1>7, <1>z DEF Fits
  <2>1. Chain(ext', tail, b, lo, in, z)
    <3>1. Replaced(ext, ext', m, Fill(ext[m], w, q, top))
      BY ONLY <1>8, <1>f DEF Replaced
    <3> QED BY ONLY <1>0, <2>0, <3>1, FillNext
  <2>2. ext'[m].r = ext[m].r /\ ext'[m].w = ext[m].w
    BY ONLY <1>0, <1>1, <1>7, <1>8, FillType
  <2> QED BY ONLY <1>f, <2>1, <2>2
<1>10. Grown(ext, tail, b, ext', tail, b)
  <2>1. tail <= tail
    BY ONLY <1>1
  <2> QED BY ONLY <1>0, <1>1, <1>6, <1>9, <2>1, GrownSame
<1>11. CallInv(b)'
  <2>1. Grown(ext, tail, b, ext', tail', b) /\ CallInv(b) /\ call' = call /\ sink' = sink
    BY <1>10
  <2> QED BY ONLY <1>0, <2>1, CallKept
<1> QED BY ONLY <1>6, <1>9, <1>11, <1>z

\* The numbers of the extents only grow.
LEMMA LastNumber ==
    ASSUME ConstantsOK, NEW e, NEW t, NEW b, NEW lo, NEW hi, NEW top, Chain(e, t, b, lo, hi, top),
           NEW i \in 1 .. Len(e)
    PROVE  b[i] \in Int /\ b[Len(e)] \in Int /\ b[i] <= b[Len(e)]
<1>1. Len(e) \in Nat /\ Len(e) \in 1 .. Len(e) /\ i \in Nat
  BY ChainType
<1>2. b[i] \in Int /\ b[Len(e)] \in Int /\ Reach(e, t, i) \in 0 .. XSize
  BY <1>1, ChainType
<1>3. CASE i = Len(e)
  BY <1>2, <1>3
<1>4. CASE i < Len(e)
  <2>1. b[Len(e)] >= b[i] + Reach(e, t, i)
    BY <1>1, <1>4, ChainNumbers
  <2>2. XSize \in Nat
    OBVIOUS
  <2> QED BY ONLY <1>2, <2>1, <2>2
<1> QED BY <1>1, <1>3, <1>4

\* async_read_some ends.
LEMMA ReadSomeEndInv ==
    ASSUME ConstantsOK, IndInv, NEW k \in 0 .. XSize, ReadSomeEnd(k)
    PROVE  IndInv'
<1>1. PICK b \in [1 .. Len(ext) -> Int] : Parts(b)
  BY DEF IndInv
<1> DEFINE lo == Len(sink) - Undiscarded
<1>0. ConstantsOK /\ k \in Nat /\ k \in Int /\ XSize \in Nat /\ Total \in Nat
  OBVIOUS
<1>2. /\ loop = NoLoop /\ loop.op = "none" /\ k <= lent.len /\ in + k <= Total
      /\ ext' = [ext EXCEPT ![tail] = Fill(ext[tail], lent.at, lent.at + k, in)]
      /\ lent' = NotLent /\ loop' = Loop("commit", k)
      /\ tail' = tail /\ in' = in /\ sink' = sink /\ call' = call
  BY DEF ReadSomeEnd, NoLoop
<1>t. in \in 0 .. Total /\ in \in Int /\ LentInv /\ CallInv(b) /\ SinkInv
  BY <1>1, PartsType
<1>3. Chain(ext, tail, b, lo, in, in)
  <2>1. Uncommitted = 0
    BY <1>2 DEF Uncommitted
  <2>2. in + Uncommitted = in
    BY ONLY <1>t, <2>1, PlusNone
  <2> QED BY <1>1, <2>2 DEF Parts
<1> HIDE DEF lo
<1>4. /\ tail \in 1 .. Len(ext) /\ tail \in tail .. Len(ext) /\ b[tail] + ext[tail].w = in
      /\ ext[tail].w \in 0 .. XSize
  BY ONLY <1>0, <1>3, ChainType
<1>5. lent.at \in Int /\ (k > 0 => lent.at = ext[tail].w) /\ k <= writable(ext[tail])
  <2>1. /\ lent.at \in 0 .. XSize /\ lent.len \in -1 .. XSize
        /\ (lent.len > 0 => lent.at = ext[tail].w /\ lent.len = XSize - ext[tail].w)
    BY <1>t DEF LentInv
  <2> QED BY ONLY <1>0, <1>2, <1>4, <2>1 DEF writable
<1>6. /\ Chain(ext', tail, b, lo, in, in + k) /\ CallInv(b)' /\ Len(ext') = Len(ext)
      /\ \A i \in 1 .. Len(ext) : ext'[i].w = ext[i].w
  <2>1. /\ ext' = [ext EXCEPT ![tail] = Fill(ext[tail], lent.at, lent.at + k, in)]
        /\ tail' = tail /\ call' = call /\ sink' = sink /\ CallInv(b)
    BY ONLY <1>2, <1>t
  <2> QED BY ONLY <1>0, <1>3, <1>4, <1>5, <2>1, FillStep
<1>7. /\ loop' \in [op : {"none", "write", "fill", "commit", "read", "discard"},
                    left : Nat, i : Nat]
      /\ loop'.op \in {"none", "commit"} /\ (loop'.op = "none" => loop' = NoLoop)
      /\ (loop'.op # "none" => loop'.left > 0) /\ loop'.left = k
  BY ONLY <1>0, <1>2, LoopIs
<1>8. Chain(ext', tail', b, Len(sink') - Undiscarded', in', in' + Uncommitted')
  <2>1. Undiscarded' = Undiscarded
    BY ONLY <1>2, <1>7 DEF Undiscarded
  <2>2. Uncommitted' = k
    BY ONLY <1>0, <1>7 DEF Uncommitted, NoLoop
  <2> QED BY ONLY <1>2, <1>6, <2>1, <2>2 DEF lo
<1>9. LoopInv(b)'
  <2>1. in' + loop'.left <= Total
    BY ONLY <1>2, <1>7
  <2>2. in' + loop'.left <= b[Len(ext')] + XSize
    <3>1. b[tail] \in Int /\ b[Len(ext)] \in Int /\ b[tail] <= b[Len(ext)]
      BY ONLY <1>0, <1>3, <1>4, LastNumber
    <3>2. in + k <= b[Len(ext)] + XSize
      BY ONLY <1>0, <1>4, <1>5, <3>1 DEF writable
    <3> QED BY ONLY <1>2, <1>6, <1>7, <3>2
  <2> QED BY ONLY <1>7, <2>1, <2>2 DEF LoopInv
<1>10. LentInv' /\ SinkInv'
  <2>1. LentInv'
    BY ONLY <1>0, <1>2 DEF LentInv, NotLent
  <2>2. SinkInv'
    BY ONLY <1>2, <1>t DEF SinkInv, ElementsInOrder
  <2> QED BY ONLY <2>1, <2>2
<1>11. b \in [1 .. Len(ext') -> Int]
  BY ONLY <1>1, <1>6
<1> QED BY ONLY <1>6, <1>8, <1>9, <1>10, <1>11 DEF IndInv, Parts

\* A turn of the loop of read_all.
LEMMA FillRangeInv ==
    ASSUME ConstantsOK, IndInv, NEW k \in 0 .. XSize, FillRange(k)
    PROVE  IndInv'
<1>1. PICK b \in [1 .. Len(ext) -> Int] : Parts(b)
  BY DEF IndInv
<1> DEFINE lo == Len(sink) - Undiscarded
           m == tail + loop.i - 1
           n == loop.left + k
<1>0. ConstantsOK /\ k \in Nat /\ k \in Int /\ XSize \in Nat /\ Total \in Nat
  OBVIOUS
<1>2. /\ loop.op = "fill" /\ k <= writable(ext[m]) /\ in + n <= Total
      /\ ext' = [ext EXCEPT ![m] = Fill(ext[m], ext[m].w, ext[m].w + k, in + loop.left)]
      /\ tail' = tail /\ in' = in /\ sink' = sink /\ lent' = lent /\ call' = call
  BY DEF FillRange, WritableRange
<1>3. loop' = IF k > 0 /\ k = writable(ext[m]) /\ loop.i < WritableRanges
              THEN [op |-> "fill", left |-> n, i |-> loop.i + 1] ELSE Loop("commit", n)
  BY DEF FillRange, WritableRange
<1>t. /\ in \in 0 .. Total /\ in \in Int /\ LentInv /\ CallInv(b) /\ SinkInv
      /\ loop.left \in Nat /\ loop.i \in Nat
      /\ loop \in [op : {"none", "write", "fill", "commit", "read", "discard"},
                   left : Nat, i : Nat]
      /\ loop.i \in 1 .. Len(ext) - tail + 1 /\ b[m] + ext[m].w = in + loop.left
  BY <1>1, <1>2, PartsType DEF LoopInv
<1>4. PICK top \in Int : top = in + loop.left
  BY ONLY <1>t
<1>5. Chain(ext, tail, b, lo, in, top)
  <2>1. Uncommitted = loop.left
    BY <1>2 DEF Uncommitted
  <2> QED BY <1>1, <1>4, <2>1 DEF Parts
<1> HIDE DEF lo
<1>6. /\ tail \in 1 .. Len(ext) /\ tail \in Nat /\ Len(ext) \in Nat
      /\ \A i \in 1 .. Len(ext) : ext[i].w \in 0 .. XSize /\ b[i] \in Int
  BY ONLY <1>0, <1>5, ChainType
<1>7. /\ m \in tail .. Len(ext) /\ m \in 1 .. Len(ext) /\ m \in Nat /\ m >= tail
  <2>1. PICK u \in Nat, z \in Nat, j \in Nat : u = tail /\ z = Len(ext) /\ j = loop.i
    BY ONLY <1>6, <1>t
  <2>2. 1 <= u /\ u <= z /\ 1 <= j /\ j <= z - u + 1
    BY ONLY <1>6, <1>t, <2>1
  <2>3. /\ u + j - 1 \in u .. z /\ u + j - 1 \in 1 .. z /\ u + j - 1 \in Nat
        /\ u + j - 1 >= u
    BY ONLY <2>1, <2>2
  <2> QED BY ONLY <2>1, <2>3
<1>8. ext[m].w \in 0 .. XSize /\ ext[m].w \in Int /\ b[m] \in Int
  BY ONLY <1>0, <1>6, <1>7
<1>9. /\ Chain(ext', tail, b, lo, in, top + k) /\ CallInv(b)' /\ Len(ext') = Len(ext)
      /\ \A i \in 1 .. Len(ext) : ext'[i].w = ext[i].w
  <2> HIDE DEF m
  <2>w. PICK w \in Int : w = ext[m].w
    BY ONLY <1>8
  <2>1. /\ ext' = [ext EXCEPT ![m] = Fill(ext[m], w, w + k, top)]
        /\ tail' = tail /\ call' = call /\ sink' = sink /\ CallInv(b)
    BY ONLY <1>2, <1>4, <1>t, <2>w
  <2>2. /\ m \in tail .. Len(ext) /\ k \in Nat /\ k <= writable(ext[m]) /\ (k > 0 => w = ext[m].w)
        /\ b[m] + ext[m].w = top /\ w \in Int
    BY ONLY <1>0, <1>2, <1>4, <1>7, <1>t, <2>w
  <2> QED BY ONLY <1>0, <1>5, <2>1, <2>2, FillStep
<1>10. n \in Nat /\ in + n = top + k /\ n \in Int
  <2>1. PICK l \in Nat, v \in Int : l = loop.left /\ v = in
    BY ONLY <1>t
  <2>2. k \in Nat /\ l \in Nat /\ v \in Int /\ top = v + l
    BY ONLY <1>0, <1>4, <2>1
  <2>3. l + k \in Nat /\ v + (l + k) = top + k /\ l + k \in Int
    BY ONLY <2>2
  <2> QED BY ONLY <2>1, <2>3
<1>11. LentInv'
  <2>1. lent' = NotLent
    BY ONLY <1>2, <1>t DEF LentInv
  <2> QED BY ONLY <1>0, <2>1 DEF LentInv, NotLent
<1>12. SinkInv'
  BY ONLY <1>2, <1>t DEF SinkInv, ElementsInOrder
<1>13. b \in [1 .. Len(ext') -> Int]
  BY ONLY <1>1, <1>9
<1>14. CASE k > 0 /\ k = writable(ext[m]) /\ loop.i < WritableRanges
  <2>1. loop'.op = "fill" /\ loop'.left = n /\ loop'.i = loop.i + 1 /\ loop' \in
           [op : {"none", "write", "fill", "commit", "read", "discard"}, left : Nat, i : Nat]
    <3>1. loop' = [op |-> "fill", left |-> n, i |-> loop.i + 1]
      BY ONLY <1>3, <1>14
    <3>2. n \in Nat /\ loop.i + 1 \in Nat
      BY ONLY <1>10, <1>t
    <3> HIDE DEF n
    <3> QED BY ONLY <3>1, <3>2
  <2>2. m + 1 \in 1 .. Len(ext) /\ tail < m + 1 /\ loop.i + 1 \in 1 .. Len(ext) - tail + 1
    <3>1. loop.i < Len(ext) - tail + 1
      BY ONLY <1>0, <1>6, <1>14, <1>t DEF WritableRanges, Least
    <3>2. PICK u \in Nat, z \in Nat, j \in Nat : u = tail /\ z = Len(ext) /\ j = loop.i
      BY ONLY <1>6, <1>t
    <3>3. 1 <= u /\ u <= z /\ 1 <= j /\ j < z - u + 1
      BY ONLY <1>6, <1>t, <3>1, <3>2
    <3>4. u \in Nat /\ z \in Nat /\ j \in Nat
      BY ONLY <3>2
    <3>5. (u + j - 1) + 1 \in 1 .. z /\ u < (u + j - 1) + 1
      BY ONLY <3>3, <3>4
    <3>6. j + 1 \in 1 .. z - u + 1
      BY ONLY <3>3, <3>4
    <3> QED BY ONLY <3>2, <3>5, <3>6
  <2>3. b[m + 1] + ext[m + 1].w = in + n
    <3>1. ext[m + 1].w = 0
      <4>1. m + 1 \in tail + 1 .. Len(ext)
        BY ONLY <1>6, <1>7, <2>2
      <4> QED BY ONLY <1>5, <4>1, ChainShape
    <3>2. b[m + 1] = b[m] + XSize
      <4>1. m \in 1 .. Len(ext) - 1
        BY ONLY <1>6, <1>7, <2>2
      <4>2. Reach(ext, tail, m) = XSize
        BY ONLY <1>6, <1>7 DEF Reach
      <4>3. \A i \in 1 .. Len(ext) - 1 : b[i + 1] = b[i] + Reach(ext, tail, i)
        BY ONLY <1>5, ChainNumbers
      <4> HIDE DEF m
      <4> QED BY ONLY <4>1, <4>2, <4>3
    <3>3. XSize - ext[m].w = k
      BY ONLY <1>14 DEF writable
    <3>4. b[m] + ext[m].w = top /\ b[m] \in Int /\ ext[m].w \in Int /\ XSize \in Nat /\ k \in Int
      BY ONLY <1>0, <1>4, <1>8, <1>t
    <3> HIDE DEF m
    <3>5. b[m] + XSize = top + k /\ b[m] + XSize \in Int
      <4>1. PICK v \in Int : v = ext[m].w
        BY ONLY <3>4
      <4>2. b[m] + v = top /\ XSize - v = k
        BY ONLY <3>3, <3>4, <4>1
      <4>3. b[m] \in Int /\ XSize \in Nat /\ k \in Int
        BY ONLY <3>4
      <4>4. PICK a \in Int : a = b[m]
        BY ONLY <4>3
      <4>5. /\ a + v = top /\ XSize - v = k /\ top \in Int /\ a \in Int /\ v \in Int
            /\ XSize \in Int
        BY ONLY <1>4, <4>1, <4>2, <4>3, <4>4
      <4>6. a + XSize = top + k /\ a + XSize \in Int
        BY ONLY <4>5
      <4> QED BY ONLY <4>4, <4>6
    <3> QED BY ONLY <1>10, <3>1, <3>2, <3>5
  <2>4. LoopInv(b)'
    <3>1. loop'.i \in 1 .. Len(ext') - tail' + 1
      BY ONLY <1>2, <1>9, <2>1, <2>2
    <3>2. in' + loop'.left <= Total
      BY ONLY <1>2, <2>1
    <3>3. tail' + loop'.i - 1 = m + 1
      <4>1. PICK u \in Nat, j \in Nat : u = tail /\ j = loop.i
        BY ONLY <1>6, <1>t
      <4>2. u \in Nat /\ j \in Nat
        BY ONLY <4>1
      <4>3. u + (j + 1) - 1 = (u + j - 1) + 1
        BY ONLY <4>2
      <4>4. tail' = u /\ loop'.i = j + 1
        BY ONLY <1>2, <2>1, <4>1
      <4> QED BY ONLY <4>1, <4>3, <4>4
    <3>4. b[tail' + loop'.i - 1] + ext'[tail' + loop'.i - 1].w = in' + loop'.left
      BY ONLY <1>2, <1>9, <2>1, <2>2, <2>3, <3>3
    <3> QED BY ONLY <2>1, <3>1, <3>2, <3>4 DEF LoopInv
  <2>5. Chain(ext', tail', b, Len(sink') - Undiscarded', in', in' + Uncommitted')
    <3>1. Undiscarded' = Undiscarded
      BY ONLY <1>2, <2>1 DEF Undiscarded
    <3>2. Uncommitted' = n
      BY ONLY <2>1 DEF Uncommitted
    <3> QED BY ONLY <1>2, <1>9, <1>10, <3>1, <3>2 DEF lo
  <2> QED BY ONLY <1>9, <1>11, <1>12, <1>13, <2>4, <2>5 DEF IndInv, Parts
<1>15. CASE ~(k > 0 /\ k = writable(ext[m]) /\ loop.i < WritableRanges)
  <2>0. loop' = Loop("commit", n)
    BY ONLY <1>3, <1>15
  <2>1. /\ loop' \in [op : {"none", "write", "fill", "commit", "read", "discard"},
                      left : Nat, i : Nat]
        /\ loop'.op \in {"none", "commit"} /\ (loop'.op = "none" => loop' = NoLoop)
        /\ (loop'.op # "none" => loop'.left > 0) /\ loop'.left = n
    <3> HIDE DEF n
    <3> QED BY ONLY <1>10, <2>0, LoopIs
  <2>2. in + n <= b[Len(ext)] + XSize
    <3>1. b[m] \in Int /\ b[Len(ext)] \in Int /\ b[m] <= b[Len(ext)]
      BY ONLY <1>0, <1>5, <1>7, LastNumber
    <3>2. k <= XSize - ext[m].w
      BY ONLY <1>2 DEF writable
    <3>3. b[m] + ext[m].w = top
      BY ONLY <1>4, <1>t
    <3>4. top + k <= b[Len(ext)] + XSize
      <4> HIDE DEF m
      <4>1. PICK a \in Int, z \in Int, w \in Int : a = b[m] /\ z = b[Len(ext)] /\ w = ext[m].w
        BY ONLY <1>8, <3>1
      <4>2. /\ a <= z /\ k <= XSize - w /\ a + w = top /\ XSize \in Nat /\ k \in Int
            /\ top \in Int /\ a \in Int /\ z \in Int /\ w \in Int
        BY ONLY <1>0, <1>4, <1>t, <3>1, <3>2, <3>3, <4>1
      <4>3. top + k <= z + XSize
        BY ONLY <4>2
      <4> QED BY ONLY <4>1, <4>3
    <3> QED BY ONLY <1>10, <3>4
  <2>4. LoopInv(b)'
    <3>1. in' + loop'.left <= Total
      BY ONLY <1>2, <2>1
    <3>2. in' + loop'.left <= b[Len(ext')] + XSize
      BY ONLY <1>2, <1>9, <2>1, <2>2
    <3> QED BY ONLY <2>1, <3>1, <3>2 DEF LoopInv
  <2>5. Chain(ext', tail', b, Len(sink') - Undiscarded', in', in' + Uncommitted')
    <3>1. Undiscarded' = Undiscarded
      BY ONLY <1>2, <2>1 DEF Undiscarded
    <3>2. Uncommitted' = n
      BY ONLY <1>10, <2>1 DEF Uncommitted, NoLoop
    <3> QED BY ONLY <1>2, <1>9, <1>10, <3>1, <3>2 DEF lo
  <2> QED BY ONLY <1>9, <1>11, <1>12, <1>13, <2>4, <2>5 DEF IndInv, Parts
<1> QED BY ONLY <1>14, <1>15

\* One turn of the loop of commit().
LEMMA CommitChunkInv ==
    ASSUME ConstantsOK, IndInv, CommitChunk
    PROVE  IndInv'
<1>1. PICK b \in [1 .. Len(ext) -> Int] : Parts(b)
  BY DEF IndInv
<1> DEFINE lo == Len(sink) - Undiscarded
           u == IF writable(ext[tail]) = 0 THEN tail + 1 ELSE tail
           k == Least(loop.left, writable(ext[u]))
<1>0. ConstantsOK /\ XSize \in Nat /\ Total \in Nat
  OBVIOUS
<1>2. /\ loop.op = "commit" /\ tail' = u /\ in' = in + k /\ loop' = Loop("commit", loop.left - k)
      /\ ext' = [ext EXCEPT ![u].w = @ + k]
      /\ sink' = sink /\ lent' = lent /\ call' = call
  BY DEF CommitChunk
<1>t. /\ in \in 0 .. Total /\ in \in Int /\ LentInv /\ CallInv(b) /\ SinkInv
      /\ loop.left \in Nat /\ loop.left > 0 /\ in + loop.left <= Total
      /\ in + loop.left <= b[Len(ext)] + XSize
  BY <1>1, <1>2, PartsType DEF LoopInv
<1>3. PICK top \in Int : top = in + loop.left
  BY ONLY <1>t
<1>4. Chain(ext, tail, b, lo, in, top)
  <2>1. Uncommitted = loop.left
    BY <1>2 DEF Uncommitted
  <2> QED BY <1>1, <1>3, <2>1 DEF Parts
<1> HIDE DEF lo
<1>5. /\ tail \in 1 .. Len(ext) /\ tail \in Nat /\ Len(ext) \in Nat /\ b[tail] + ext[tail].w = in
      /\ ext[tail].w \in 0 .. XSize /\ b[tail] \in Int /\ b[Len(ext)] \in Int
      /\ \A i \in 1 .. Len(ext) : ext[i].w \in Int
  <2>1. /\ tail \in 1 .. Len(ext) /\ tail \in Nat /\ Len(ext) \in Nat /\ b[tail] + ext[tail].w = in
    BY ONLY <1>0, <1>4, ChainType
  <2>2. \A i \in 1 .. Len(ext) : ext[i].w \in 0 .. XSize /\ b[i] \in Int
    BY ONLY <1>0, <1>4, ChainType
  <2>3. Len(ext) \in 1 .. Len(ext)
    BY ONLY <2>1
  <2>4. \A i \in 1 .. Len(ext) : ext[i].w \in Int
    BY ONLY <1>0, <2>2
  <2> QED BY ONLY <2>1, <2>2, <2>3, <2>4
<1>6. Chain(ext, u, b, lo, in, top) /\ Grown(ext, tail, b, ext, u, b)
  <2>0. \A i \in 1 .. Len(ext) : ext[i].r = ext[i].r /\ ext[i].w = ext[i].w
    OBVIOUS
  <2>1. CASE writable(ext[tail]) = 0
    <3>1. tail < Len(ext)
      <4>1. ASSUME tail = Len(ext) PROVE FALSE
        <5>1. ext[tail].w = XSize
          BY ONLY <1>0, <1>5, <2>1 DEF writable
        <5>2. in = b[Len(ext)] + XSize
          BY ONLY <1>5, <4>1, <5>1
        <5>3. loop.left \in Nat /\ loop.left > 0 /\ in \in Int /\ in + loop.left <= in
          BY ONLY <1>t, <5>2
        <5> QED BY ONLY <5>3
      <4> QED BY ONLY <1>5, <4>1
    <3>2. Chain(ext, tail + 1, b, lo, in, top)
      BY ONLY <1>0, <1>4, <2>1, <3>1, NextExtent
    <3>3. tail + 1 \in Nat /\ tail <= tail + 1
      BY ONLY <1>5
    <3>4. Grown(ext, tail, b, ext, tail + 1, b)
      BY ONLY <1>0, <1>4, <2>0, <3>3, GrownSame
    <3>5. u = tail + 1
      BY <2>1
    <3> QED BY ONLY <3>2, <3>4, <3>5
  <2>2. CASE writable(ext[tail]) # 0
    <3>1. u = tail /\ tail <= tail
      BY <1>5, <2>2
    <3>2. Grown(ext, tail, b, ext, tail, b)
      BY ONLY <1>0, <1>4, <1>5, <2>0, <3>1, GrownSame
    <3> QED BY ONLY <1>4, <3>1, <3>2
  <2> QED BY ONLY <2>1, <2>2
<1> HIDE DEF u
<1>7. /\ u \in 1 .. Len(ext) /\ u \in Nat /\ ext[u].w \in 0 .. XSize /\ b[u] \in Int
      /\ b[u] + ext[u].w = in /\ ext[u] \in Extents /\ ext \in Seq(Extents)
  BY ONLY <1>0, <1>6, ChainType
<1>8. k \in Nat /\ k <= XSize - ext[u].w /\ k <= loop.left
  <2>1. PICK n \in Nat : n = loop.left
    BY ONLY <1>t
  <2>2. PICK m \in Nat : m = writable(ext[u]) /\ m = XSize - ext[u].w
    BY ONLY <1>0, <1>7 DEF writable
  <2>3. k = Least(n, m)
    BY ONLY <2>1, <2>2
  <2> HIDE DEF k
  <2> QED BY ONLY <2>1, <2>2, <2>3, LeastOf
<1> HIDE DEF k
<1>v. PICK v \in 0 .. XSize : v = ext[u].w
  BY ONLY <1>7
<1>n. /\ v \in Nat /\ v + k \in 0 .. XSize /\ v <= v + k /\ v + k \in Int
      /\ b[u] + v = in /\ b[u] + (v + k) = in + k /\ in + k <= top
  <2>1. b[u] \in Int /\ in \in Int /\ k \in Nat /\ b[u] + v = in /\ k <= XSize - v
    BY ONLY <1>7, <1>8, <1>t, <1>v
  <2>2. loop.left \in Nat /\ k <= loop.left /\ k \in Nat /\ in \in Int
    BY ONLY <1>8, <1>t
  <2>3. in + k <= top
    BY ONLY <1>3, <2>2
  <2>4. v \in Nat /\ v <= XSize
    BY ONLY <1>0, <1>v
  <2>5. v + k \in 0 .. XSize /\ v <= v + k /\ v + k \in Int
    BY ONLY <1>0, <2>1, <2>4
  <2>6. b[u] + (v + k) = in + k
    BY ONLY <2>1, <2>4
  <2> QED BY ONLY <2>1, <2>3, <2>4, <2>5, <2>6
<1>9. /\ ext' \in Seq(Extents) /\ Len(ext') = Len(ext) /\ ext'[u].r = ext[u].r
      /\ ext'[u].data = ext[u].data /\ ext'[u].w = v + k
      /\ \A i \in 1 .. Len(ext) : i # u => ext'[i] = ext[i]
  <2> DEFINE y == [ext[u] EXCEPT !.w = v + k]
  <2>1. ext' = [ext EXCEPT ![u] = y]
    BY ONLY <1>2, <1>v
  <2>2. y \in Extents /\ y.w = v + k /\ y.r = ext[u].r /\ y.data = ext[u].data
    BY ONLY <1>7, <1>n, MoveWrite
  <2> HIDE DEF y
  <2>3. /\ ext' \in Seq(Extents) /\ Len(ext') = Len(ext) /\ ext'[u] = y
        /\ \A i \in 1 .. Len(ext) : i # u => ext'[i] = ext[i]
    BY ONLY <1>7, <2>1, <2>2, SetExtent
  <2> QED BY ONLY <2>2, <2>3
<1>10. Chain(ext', u, b, lo, in', top)
  <2>1. ext[u].w <= ext'[u].w /\ b[u] + ext'[u].w = in' /\ b[u] + ext'[u].w <= top
    BY ONLY <1>2, <1>n, <1>v, <1>9
  <2>2. Chain(ext', u, b, lo, b[u] + ext'[u].w, top)
    BY ONLY <1>0, <1>6, <1>9, <2>1, AdvanceWrite
  <2> QED BY ONLY <2>1, <2>2
<1>11. CallInv(b)'
  <2>1. ext'[u].w \in Int /\ ext[u].w <= ext'[u].w
    BY ONLY <1>n, <1>v, <1>9
  <2>2. \A i \in 1 .. Len(ext) : ext'[i].r = ext[i].r /\ (i # u => ext'[i].w = ext[i].w)
    BY ONLY <1>9
  <2>3. Grown(ext, tail, b, ext', u, b)
    BY ONLY <1>5, <1>6, <1>9, <2>1, <2>2, GrownTwice
  <2>4. Grown(ext, tail, b, ext', tail', b) /\ call' = call /\ sink' = sink /\ CallInv(b)
    BY ONLY <1>2, <1>t, <2>3
  <2> QED BY ONLY <1>0, <1>4, <2>4, CallKept
<1>12. /\ loop' = Loop("commit", loop.left - k) /\ loop.left - k \in Nat
       /\ in' \in 0 .. Total /\ in <= in' /\ in' \in Int /\ in' + (loop.left - k) = in + loop.left
  <2>1. PICK n \in Nat, w \in Int : n = loop.left /\ w = in
    BY ONLY <1>t
  <2>2. k \in Nat /\ k <= n /\ 0 <= w /\ w + n <= Total
    BY ONLY <1>8, <1>t, <2>1
  <2>3. /\ n - k \in Nat /\ w + k + (n - k) = w + n /\ w + k \in 0 .. Total /\ w <= w + k
        /\ w + k \in Int
    BY ONLY <1>0, <2>1, <2>2
  <2> QED BY ONLY <1>2, <2>1, <2>2, <2>3
<1>13. /\ loop' \in [op : {"none", "write", "fill", "commit", "read", "discard"},
                     left : Nat, i : Nat]
       /\ loop'.op \in {"none", "commit"} /\ (loop'.op = "none" => loop' = NoLoop)
       /\ (loop'.op # "none" => loop'.left > 0) /\ loop'.left = loop.left - k
  <2>1. PICK n \in Nat : n = loop.left - k
    BY ONLY <1>12
  <2>2. loop' = Loop("commit", n)
    BY ONLY <1>12, <2>1
  <2>3. n \in Nat
    BY ONLY <2>1
  <2>4. LoopAt(loop', "commit", n)
    BY ONLY <2>2, <2>3, LoopGoesOn
  <2> QED BY ONLY <2>1, <2>4 DEF LoopAt
<1>14. LoopInv(b)'
  <2>1. in' + loop'.left <= Total /\ in' + loop'.left <= b[Len(ext')] + XSize
    BY ONLY <1>9, <1>12, <1>13, <1>t
  <2> QED BY ONLY <1>13, <2>1 DEF LoopInv
<1>15. LentInv'
  <2>1. lent' = NotLent
    BY ONLY <1>2, <1>t DEF LentInv
  <2> QED BY ONLY <1>0, <2>1 DEF LentInv, NotLent
<1>16. SinkInv'
  BY ONLY <1>2, <1>12, <1>t DEF SinkInv, ElementsInOrder
<1>17. Chain(ext', tail', b, Len(sink') - Undiscarded', in', in' + Uncommitted')
  <2>1. Undiscarded' = Undiscarded
    BY ONLY <1>2, <1>13 DEF Undiscarded
  <2>2. Uncommitted' = loop.left - k
    BY ONLY <1>13 DEF Uncommitted, NoLoop
  <2>3. in' + Uncommitted' = top
    BY ONLY <1>3, <1>12, <2>2
  <2> QED BY ONLY <1>2, <1>10, <2>1, <2>3 DEF lo
<1>18. b \in [1 .. Len(ext') -> Int]
  BY ONLY <1>1, <1>9
<1> QED BY ONLY <1>11, <1>14, <1>15, <1>16, <1>17, <1>18 DEF IndInv, Parts

\* read() begins.
LEMMA ReadInv ==
    ASSUME ConstantsOK, IndInv, NEW n \in Counts, Read(n)
    PROVE  IndInv'
<1>1. PICK b \in [1 .. Len(ext) -> Int] : Parts(b)
  BY DEF IndInv
<1>2. /\ loop = NoLoop /\ call = NoCall /\ loop' = Loop("read", n)
      /\ UNCHANGED <<ext, tail, in, sink, lent, call>>
  BY DEF Read, MayGet
<1>3. n \in Nat /\ n # 0
  BY DEF Counts
<1>4. loop' \in [op : {"none", "write", "fill", "commit", "read", "discard"}, left : Nat, i : Nat]
      /\ loop'.op = "read" /\ loop'.left = n /\ loop.op = "none" /\ loop.left = 0
  BY <1>2, <1>3, LoopIs
<1>5. Undiscarded' = Undiscarded /\ Uncommitted' = Uncommitted
  BY <1>2, <1>4 DEF Undiscarded, Uncommitted
<1>6. Chain(ext', tail', b, Len(sink') - Undiscarded', in', in' + Uncommitted')
  BY <1>1, <1>2, <1>5 DEF Parts
<1>7. SinkInv' /\ CallInv(b)'
  BY <1>1, <1>2 DEF Parts, SinkInv, CallInv, ElementsInOrder
<1>8. LentInv'
  BY <1>1, <1>2, <1>4 DEF Parts, LentInv
<1>9. LoopInv(b)'
  BY <1>2, <1>3, <1>4 DEF LoopInv
<1> QED BY <1>1, <1>2, <1>6, <1>7, <1>8, <1>9 DEF IndInv, Parts

\* A write function fails.
LEMMA WriteFailsInv ==
    ASSUME ConstantsOK, IndInv, WriteFails
    PROVE  IndInv'
<1>1. PICK b \in [1 .. Len(ext) -> Int] : Parts(b)
  BY DEF IndInv
<1>2. /\ loop = NoLoop /\ loop.op = "none" /\ call' = NoCall /\ loop' = Loop("discard", call.n)
      /\ UNCHANGED <<ext, tail, in, sink, lent>>
  BY DEF WriteFails, NoLoop
<1>3. call.n \in Nat
  BY <1>1, PartsType
<1>4. /\ loop' \in [op : {"none", "write", "fill", "commit", "read", "discard"},
                    left : Nat, i : Nat]
      /\ loop'.op \in {"none", "discard"} /\ (loop'.op = "none" => loop' = NoLoop)
      /\ (loop'.op # "none" => loop'.left > 0) /\ loop'.left = call.n
  BY ONLY <1>2, <1>3, LoopIs
<1>5. Undiscarded' = Undiscarded /\ Uncommitted' = Uncommitted
  <2>1. Undiscarded = call.n /\ Uncommitted' = Uncommitted
    BY ONLY <1>2, <1>4 DEF Undiscarded, Uncommitted
  <2>2. Undiscarded' = call.n
    BY ONLY <1>2, <1>4 DEF Undiscarded, NoCall, NoLoop
  <2> QED BY ONLY <2>1, <2>2
<1>6. Chain(ext', tail', b, Len(sink') - Undiscarded', in', in' + Uncommitted')
  BY <1>1, <1>2, <1>5 DEF Parts
<1>7. SinkInv'
  BY <1>1, <1>2 DEF Parts, SinkInv, ElementsInOrder
<1>c. CallInv(b)'
  BY ONLY <1>2 DEF CallInv, NoCall
<1>8. LentInv'
  BY <1>1, <1>2, <1>4 DEF Parts, LentInv
<1>9. LoopInv(b)'
  BY ONLY <1>2, <1>4 DEF LoopInv
<1> QED BY <1>1, <1>2, <1>6, <1>7, <1>c, <1>8, <1>9 DEF IndInv, Parts

\* A run of elements goes behind those that the consumer has.
LEMMA AppendRun ==
    ASSUME NEW s \in Seq(Int), \A i \in DOMAIN s : s[i] = i - 1,
           NEW d \in Seq(Int), \A j \in 1 .. Len(d) : d[j] = Len(s) + j - 1
    PROVE  /\ s \o d \in Seq(Int) /\ Len(s \o d) = Len(s) + Len(d)
           /\ \A i \in DOMAIN (s \o d) : (s \o d)[i] = i - 1
<1>1. /\ s \in Seq(Int) /\ d \in Seq(Int) /\ DOMAIN s = 1 .. Len(s)
      /\ Len(s) \in Nat /\ Len(d) \in Nat
      /\ \A i \in DOMAIN s : s[i] = i - 1
      /\ \A j \in 1 .. Len(d) : d[j] = Len(s) + j - 1
  OBVIOUS
<1>2. s \o d \in Seq(Int) /\ Len(s \o d) = Len(s) + Len(d)
  BY ONLY <1>1, ConcatProperties
<1>3. ASSUME NEW i \in 1 .. Len(s) + Len(d) PROVE (s \o d)[i] = i - 1
  <2>0. i \in Int
    BY ONLY <1>1, <1>3
  <2>1. CASE i <= Len(s)
    <3>1. i \in DOMAIN s
      BY ONLY <1>1, <1>3, <2>1
    <3>2. (s \o d)[i] = s[i]
      BY ONLY <1>1, <1>3, <2>1, ConcatProperties
    <3> QED BY ONLY <1>1, <3>1, <3>2
  <2>2. CASE i > Len(s)
    <3>0. i <= Len(s) + Len(d)
      BY ONLY <1>1, <1>3
    <3>y. i - Len(s) \in 1 .. Len(d)
      BY ONLY <1>1, <2>0, <2>2, <3>0
    <3>1. PICK j \in 1 .. Len(d) : j = i - Len(s)
      BY ONLY <3>y
    <3>2. (s \o d)[i] = d[j]
      BY ONLY <1>1, <1>3, <2>2, <3>1, ConcatProperties
    <3>3. Len(s) + j - 1 = i - 1
      BY ONLY <1>1, <2>0, <3>1
    <3> QED BY ONLY <1>1, <3>2, <3>3
  <2> QED BY ONLY <1>1, <2>0, <2>1, <2>2
<1>4. DOMAIN (s \o d) = 1 .. Len(s) + Len(d)
  BY ONLY <1>2
<1> QED BY ONLY <1>2, <1>3, <1>4

\* read() and discard() move the read pointer of the head.
LEMMA ConsumeStep ==
    ASSUME ConstantsOK, NEW b, Parts(b), loop.op \in {"read", "discard"}, NEW k \in Nat,
           k <= readable(ext[1]), Consume(k), lent' = lent, call' = call,
           loop'.op \in {"none", "read", "discard"}
    PROVE  /\ LentInv' /\ call = NoCall
           /\ \E c \in [1 .. Len(ext') -> Int] :
                 Chain(ext', tail', c, Len(sink) - Undiscarded + k, in, in) /\ CallInv(c)'
<1> DEFINE lo == Len(sink) - Undiscarded
<1>0. ConstantsOK /\ XSize \in Nat
  OBVIOUS
<1>1. in \in Int /\ LentInv /\ call = NoCall
  BY PartsType DEF LoopInv
<1>2. Chain(ext, tail, b, lo, in, in)
  <2>1. Uncommitted = 0
    BY DEF Uncommitted
  <2>2. in + Uncommitted = in
    BY ONLY <1>1, <2>1, PlusNone
  <2> QED BY <2>2 DEF Parts
<1> HIDE DEF lo
<1> DEFINE g == [ext EXCEPT ![1].r = @ + k]
<1>3. ext' = Retire(g, tail).ext /\ tail' = Retire(g, tail).tail
  BY DEF Consume
<1>g. /\ g \in Seq(Extents) /\ Len(g) = Len(ext) /\ g[1] \in Extents
      /\ g[1].r = ext[1].r + k /\ g[1].w = ext[1].w /\ g[1].data = ext[1].data
      /\ ext[1].r + k <= ext[1].w
      /\ \A i \in 2 .. Len(ext) : g[i] = ext[i]
  <2>1. ext \in Seq(Extents) /\ tail \in 1 .. Len(ext)
    BY ONLY <1>0, <1>2, ChainType
  <2>2. ext # << >>
    BY <2>1
  <2> QED BY <2>1, <2>2, MoveHead
<1> HIDE DEF g
<1>4. /\ Len(ext') = Len(ext)
      /\ \E c \in [1 .. Len(ext) -> Int] : Chain(ext', tail', c, lo + k, in, in)
      /\ ext[tail].w < XSize => ext'[tail'].w = ext[tail].w
  <2>1. /\ k \in Nat /\ ext[1].r \in Int /\ b[1] \in Int /\ b[1] + ext[1].r = lo
        /\ ext[1].r <= g[1].r /\ g[1].r <= ext[1].w
    <3>1. 1 \in 1 .. Len(ext)
      BY ONLY <1>2 DEF Chain, Shape
    <3>2. ext[1].r \in 0 .. XSize /\ b[1] \in Int /\ b[1] + ext[1].r = lo
      BY ONLY <1>0, <1>2, <3>1, ChainType
    <3>3. k \in Nat
      OBVIOUS
    <3> QED BY ONLY <1>0, <1>g, <3>2, <3>3
  <2>2. \A f, u : f = Retire(g, tail).ext /\ u = Retire(g, tail).tail =>
           /\ Len(f) = Len(ext)
           /\ \E c \in [1 .. Len(ext) -> Int] : Chain(f, u, c, b[1] + g[1].r, in, in)
           /\ ext[tail].w < XSize => f[u].w = ext[tail].w
    <3> TAKE f, u
    <3> HAVE f = Retire(g, tail).ext /\ u = Retire(g, tail).tail
    <3>1. f = Retire(g, tail).ext /\ u = Retire(g, tail).tail
      OBVIOUS
    <3>2. /\ g \in Seq(Extents) /\ Len(g) = Len(ext) /\ g[1] \in Extents
          /\ g[1].w = ext[1].w /\ g[1].data = ext[1].data
          /\ ext[1].r <= g[1].r /\ g[1].r <= ext[1].w
          /\ \A i \in 2 .. Len(ext) : g[i] = ext[i]
      BY ONLY <1>g, <2>1
    <3> QED BY ONLY <1>0, <1>2, <3>1, <3>2, RetireChain
  <2>3. b[1] + g[1].r = lo + k
    BY ONLY <1>g, <2>1
  <2> QED BY ONLY <1>3, <2>2, <2>3
<1>5. LentInv'
  <2>1. lent.len > 0 => ext'[tail'].w = ext[tail].w
    <3>1. ext[tail].w \in 0 .. XSize
      BY ONLY <1>0, <1>2, ChainType
    <3>2. lent.len \in Int /\ (lent.len > 0 => lent.len = XSize - ext[tail].w)
      BY ONLY <1>1 DEF LentInv
    <3> QED BY ONLY <1>0, <1>4, <3>1, <3>2
  <2>2. lent' = lent /\ loop'.op \in {"none", "read", "discard"}
    OBVIOUS
  <2> QED BY ONLY <1>1, <2>1, <2>2 DEF LentInv
<1>6. \A c : CallInv(c)'
  <2>1. call' = NoCall
    BY <1>1
  <2> QED BY ONLY <2>1 DEF CallInv, NoCall
<1> QED BY ONLY <1>1, <1>4, <1>5, <1>6 DEF lo

\* d is a run of the k elements that the consumer is to receive.
NextRun(d, k) ==
    /\ d \in Seq(Int) /\ Len(d) = k /\ Len(sink) + k <= in
    /\ \A j \in 1 .. k : d[j] = Len(sink) + j - 1

\* k places of an extent that hold the elements that the consumer is to receive.
LEMMA ChunkRun ==
    ASSUME ConstantsOK, NEW b, NEW lo, NEW top, Chain(ext, tail, b, lo, in, top), SinkInv,
           NEW i \in 1 .. Len(ext), NEW p \in Nat, NEW k \in Nat, ext[i].r <= p,
           p + k <= ext[i].w, b[i] + p = Len(sink)
    PROVE  NextRun(Chunk(ext[i], p, k), k)
<1>d. PICK d : d = Chunk(ext[i], p, k)
  OBVIOUS
<1>0. ConstantsOK /\ XSize \in Nat /\ Chain(ext, tail, b, lo, in, top) /\ i \in 1 .. Len(ext)
  OBVIOUS
<1>1. ext[i] \in Extents /\ ext[i].r \in Int /\ ext[i].w \in 0 .. XSize /\ b[i] \in Int
  BY ONLY <1>0, ChainType
<1>2. /\ in \in 0 .. Total /\ in \in Int /\ sink \in Seq(Int)
      /\ Len(sink) \in Nat /\ Len(sink) <= in
      /\ \A j \in DOMAIN sink : sink[j] = j - 1
  BY DEF SinkInv, ElementsInOrder
<1>3. \A j \in Places : p <= j /\ j < p + k => ext[i].data[j] = b[i] + j
  <2> SUFFICES ASSUME NEW j \in Places, p <= j, j < p + k PROVE ext[i].data[j] = b[i] + j
    OBVIOUS
  <2>0. j \in Int /\ p \in Nat /\ k \in Nat /\ p <= j /\ j < p + k /\ p + k <= ext[i].w
        /\ ext[i].r <= p
    BY DEF Places
  <2>1. ext[i].w > 0 /\ ext[i].r <= j /\ j < ext[i].w
    BY ONLY <1>0, <1>1, <2>0
  <2>2. j \in Places
    OBVIOUS
  <2> QED BY ONLY <1>0, <2>1, <2>2, ReadableData
<1>4. p + k <= XSize /\ b[i] + p = Len(sink) /\ p \in Nat /\ k \in Nat
  <2>1. p + k <= ext[i].w /\ p \in Nat /\ k \in Nat /\ b[i] + p = Len(sink)
    OBVIOUS
  <2> QED BY ONLY <1>0, <1>1, <2>1
<1>5. d \in Seq(Int) /\ Len(d) = k /\ \A j \in 1 .. k : d[j] = Len(sink) + j - 1
  <2>1. d = Chunk(ext[i], p, k)
    BY ONLY <1>d
  <2>2. ASSUME NEW j \in 1 .. k PROVE d[j] = Len(sink) + j - 1
    <3>1. j \in Int /\ j >= 1 /\ j <= k
      BY ONLY <1>4, <2>2
    <3>2. PICK q \in Int : q = p + j - 1
      BY ONLY <1>4, <3>1
    <3>3. q \in Places /\ p <= q /\ q < p + k
      BY ONLY <1>0, <1>4, <3>1, <3>2 DEF Places
    <3>4. d[j] = ext[i].data[q]
      BY ONLY <2>1, <2>2, <3>2 DEF Chunk
    <3>5. ext[i].data[q] = b[i] + q
      BY ONLY <1>3, <3>3
    <3>6. b[i] + q = Len(sink) + j - 1
      <4>1. PICK v \in Int : v = b[i]
        BY ONLY <1>1
      <4>2. v + p = Len(sink) /\ Len(sink) \in Int /\ p \in Int /\ j \in Int
        BY ONLY <1>2, <1>4, <3>1, <4>1
      <4>3. v + q = Len(sink) + j - 1
        BY ONLY <3>2, <4>1, <4>2
      <4> QED BY ONLY <4>1, <4>3
    <3> QED BY ONLY <3>4, <3>5, <3>6
  <2>3. d \in Seq(Int) /\ Len(d) = k
    <3>1. d = [j \in 1 .. k |-> d[j]]
      BY ONLY <1>4, <2>1 DEF Chunk
    <3>2. \A j \in 1 .. k : d[j] \in Int
      BY ONLY <1>2, <1>4, <2>2
    <3>3. d \in [1 .. k -> Int]
      BY ONLY <3>1, <3>2
    <3> QED BY ONLY <1>4, <3>3
  <2> QED BY ONLY <2>2, <2>3
<1>6. Len(sink) + k <= in
  <2>1. CASE k = 0
    BY ONLY <1>2, <2>1
  <2>2. CASE k # 0
    <3>1. p + k <= ext[i].w
      OBVIOUS
    <3>2. ext[i].w > 0
      BY ONLY <1>0, <1>1, <1>4, <2>2, <3>1
    <3>3. b[i] + ext[i].w <= in
      BY ONLY <1>0, <3>2, ReadableData
    <3>4. PICK v \in Int, w \in Int : v = b[i] /\ w = ext[i].w
      BY ONLY <1>0, <1>1
    <3>5. PICK l \in Int : l = Len(sink)
      BY ONLY <1>2
    <3>6. /\ v \in Int /\ w \in Int /\ l \in Int /\ p \in Int /\ k \in Int /\ in \in Int
          /\ p + k <= w /\ v + w <= in /\ v + p = l
      BY ONLY <1>2, <1>4, <3>1, <3>3, <3>4, <3>5
    <3>7. l + k <= in
      BY ONLY <3>6
    <3> QED BY ONLY <3>5, <3>7
  <2> QED BY ONLY <2>1, <2>2
<1> QED BY ONLY <1>5, <1>6, <1>d DEF NextRun

\* The consumer receives them.
LEMMA SinkGrows ==
    ASSUME ConstantsOK, SinkInv, NEW d, NEW k, NextRun(d, k), sink' = sink \o d, in' = in
    PROVE  SinkInv' /\ Len(sink') = Len(sink) + k
<1>0. /\ d \in Seq(Int) /\ Len(d) = k /\ Len(sink) + Len(d) <= in
      /\ \A j \in 1 .. Len(d) : d[j] = Len(sink) + j - 1
  BY DEF NextRun
<1>1. /\ in \in 0 .. Total /\ sink \in Seq(Int) /\ \A j \in DOMAIN sink : sink[j] = j - 1
  BY DEF SinkInv, ElementsInOrder
<1>2. /\ sink' \in Seq(Int) /\ Len(sink') = Len(sink) + Len(d)
      /\ \A j \in DOMAIN sink' : sink'[j] = j - 1
  BY <1>0, <1>1, AppendRun
<1>3. Len(sink') <= in' /\ in' \in 0 .. Total
  BY <1>0, <1>1, <1>2
<1> QED BY ONLY <1>0, <1>2, <1>3 DEF SinkInv, ElementsInOrder

\* A turn of the loops of read() and discard(): what the head has, and what is left.
LEMMA TurnLeft ==
    ASSUME ConstantsOK, NEW b, Parts(b), NEW k, k = Least(loop.left, readable(ext[1]))
    PROVE  /\ k \in Nat /\ k <= readable(ext[1]) /\ loop.left - k \in Nat
           /\ ext[1].r \in Nat /\ ext[1].r + k <= ext[1].w
<1>0. ConstantsOK
  OBVIOUS
<1>1. Chain(ext, tail, b, Len(sink) - Undiscarded, in, in + Uncommitted) /\ loop.left \in Nat
  BY PartsType
<1>2. 1 \in 1 .. Len(ext)
  BY ONLY <1>1 DEF Chain, Shape
<1>3. ext[1].r \in 0 .. XSize /\ ext[1].w \in 0 .. XSize /\ ext[1].r <= ext[1].w
  BY ONLY <1>0, <1>1, <1>2, ChainType
<1>4. PICK n \in Nat : n = loop.left
  BY ONLY <1>1
<1>5. PICK r \in Nat, w \in Nat : r = ext[1].r /\ w = ext[1].w /\ r <= w
  BY ONLY <1>0, <1>3
<1>6. PICK m \in Nat : m = w - r
  BY ONLY <1>5
<1>7. readable(ext[1]) = m
  BY ONLY <1>5, <1>6 DEF readable
<1>8. k = Least(n, m)
  BY <1>4, <1>7
<1>9. k \in Nat /\ k <= m /\ n - k \in Nat
  BY ONLY <1>4, <1>6, <1>8, LeastOf
<1>10. r + k <= w
  BY ONLY <1>5, <1>6, <1>9
<1> QED BY ONLY <1>4, <1>5, <1>7, <1>9, <1>10

\* One turn of the loop of read().
LEMMA ReadChunkInv ==
    ASSUME ConstantsOK, IndInv, ReadChunk
    PROVE  IndInv'
<1>1. PICK b \in [1 .. Len(ext) -> Int] : Parts(b)
  BY DEF IndInv
<1> DEFINE k == Least(loop.left, readable(ext[1]))
<1>0. ConstantsOK
  OBVIOUS
<1>2. /\ loop.op = "read" /\ sink' = sink \o Chunk(ext[1], ext[1].r, k) /\ Consume(k)
      /\ loop' = (IF k = 0 THEN NoLoop ELSE Loop("read", loop.left - k))
      /\ in' = in /\ lent' = lent /\ call' = call
  BY DEF ReadChunk
<1>3. /\ k \in Nat /\ k <= readable(ext[1]) /\ loop.left - k \in Nat
      /\ ext[1].r \in Nat /\ ext[1].r + k <= ext[1].w
  BY ONLY <1>0, <1>1, TurnLeft
<1> HIDE DEF k
<1>4. /\ loop' \in [op : {"none", "write", "fill", "commit", "read", "discard"},
                    left : Nat, i : Nat]
      /\ loop'.op \in {"none", "read"} /\ (loop'.op = "none" => loop' = NoLoop)
      /\ (loop'.op # "none" => loop'.left > 0)
  <2>1. CASE k = 0
    BY ONLY <1>2, <2>1, LoopIs
  <2>2. CASE k # 0
    <3>1. loop' = Loop("read", loop.left - k)
      BY ONLY <1>2, <2>2
    <3>2. PICK m \in Nat : m = loop.left - k
      BY ONLY <1>3
    <3>3. loop' = Loop("read", m)
      BY ONLY <3>1, <3>2
    <3>4. m \in Nat
      BY ONLY <3>2
    <3>5. LoopAt(loop', "read", m)
      BY ONLY <3>3, <3>4, LoopGoesOn
    <3> QED BY ONLY <3>5 DEF LoopAt
  <2> QED BY ONLY <2>1, <2>2
<1>t. /\ Chain(ext, tail, b, Len(sink) - Undiscarded, in, in + Uncommitted)
      /\ in \in Int /\ Len(sink) \in Nat /\ SinkInv
  BY ONLY <1>0, <1>1, PartsType
<1>5. /\ LentInv' /\ call = NoCall
      /\ \E c \in [1 .. Len(ext') -> Int] :
            Chain(ext', tail', c, Len(sink) - Undiscarded + k, in, in) /\ CallInv(c)'
  BY ONLY <1>0, <1>1, <1>2, <1>3, <1>4, ConsumeStep
<1>6. PICK c \in [1 .. Len(ext') -> Int] :
            Chain(ext', tail', c, Len(sink) - Undiscarded + k, in, in) /\ CallInv(c)'
  BY ONLY <1>5
<1>7. Undiscarded = 0 /\ Undiscarded' = 0 /\ Uncommitted' = 0
  <2>1. call.n = 0 /\ call'.n = 0
    BY ONLY <1>2, <1>5 DEF NoCall
  <2> QED BY ONLY <1>2, <1>4, <2>1 DEF Undiscarded, Uncommitted
<1>8. SinkInv' /\ Len(sink') = Len(sink) + k
  <2>1. 1 \in 1 .. Len(ext) /\ b[1] + ext[1].r = Len(sink) - Undiscarded
    BY ONLY <1>t DEF Chain, Shape
  <2>2. PICK p \in Nat : p = ext[1].r
    BY ONLY <1>3
  <2>3. /\ b[1] + p = Len(sink) /\ ext[1].r <= p /\ p + k <= ext[1].w /\ k \in Nat
        /\ sink' = sink \o Chunk(ext[1], p, k) /\ in' = in
    BY ONLY <1>2, <1>3, <1>7, <1>t, <2>1, <2>2
  <2>4. p \in Nat
    BY ONLY <2>2
  <2>5. PICK i \in 1 .. Len(ext) : i = 1
    BY ONLY <2>1
  <2>6. /\ b[i] + p = Len(sink) /\ ext[i].r <= p /\ p + k <= ext[i].w /\ k \in Nat
        /\ sink' = sink \o Chunk(ext[i], p, k) /\ in' = in
    BY ONLY <2>3, <2>5
  <2>7. PICK lo, top : lo = Len(sink) - Undiscarded /\ top = in + Uncommitted
    OBVIOUS
  <2>8. Chain(ext, tail, b, lo, in, top) /\ SinkInv
    BY ONLY <1>t, <2>7
  <2>9. PICK d : d = Chunk(ext[i], p, k)
    OBVIOUS
  <2>10. NextRun(d, k)
    BY ONLY <1>0, <2>4, <2>5, <2>6, <2>8, <2>9, ChunkRun
  <2>11. sink' = sink \o d /\ in' = in
    BY ONLY <2>6, <2>9
  <2> QED BY ONLY <1>0, <2>8, <2>10, <2>11, SinkGrows
<1>9. Chain(ext', tail', c, Len(sink') - Undiscarded', in', in' + Uncommitted')
  <2>1. Len(sink') - Undiscarded' = Len(sink) - Undiscarded + k
    BY ONLY <1>3, <1>7, <1>8, <1>t
  <2>2. in' + Uncommitted' = in
    BY ONLY <1>2, <1>7, <1>t, PlusNone
  <2> QED BY ONLY <1>2, <1>6, <2>1, <2>2
<1>10. LoopInv(c)'
  BY ONLY <1>2, <1>4, <1>5 DEF LoopInv
<1> QED BY ONLY <1>5, <1>6, <1>8, <1>9, <1>10 DEF IndInv, Parts

\* One turn of the loop of discard().
LEMMA DiscardChunkInv ==
    ASSUME ConstantsOK, IndInv, DiscardChunk
    PROVE  IndInv'
<1>1. PICK b \in [1 .. Len(ext) -> Int] : Parts(b)
  BY DEF IndInv
<1> DEFINE k == Least(loop.left, readable(ext[1]))
<1>0. ConstantsOK
  OBVIOUS
<1>2. /\ loop.op = "discard" /\ Consume(k) /\ loop' = Loop("discard", loop.left - k)
      /\ in' = in /\ sink' = sink /\ lent' = lent /\ call' = call
  BY DEF DiscardChunk
<1>3. /\ k \in Nat /\ k <= readable(ext[1]) /\ loop.left - k \in Nat
  BY ONLY <1>0, <1>1, TurnLeft
<1> HIDE DEF k
<1>4. /\ loop' \in [op : {"none", "write", "fill", "commit", "read", "discard"},
                    left : Nat, i : Nat]
      /\ loop'.op \in {"none", "discard"} /\ (loop'.op = "none" => loop' = NoLoop)
      /\ (loop'.op # "none" => loop'.left > 0) /\ loop'.left = loop.left - k
  <2>1. PICK n \in Nat : n = loop.left - k
    BY ONLY <1>3
  <2>2. n \in Nat
    BY ONLY <2>1
  <2>3. LoopAt(Loop("discard", n), "discard", n)
    BY ONLY <2>2, LoopGoesOn
  <2>4. loop' = Loop("discard", n)
    BY ONLY <1>2, <2>1
  <2> QED BY ONLY <2>1, <2>3, <2>4 DEF LoopAt
<1>t. in \in Int /\ Len(sink) \in Nat /\ SinkInv /\ loop.left \in Nat
  BY ONLY <1>0, <1>1, PartsType
<1>5. /\ LentInv' /\ call = NoCall
      /\ \E c \in [1 .. Len(ext') -> Int] :
            Chain(ext', tail', c, Len(sink) - Undiscarded + k, in, in) /\ CallInv(c)'
  BY ONLY <1>0, <1>1, <1>2, <1>3, <1>4, ConsumeStep
<1>6. PICK c \in [1 .. Len(ext') -> Int] :
            Chain(ext', tail', c, Len(sink) - Undiscarded + k, in, in) /\ CallInv(c)'
  BY ONLY <1>5
<1>7. Undiscarded = loop.left /\ Undiscarded' = loop.left - k /\ Uncommitted' = 0
  <2>1. Undiscarded = loop.left /\ Uncommitted' = 0
    BY ONLY <1>2, <1>4 DEF Undiscarded, Uncommitted
  <2>2. call'.n = 0 /\ NoLoop.left = 0
    BY ONLY <1>2, <1>5 DEF NoCall, NoLoop
  <2>3. Undiscarded' = loop'.left
    BY ONLY <1>4, <2>2 DEF Undiscarded
  <2> QED BY ONLY <1>4, <2>1, <2>3
<1>8. SinkInv'
  BY ONLY <1>2, <1>t DEF SinkInv, ElementsInOrder
<1>9. Chain(ext', tail', c, Len(sink') - Undiscarded', in', in' + Uncommitted')
  <2>1. Len(sink') - Undiscarded' = Len(sink) - Undiscarded + k
    BY ONLY <1>2, <1>3, <1>7, <1>t
  <2>2. in' + Uncommitted' = in
    BY ONLY <1>2, <1>7, <1>t, PlusNone
  <2> QED BY ONLY <1>2, <1>6, <2>1, <2>2
<1>10. LoopInv(c)'
  BY ONLY <1>2, <1>4, <1>5 DEF LoopInv
<1> QED BY ONLY <1>5, <1>6, <1>8, <1>9, <1>10 DEF IndInv, Parts

\* A write function takes the lengths of the readable ranges.
LEMMA WriteBeginInv ==
    ASSUME ConstantsOK, IndInv, NEW all \in BOOLEAN, WriteBegin(all)
    PROVE  IndInv'
<1>1. PICK b \in [1 .. Len(ext) -> Int] : Parts(b)
  BY DEF IndInv
<1> DEFINE m == IF all THEN Least(MaxRanges, Len(ext)) ELSE 1
           lens == [i \in 1 .. m |-> readable(ext[i])]
<1>0. ConstantsOK /\ XSize \in Nat /\ MaxRanges \in Nat \ {0} /\ all \in BOOLEAN
  OBVIOUS
<1>2. /\ loop = NoLoop /\ call = NoCall /\ readable(ext[1]) > 0
      /\ call' = [lens |-> lens, i |-> 1, off |-> 0, n |-> 0, all |-> all]
      /\ ext' = ext /\ tail' = tail /\ in' = in /\ sink' = sink /\ lent' = lent /\ loop' = loop
  BY DEF WriteBegin, MayGet, readable_ranges
<1>3. /\ Chain(ext, tail, b, Len(sink) - Undiscarded, in, in + Uncommitted)
      /\ Len(sink) \in Nat /\ LentInv /\ LoopInv(b) /\ SinkInv
  BY ONLY <1>0, <1>1, PartsType
<1>4. /\ tail \in 1 .. Len(ext) /\ tail \in Nat /\ Len(ext) \in Nat
      /\ \A i \in 1 .. Len(ext) : /\ ext[i].w \in 0 .. XSize /\ ext[i].r \in 0 .. XSize
                                  /\ ext[i].r <= ext[i].w /\ b[i] \in Int
      /\ b[1] + ext[1].r = Len(sink) - Undiscarded
  BY ONLY <1>0, <1>3, ChainType
<1>5. m \in 1 .. Len(ext) /\ m \in Nat
  BY ONLY <1>0, <1>4 DEF Least
<1> HIDE DEF m
<1>6. \A i \in 1 .. m : i \in 1 .. Len(ext) /\ lens[i] = ext[i].w - ext[i].r /\ lens[i] \in Nat
  <2> SUFFICES ASSUME NEW i \in 1 .. m
               PROVE  i \in 1 .. Len(ext) /\ lens[i] = ext[i].w - ext[i].r /\ lens[i] \in Nat
    OBVIOUS
  <2>1. i \in 1 .. Len(ext)
    BY ONLY <1>4, <1>5
  <2>2. lens[i] = ext[i].w - ext[i].r
    BY DEF readable
  <2>3. ext[i].w \in 0 .. XSize /\ ext[i].r \in 0 .. XSize /\ ext[i].r <= ext[i].w
    BY ONLY <1>4, <2>1
  <2> HIDE DEF lens
  <2> QED BY ONLY <1>0, <2>1, <2>2, <2>3
<1>7. lens \in Seq(Nat) /\ Len(lens) = m
  <2>1. lens = [i \in 1 .. m |-> lens[i]]
    OBVIOUS
  <2> HIDE DEF lens
  <2>2. lens \in [1 .. m -> Nat]
    BY ONLY <1>6, <2>1
  <2> QED BY ONLY <1>5, <2>2
<1>8. lens[1] > 0 /\ 1 \in 1 .. m
  <2>1. 1 \in 1 .. m
    BY ONLY <1>5
  <2>2. lens[1] = ext[1].w - ext[1].r
    BY ONLY <1>6, <2>1
  <2> HIDE DEF lens
  <2> QED BY ONLY <1>2, <2>1, <2>2 DEF readable
<1> HIDE DEF lens
<1>9. ASSUME NEW i \in 1 .. m, NEW k \in 1 .. m, i < k, lens[k] > 0 PROVE i < tail
  <2>1. k \in 1 .. Len(ext) /\ lens[k] = ext[k].w - ext[k].r
    BY ONLY <1>6, <1>9
  <2>2. ext[k].w \in 0 .. XSize /\ ext[k].r \in 0 .. XSize
    BY ONLY <1>4, <2>1
  <2>3. ext[k].w > 0
    BY ONLY <1>0, <1>9, <2>1, <2>2
  <2>4. PICK lo, top : Chain(ext, tail, b, lo, in, top)
    BY ONLY <1>3
  <2>5. k <= tail
    BY ONLY <1>0, <2>1, <2>3, <2>4, ReadableData
  <2> QED BY ONLY <1>4, <1>5, <1>9, <2>5
<1>10. Undiscarded = 0 /\ Undiscarded' = 0 /\ Uncommitted' = Uncommitted
  BY ONLY <1>2 DEF Undiscarded, Uncommitted, NoLoop, NoCall
<1>11. CallInv(b)'
  <2>1. call' \in [lens : Seq(Nat), i : Nat, off : Nat, n : Nat, all : BOOLEAN]
    BY ONLY <1>0, <1>2, <1>7
  <2>2. call'.lens = lens /\ call'.i = 1 /\ call'.off = 0
    BY ONLY <1>2
  <2>3. Len(lens) <= Len(ext') /\ call'.i \in 1 .. Len(lens) /\ call'.off < lens[call'.i]
    BY ONLY <1>2, <1>4, <1>5, <1>7, <1>8, <2>2
  <2>4. \A i \in 1 .. m : lens[i] = ext'[i].w - ext'[i].r /\ lens[i] <= ext'[i].w - ext'[i].r
    BY ONLY <1>2, <1>6
  <2>5. \A i, k \in 1 .. m : i < k /\ lens[k] > 0 => i < tail'
    BY ONLY <1>2, <1>9
  <2>6. Len(sink') = b[call'.i] + ext'[call'.i].r + call'.off
    <3>1. 1 \in 1 .. Len(ext)
      BY ONLY <1>4
    <3>2. b[1] \in Int /\ ext[1].r \in Int /\ b[1] + ext[1].r = Len(sink) - Undiscarded
      BY ONLY <1>0, <1>4, <3>1
    <3>3. b[1] + ext[1].r + 0 = Len(sink)
      BY ONLY <1>3, <1>10, <3>2
    <3> QED BY ONLY <1>2, <2>2, <3>3
  <2> QED BY ONLY <1>7, <2>1, <2>2, <2>3, <2>4, <2>5, <2>6 DEF CallInv
<1>12. Chain(ext', tail', b, Len(sink') - Undiscarded', in', in' + Uncommitted')
  BY ONLY <1>2, <1>3, <1>10
<1>13. SinkInv' /\ LentInv'
  BY ONLY <1>2, <1>3 DEF SinkInv, ElementsInOrder, LentInv
<1>14. LoopInv(b)'
  BY ONLY <1>2, <1>3 DEF LoopInv, NoLoop
<1>15. b \in [1 .. Len(ext') -> Int]
  BY ONLY <1>1, <1>2
<1> QED BY ONLY <1>11, <1>12, <1>13, <1>14, <1>15 DEF IndInv, Parts

\* The channel has accepted k elements of the range that the write function has come to.
LEMMA WriteSomeInv ==
    ASSUME ConstantsOK, IndInv, NEW k \in 1 .. XSize, WriteSome(k)
    PROVE  IndInv'
<1>1. PICK b \in [1 .. Len(ext) -> Int] : Parts(b)
  BY DEF IndInv
<1> DEFINE i == call.i
           more == call.off + k < call.lens[i]
           next == i < Len(call.lens) /\ call.lens[i + 1] > 0
<1>0. ConstantsOK /\ XSize \in Nat /\ k \in Nat /\ k # 0
  OBVIOUS
<1>2. /\ loop = NoLoop /\ loop.op = "none" /\ call # NoCall /\ call.off + k <= call.lens[i]
      /\ sink' = sink \o Chunk(ext[i], ext[i].r + call.off, k)
      /\ ext' = ext /\ tail' = tail /\ in' = in /\ lent' = lent
  BY DEF WriteSome, NoLoop
<1>3. /\ call.all /\ (more \/ next) =>
           /\ call' = [call EXCEPT !.n = @ + k, !.i = IF more THEN i ELSE i + 1,
                                   !.off = IF more THEN call.off + k ELSE 0]
           /\ loop' = loop
      /\ ~(call.all /\ (more \/ next)) => call' = NoCall /\ loop' = Loop("discard", call.n + k)
  BY DEF WriteSome
<1>4. /\ Chain(ext, tail, b, Len(sink) - Undiscarded, in, in + Uncommitted)
      /\ Len(sink) \in Nat /\ LentInv /\ LoopInv(b) /\ SinkInv /\ CallInv(b)
  BY ONLY <1>0, <1>1, PartsType
<1>c. call \in [lens : Seq(Nat), i : Nat, off : Nat, n : Nat, all : BOOLEAN]
  BY ONLY <1>4 DEF CallInv
<1>d. /\ Len(call.lens) <= Len(ext) /\ i \in 1 .. Len(call.lens)
      /\ \A j \in 1 .. Len(call.lens) : call.lens[j] <= ext[j].w - ext[j].r
      /\ \A j, h \in 1 .. Len(call.lens) :
            j < h /\ call.lens[h] > 0 => j < tail /\ call.lens[j] = ext[j].w - ext[j].r
      /\ Len(sink) = b[i] + ext[i].r + call.off
  BY ONLY <1>2, <1>4 DEF CallInv
<1>5. PICK lo, top : Chain(ext, tail, b, lo, in, top) /\ lo = Len(sink) - Undiscarded
                     /\ top = in + Uncommitted
  BY ONLY <1>4
<1>e. /\ tail \in 1 .. Len(ext) /\ tail \in Nat /\ Len(ext) \in Nat
      /\ \A j \in 1 .. Len(ext) : /\ ext[j].w \in 0 .. XSize /\ ext[j].r \in 0 .. XSize
                                  /\ b[j] \in Int
  BY ONLY <1>0, <1>5, ChainType
<1>6. /\ call.n \in Nat /\ call.off \in Nat /\ i \in Nat
      /\ Len(call.lens) \in Nat /\ call.lens \in Seq(Nat)
  BY ONLY <1>c
<1>7. i \in 1 .. Len(ext) /\ call.lens[i] \in Nat /\ call.lens[i] <= ext[i].w - ext[i].r
  <2>1. i \in Int /\ 1 <= i /\ i <= Len(call.lens) /\ Len(call.lens) <= Len(ext)
    BY ONLY <1>d, <1>6
  <2>2. i \in 1 .. Len(ext)
    BY ONLY <1>e, <1>6, <2>1
  <2>3. call.lens[i] \in Nat
    <3>1. i \in 1 .. Len(call.lens) /\ call.lens \in Seq(Nat)
      BY ONLY <1>d, <1>6
    <3> HIDE DEF i
    <3> QED BY ONLY <3>1
  <2> QED BY ONLY <1>d, <2>2, <2>3
<1>8. ext[i].w \in Nat /\ ext[i].r \in Nat /\ b[i] \in Int
  BY ONLY <1>0, <1>e, <1>7
<1> HIDE DEF i
<1>v. PICK r \in Nat, w \in Nat, v \in Int, o \in Nat, l \in Nat, z \in Nat :
         /\ r = ext[i].r /\ w = ext[i].w /\ v = b[i] /\ o = call.off /\ l = call.lens[i]
         /\ z = Len(sink)
  BY ONLY <1>4, <1>6, <1>7, <1>8
<1>w. o + k <= l /\ l <= w - r /\ z = v + r + o /\ k \in Nat
  BY ONLY <1>0, <1>2, <1>d, <1>7, <1>v
<1>x. /\ r + o \in Nat /\ (r + o) + k <= w /\ r <= r + o /\ v + (r + o) = z
      /\ z + k = v + r + (o + k)
  BY ONLY <1>w
<1>9. SinkInv' /\ Len(sink') = Len(sink) + k
  <2>1. PICK p \in Nat : p = r + o
    BY ONLY <1>x
  <2>2. p + k <= ext[i].w /\ ext[i].r <= p
    BY ONLY <1>v, <1>x, <2>1
  <2>3. b[i] + p = Len(sink) /\ p \in Nat
    BY ONLY <1>v, <1>x, <2>1
  <2>4. PICK d : d = Chunk(ext[i], p, k)
    OBVIOUS
  <2>5. NextRun(d, k)
    BY ONLY <1>0, <1>4, <1>5, <1>7, <2>2, <2>3, <2>4, ChunkRun
  <2>6. sink' = sink \o d /\ in' = in
    BY ONLY <1>2, <1>v, <2>1, <2>4
  <2> QED BY ONLY <1>0, <1>4, <2>5, <2>6, SinkGrows
<1>10. Undiscarded = call.n /\ Uncommitted = 0
  BY ONLY <1>2 DEF Undiscarded, Uncommitted
<1>11. b \in [1 .. Len(ext') -> Int]
  BY ONLY <1>1, <1>2
<1>12. ASSUME Undiscarded' = call.n + k, Uncommitted' = 0
       PROVE  Chain(ext', tail', b, Len(sink') - Undiscarded', in', in' + Uncommitted')
  <2>1. Len(sink') - Undiscarded' = lo
    BY ONLY <1>0, <1>4, <1>5, <1>6, <1>9, <1>10, <1>12
  <2> QED BY ONLY <1>2, <1>5, <1>10, <1>12, <2>1
<1>13. CASE call.all /\ (more \/ next)
  <2> DEFINE I == IF more THEN i ELSE i + 1
             O == IF more THEN call.off + k ELSE 0
  <2>1. call' = [call EXCEPT !.n = call.n + k, !.i = I, !.off = O] /\ loop' = loop
    BY <1>3, <1>13 DEF i
  <2>2. /\ I \in Nat /\ O \in Nat /\ I \in 1 .. Len(call.lens) /\ O < call.lens[I]
        /\ Len(sink') = b[I] + ext[I].r + O
    <3>1. CASE more
      <4>1. I = i /\ O = call.off + k /\ call.off + k < call.lens[i]
        BY <3>1
      <4> HIDE DEF I, O, more
      <4>2. O \in Nat
        BY ONLY <1>0, <1>6, <4>1
      <4>3. Len(sink) + k = b[i] + ext[i].r + (call.off + k)
        BY ONLY <1>v, <1>x
      <4> QED BY ONLY <1>d, <1>6, <1>9, <4>1, <4>2, <4>3
    <3>2. CASE ~more
      <4>1. I = i + 1 /\ O = 0 /\ i < Len(call.lens) /\ call.lens[i + 1] > 0
        BY <1>13, <3>2
      <4>2. ~(call.off + k < call.lens[i])
        BY <3>2
      <4> HIDE DEF I, O, more
      <4>3. /\ i + 1 \in 1 .. Len(call.lens) /\ i + 1 \in Nat /\ i < i + 1
            /\ i + 1 \in 2 .. Len(ext) /\ i \in 1 .. Len(ext) - 1
        <5>1. i \in Int /\ 1 <= i /\ i < Len(call.lens) /\ Len(call.lens) <= Len(ext)
          BY ONLY <1>d, <1>6, <4>1
        <5>2. Len(call.lens) \in Nat /\ Len(ext) \in Nat
          BY ONLY <1>e, <1>6
        <5> QED BY ONLY <5>1, <5>2
      <4>4. PICK h \in 1 .. Len(call.lens) : h = i + 1
        BY ONLY <4>3
      <4>5. i < tail /\ call.lens[i] = ext[i].w - ext[i].r
        <5>1. i < h /\ call.lens[h] > 0
          BY ONLY <4>1, <4>3, <4>4
        <5> QED BY ONLY <1>d, <4>4, <5>1
      <4>6. b[i + 1] = b[i] + ext[i].w
        <5>1. Reach(ext, tail, i) = ext[i].w
          BY ONLY <4>5 DEF Reach
        <5> QED BY ONLY <1>5, <4>3, <5>1, ChainNumbers
      <4>7. ext[i + 1].r = 0
        BY ONLY <1>5, <4>3, ChainShape
      <4>8. Len(sink') = b[i] + ext[i].w
        <5>1. l = w - r /\ ~(o + k < l)
          BY ONLY <1>v, <4>2, <4>5
        <5>2. z + k = v + w
          BY ONLY <1>w, <5>1
        <5> QED BY ONLY <1>9, <1>v, <5>2
      <4>9. Len(sink') = b[I] + ext[I].r + O
        <5>1. b[I] = b[i] + ext[i].w /\ ext[I].r = 0
          BY ONLY <4>1, <4>6, <4>7
        <5> QED BY ONLY <1>8, <4>1, <4>8, <5>1
      <4> QED BY ONLY <4>1, <4>3, <4>9
    <3> QED BY ONLY <3>1, <3>2
  <2> HIDE DEF I, O
  <2>3. /\ call' \in [lens : Seq(Nat), i : Nat, off : Nat, n : Nat, all : BOOLEAN]
        /\ call'.lens = call.lens /\ call'.i = I /\ call'.off = O /\ call'.n = call.n + k
    <3>1. call.n + k \in Nat
      BY ONLY <1>0, <1>6
    <3> QED BY ONLY <1>c, <2>1, <2>2, <3>1
  <2>4. CallInv(b)'
    BY ONLY <1>2, <1>d, <2>2, <2>3 DEF CallInv
  <2>5. Undiscarded' = call.n + k /\ Uncommitted' = 0
    BY ONLY <1>2, <2>1, <2>3 DEF Undiscarded, Uncommitted
  <2>6. LentInv'
    BY ONLY <1>2, <1>4, <2>1 DEF LentInv
  <2>7. LoopInv(b)'
    BY ONLY <1>2, <1>4, <2>1 DEF LoopInv
  <2> QED BY ONLY <1>9, <1>11, <1>12, <2>4, <2>5, <2>6, <2>7 DEF IndInv, Parts
<1>14. CASE ~(call.all /\ (more \/ next))
  <2>1. call' = NoCall /\ loop' = Loop("discard", call.n + k)
    BY ONLY <1>3, <1>14
  <2>2. PICK n \in Nat : n = call.n + k /\ n # 0
    BY ONLY <1>0, <1>6
  <2>3. /\ loop' \in [op : {"none", "write", "fill", "commit", "read", "discard"},
                      left : Nat, i : Nat]
        /\ loop'.op = "discard" /\ loop'.left = n /\ loop'.left > 0
    <3>1. loop' = Loop("discard", n)
      BY ONLY <2>1, <2>2
    <3>2. n \in Nat /\ n # 0
      BY ONLY <2>2
    <3> QED BY ONLY <3>1, <3>2, LoopIs
  <2>4. CallInv(b)'
    BY ONLY <2>1 DEF CallInv, NoCall
  <2>5. Undiscarded' = call.n + k /\ Uncommitted' = 0
    BY ONLY <2>2, <2>3 DEF Undiscarded, Uncommitted
  <2>6. LentInv'
    BY ONLY <1>2, <1>4, <2>3 DEF LentInv
  <2>7. LoopInv(b)'
    BY ONLY <2>1, <2>3 DEF LoopInv
  <2> QED BY ONLY <1>9, <1>11, <1>12, <2>4, <2>5, <2>6, <2>7 DEF IndInv, Parts
<1> QED BY ONLY <1>13, <1>14

-----------------------------------------------------------------------------
(* The theorems.                                                            *)

\* The buffer that the constructor makes: one extent, whose first element is to
\* be number 0.
LEMMA InitInv ==
    ASSUME ConstantsOK, Init
    PROVE  IndInv
<1> DEFINE b == [i \in 1 .. 1 |-> 0]
<1>0. ConstantsOK /\ XSize \in Nat /\ XSize # 0 /\ Total \in Nat
  OBVIOUS
<1>1. /\ tail = 1 /\ in = 0 /\ sink = << >> /\ lent = NotLent /\ call = NoCall /\ loop = NoLoop
      /\ ext = <<NewExtent>>
  BY DEF Init
<1>2. /\ ext \in Seq(Extents) /\ Len(ext) = 1 /\ ext[1].r = 0 /\ ext[1].w = 0
  BY ONLY <1>0, <1>1, NewExtentType
<1>3. b \in [1 .. Len(ext) -> Int] /\ b[1] = 0
  BY ONLY <1>2
<1> HIDE DEF b
<1>4. Undiscarded = 0 /\ Uncommitted = 0 /\ Len(sink) = 0
  BY ONLY <1>1 DEF Undiscarded, Uncommitted, NoLoop, NoCall
<1>5. Chain(ext, tail, b, 0, 0, 0)
  <2>1. Shape(ext, 1)
    BY ONLY <1>0, <1>2 DEF Shape, dead, readable, writable
  <2>2. Numbers(ext, 1, b)
    BY ONLY <1>2 DEF Numbers
  <2>3. Holds(ext, 1, b, 0)
    BY ONLY <1>0, <1>2, <1>3 DEF Holds, Places
  <2> QED BY ONLY <1>1, <1>2, <1>3, <2>1, <2>2, <2>3 DEF Chain
<1>6. Chain(ext, tail, b, Len(sink) - Undiscarded, in, in + Uncommitted)
  <2>1. Len(sink) - Undiscarded = 0 /\ in = 0 /\ in + Uncommitted = 0
    BY ONLY <1>1, <1>4
  <2> QED BY ONLY <1>5, <2>1
<1>7. SinkInv
  BY ONLY <1>0, <1>1 DEF SinkInv, ElementsInOrder
<1>8. LentInv
  BY ONLY <1>0, <1>1 DEF LentInv, NotLent
<1>9. LoopInv(b)
  BY ONLY <1>1 DEF LoopInv, NoLoop
<1>10. CallInv(b)
  BY ONLY <1>1 DEF CallInv, NoCall
<1> QED BY ONLY <1>3, <1>6, <1>7, <1>8, <1>9, <1>10 DEF IndInv, Parts

\* Every step preserves the invariant.
LEMMA StepInv ==
    ASSUME ConstantsOK, IndInv, [Next]_vars
    PROVE  IndInv'
<1>1. CASE UNCHANGED vars
  <2>1. /\ ext' = ext /\ tail' = tail /\ in' = in /\ sink' = sink /\ lent' = lent
        /\ call' = call /\ loop' = loop
    BY <1>1 DEF vars
  <2>2. PICK b \in [1 .. Len(ext) -> Int] : Parts(b)
    BY DEF IndInv
  <2>3. Undiscarded' = Undiscarded /\ Uncommitted' = Uncommitted
    BY ONLY <2>1 DEF Undiscarded, Uncommitted
  <2>4. Chain(ext', tail', b, Len(sink') - Undiscarded', in', in' + Uncommitted')
    BY ONLY <2>1, <2>2, <2>3 DEF Parts
  <2>5. SinkInv'
    BY ONLY <2>1, <2>2 DEF Parts, SinkInv, ElementsInOrder
  <2>6. LentInv'
    BY ONLY <2>1, <2>2 DEF Parts, LentInv
  <2>7. LoopInv(b)'
    BY ONLY <2>1, <2>2 DEF Parts, LoopInv
  <2>8. CallInv(b)'
    BY ONLY <2>1, <2>2 DEF Parts, CallInv
  <2> QED BY ONLY <2>1, <2>2, <2>4, <2>5, <2>6, <2>7, <2>8 DEF IndInv, Parts
<1>2. CASE \E n \in Counts : Write(n) \/ Read(n)
  BY <1>2, WriteInv, ReadInv
<1>3. CASE WriteChunk \/ CommitChunk \/ ReadChunk \/ DiscardChunk
  BY <1>3, WriteChunkInv, CommitChunkInv, ReadChunkInv, DiscardChunkInv
<1>4. CASE ReadSomeBegin \/ ReadAll \/ WriteFails
  BY <1>4, ReadSomeBeginInv, ReadAllInv, WriteFailsInv
<1>5. CASE \E k \in 0 .. XSize : ReadSomeEnd(k) \/ FillRange(k)
  BY <1>5, ReadSomeEndInv, FillRangeInv
<1>6. CASE \E k \in 1 .. XSize : WriteSome(k)
  BY <1>6, WriteSomeInv
<1>7. CASE \E all \in BOOLEAN : WriteBegin(all)
  BY <1>7, WriteBeginInv
<1> QED BY <1>1, <1>2, <1>3, <1>4, <1>5, <1>6, <1>7 DEF Next

\* What the invariant says of the SK_CHECKs and of a stalled consumer.
LEMMA InvImplies ==
    ASSUME ConstantsOK, IndInv
    PROVE  ElementsInOrder /\ ExtentsSound /\ StallsOnlyBehindGap
<1>0. ConstantsOK /\ XSize \in Nat
  OBVIOUS
<1>1. PICK b \in [1 .. Len(ext) -> Int] : Parts(b)
  BY DEF IndInv
<1>2. PICK lo, top : /\ Chain(ext, tail, b, lo, in, top) /\ lo = Len(sink) - Undiscarded
  BY ONLY <1>1 DEF Parts
<1>3. /\ in \in 0 .. Total /\ in \in Int /\ Len(sink) \in Nat /\ Len(sink) <= in
      /\ loop.left \in Nat /\ call.n \in Nat /\ ElementsInOrder /\ LentInv
      /\ (loop.op = "discard" => loop.left > 0)
  BY ONLY <1>0, <1>1, PartsType DEF SinkInv, ElementsInOrder, LoopInv
<1>4. /\ ext \in Seq(Extents) /\ tail \in 1 .. Len(ext) /\ Len(ext) \in Nat /\ tail \in Nat
      /\ \A i \in 1 .. Len(ext) : /\ ext[i] \in Extents /\ ext[i].w \in 0 .. XSize
                                  /\ ext[i].r \in 0 .. XSize /\ ext[i].r <= ext[i].w
                                  /\ b[i] \in Int
      /\ b[1] + ext[1].r = lo /\ b[tail] + ext[tail].w = in
  BY ONLY <1>0, <1>2, ChainType
<1>5. ~dead(ext[1]) /\ \A i \in tail + 1 .. Len(ext) : ext[i].w = 0
  BY ONLY <1>2, ChainShape
<1>6. ExtentsSound
  <2>1. DOMAIN ext = 1 .. Len(ext)
    BY ONLY <1>4
  <2>2. lent.len \in -1 .. XSize
    BY ONLY <1>3 DEF LentInv
  <2>3. TypeOK
    BY ONLY <1>3, <1>4, <2>1, <2>2 DEF TypeOK
  <2>4. SparesEmpty /\ HeadNotDead
    BY ONLY <1>5 DEF SparesEmpty, HeadNotDead, empty
  <2>5. ASSUME loop.op = "commit", writable(ext[tail]) = 0, tail = Len(ext) PROVE FALSE
    <3>1. in + loop.left <= b[Len(ext)] + XSize /\ loop.left > 0
      BY ONLY <1>1, <2>5 DEF Parts, LoopInv
    <3>2. PICK w \in Int, v \in Int : w = ext[tail].w /\ v = b[tail]
      BY ONLY <1>0, <1>4
    <3>3. v + w = in /\ w = XSize /\ in + loop.left <= v + XSize
      BY ONLY <1>0, <1>4, <2>5, <3>1, <3>2 DEF writable
    <3> QED BY ONLY <1>0, <1>3, <3>1, <3>2, <3>3
  <2>6. tail = Len(ext) \/ tail < Len(ext)
    BY ONLY <1>4
  <2>7. CommitHasRoom
    BY ONLY <2>5, <2>6 DEF CommitHasRoom
  <2> QED BY ONLY <2>3, <2>4, <2>7 DEF ExtentsSound
<1>7. ASSUME Stalled PROVE tail # 1 /\ writable(ext[1]) > 0
  <2>1. ext[1].w - ext[1].r = 0 /\ (in > Len(sink) \/ loop.op = "discard")
    BY ONLY <1>7 DEF Stalled, readable
  <2>2. 1 \in 1 .. Len(ext)
    BY ONLY <1>4
  <2>3. ext[1].w \in 0 .. XSize /\ ext[1].r \in 0 .. XSize /\ b[1] \in Int
    BY ONLY <1>4, <2>2
  <2>4. PICK r \in Int, w \in Int, v \in Int : r = ext[1].r /\ w = ext[1].w /\ v = b[1]
    BY ONLY <1>0, <2>3
  <2>5. writable(ext[1]) > 0
    BY ONLY <1>0, <1>5, <2>1, <2>3 DEF dead, readable, writable
  <2>6. ASSUME tail = 1 PROVE FALSE
    <3>1. v + r = lo /\ v + w = in /\ w - r = 0
      BY ONLY <1>4, <2>1, <2>4, <2>6
    <3>2. lo = in
      BY ONLY <2>4, <3>1
    <3>3. CASE loop.op = "discard"
      <4>1. lo = Len(sink) - loop.left
        BY ONLY <1>2, <3>3 DEF Undiscarded
      <4> QED BY ONLY <1>3, <3>2, <3>3, <4>1
    <3>4. CASE loop.op # "discard"
      <4>1. lo = Len(sink) - call.n
        BY ONLY <1>2, <3>4 DEF Undiscarded
      <4> QED BY ONLY <1>3, <2>1, <3>2, <3>4, <4>1
    <3> QED BY ONLY <3>3, <3>4
  <2> QED BY ONLY <2>5, <2>6
<1> QED BY ONLY <1>3, <1>6, <1>7 DEF StallsOnlyBehindGap

\* The extents are numbered without a gap or an overlap, whatever the producer
\* and the consumer do.
THEOREM Invariance == Spec => []IndInv
<1>1. Init => IndInv
  BY DynamicAssumption, InitInv
<1>2. IndInv /\ [Next]_vars => IndInv'
  BY DynamicAssumption, StepInv
<1> QED BY <1>1, <1>2, PTL DEF Spec

\* The consumer of a dynamic_buffer receives the source's elements in the source's
\* order, and none that was not committed: through extents that are retired and
\* used again, and through ranges that are held across a co_await.
THEOREM InOrder == Spec => []ElementsInOrder
<1>1. Spec => []IndInv
  BY Invariance
<1>2. IndInv => ElementsInOrder
  BY DynamicAssumption, InvImplies
<1> QED BY <1>1, <1>2, PTL

\* The SK_CHECKs of _make_tail, _ensure_minfree, read() and commit(), which a
\* release build leaves out, hold; nothing is said of those on a full tail and on
\* an unreadable head, which can fail.
THEOREM ExtentsAreSound == Spec => []ExtentsSound
<1>1. Spec => []IndInv
  BY Invariance
<1>2. IndInv => ExtentsSound
  BY DynamicAssumption, InvImplies
<1> QED BY <1>1, <1>2, PTL

\* read() and discard() find nothing, although elements are there, only behind a
\* head that _ensure_minfree left behind partly filled.
THEOREM StallsBehindGap == Spec => []StallsOnlyBehindGap
<1>1. Spec => []IndInv
  BY Invariance
<1>2. IndInv => StallsOnlyBehindGap
  BY DynamicAssumption, InvImplies
<1> QED BY <1>1, <1>2, PTL
=============================================================================
