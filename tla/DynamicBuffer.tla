--------------------------- MODULE DynamicBuffer ----------------------------
(***************************************************************************)
(* dynamic_buffer (buffer/dynamic_buffer.hxx) in a release build, where    *)
(* SK_CHECK is empty: a list of extents of XSize elements.  ext[1] is      *)
(* _head, ext[tail] is _tail, what follows it are spares.  A producer and  *)
(* a consumer coroutine use it through write() and read() and through the  *)
(* buffer functions of channel/read.hxx and channel/write.hxx, which hold  *)
(* ranges of it across a co_await.                                         *)
(*                                                                         *)
(* Each turn of a loop of the code is a step.  `loop' is the loop that is  *)
(* being executed: the coroutines share a thread, so that nothing else     *)
(* happens until it has ended.  The k-th element of the source has the     *)
(* value k, counted from 0.                                                *)
(***************************************************************************)
EXTENDS Integers, Sequences

CONSTANTS
    XSize,          \* extent_type::xsize
    MaxRanges,      \* max_ranges
    Total           \* elements the source has

ConstantsOK == XSize \in Nat \ {0} /\ MaxRanges \in Nat \ {0} /\ Total \in Nat

ASSUME DynamicAssumption == ConstantsOK

VARIABLES
    ext, tail,      \* the buffer
    in, sink,       \* elements committed; what the consumer has received
    lent,           \* the range that async_read_some has been lent
    call,           \* the write function that is under way
    loop            \* the loop that is being executed

vars == <<ext, tail, in, sink, lent, call, loop>>

-----------------------------------------------------------------------------
(* Extents.                                                                 *)

Places == 0 .. XSize - 1
NewExtent == [r |-> 0, w |-> 0, data |-> [j \in Places |-> -1]]
readable(x) == x.w - x.r
writable(x) == XSize - x.w
empty(x) == x.w = 0
dead(x) == readable(x) = 0 /\ writable(x) = 0
\* Mutant: the write pointer stays where it is.
ClearRead(x) == [x EXCEPT !.r = 0]
clear(x) == [r |-> 0, w |-> 0, data |-> x.data]

\* The elements v, v + 1, ... are copied to the places p up to q - 1.
Fill(x, p, q, v) ==
    [x EXCEPT !.data = [j \in Places |-> IF j \in p .. q - 1 THEN v + (j - p) ELSE @[j]]]

\* k elements from place p on.
Chunk(x, p, k) == [j \in 1 .. k |-> x.data[p + j - 1]]

Least(a, b) == IF a <= b THEN a ELSE b

-----------------------------------------------------------------------------
(* The list of extents.                                                     *)

\* Mutant: the extent goes behind the tail as it is.
KillUncleared(e, t) ==
    [i \in 1 .. Len(e) |-> IF i < t THEN e[i + 1] ELSE IF i = t THEN e[1] ELSE e[i]]
\* The head, dead, goes behind the tail t, which is one place nearer then.
_kill_head(e, t) ==
    [i \in 1 .. Len(e) |-> IF i < t THEN e[i + 1] ELSE IF i = t THEN clear(e[1]) ELSE e[i]]

\* The list in which the tail can advance: there is an extent behind it.
_make_tail == IF tail < Len(ext) THEN ext ELSE Append(ext, NewExtent)

\* writable_ranges() moves the tail on if it has elements and is the last.
MustGrow == ~empty(ext[tail]) /\ tail = Len(ext)
_ensure_minfree ==
    /\ ext' = IF MustGrow THEN _make_tail ELSE ext
    /\ tail' = IF MustGrow THEN tail + 1 ELSE tail

\* Mutant: a dead head that is also the tail is left dead.
RetireOther(e, t) ==
    IF dead(e[1]) /\ t # 1 THEN [ext |-> _kill_head(e, t), tail |-> t - 1]
    ELSE [ext |-> e, tail |-> t]
\* A head that is used up goes behind the tail or, if it is the tail, starts again.
Retire(e, t) ==
    IF ~dead(e[1]) THEN [ext |-> e, tail |-> t]
    ELSE IF t # 1 THEN [ext |-> _kill_head(e, t), tail |-> t - 1]
    ELSE [ext |-> [e EXCEPT ![1] = clear(@)], tail |-> t]

\* The read pointer of the head moves past k elements.
Consume(k) ==
    LET b == Retire([ext EXCEPT ![1].r = @ + k], tail)
    IN  ext' = b.ext /\ tail' = b.tail

-----------------------------------------------------------------------------
(* Calls and loops.                                                         *)

NotLent == [at |-> 0, len |-> -1]

\* The lengths of the ranges of a write function, the range it has come to, the
\* elements of that range and of all that the channel has accepted.
NoCall == [lens |-> <<>>, i |-> 0, off |-> 0, n |-> 0, all |-> FALSE]

\* `left' elements are still to be moved; in the loop of read_all, `left' have
\* been read, and i is the range it has come to.
NoLoop == [op |-> "none", left |-> 0, i |-> 0]
Loop(op, n) == IF n = 0 THEN NoLoop ELSE [op |-> op, left |-> n, i |-> 0]

Init ==
    /\ ext = <<NewExtent>> /\ tail = 1
    /\ in = 0 /\ sink = <<>>
    /\ lent = NotLent /\ call = NoCall /\ loop = NoLoop

\* The producer and the consumer can make a call.
MayPut == loop = NoLoop /\ lent = NotLent
MayGet == loop = NoLoop /\ call = NoCall

-----------------------------------------------------------------------------
(* The producer.                                                            *)

Write(n) ==
    /\ MayPut /\ in + n <= Total
    /\ loop' = Loop("write", n)
    /\ UNCHANGED <<ext, tail, in, sink, lent, call>>

\* One turn of the loop of write(): the tail takes what it has room for.
WriteChunk ==
    LET full == writable(ext[tail]) = 0
        t    == IF full THEN tail + 1 ELSE tail
        e    == IF full THEN _make_tail ELSE ext
        k    == Least(loop.left, writable(e[t]))
        w    == e[t].w
    IN  /\ loop.op = "write"
        /\ ext' = [e EXCEPT ![t] = [Fill(@, w, w + k, in) EXCEPT !.w = w + k]]
        /\ tail' = t
        /\ in' = in + k
        /\ loop' = Loop("write", loop.left - k)
        /\ UNCHANGED <<sink, lent, call>>

\* async_read_some: writable_ranges(), and the first range goes to the channel.
\* _ensure_minfree leaves a full tail alone when a spare follows it; the range is
\* empty then, where a debug build stops at the SK_CHECK on a full tail.
ReadSomeBegin ==
    /\ MayPut
    /\ _ensure_minfree
    /\ lent' = [at |-> ext'[tail'].w, len |-> writable(ext'[tail'])]
    /\ UNCHANGED <<in, sink, call, loop>>

\* The channel has filled k places of the range, none if it fails; the consumer
\* may have run since.
ReadSomeEnd(k) ==
    /\ loop = NoLoop
    /\ k <= lent.len /\ in + k <= Total
    /\ ext' = [ext EXCEPT ![tail] = Fill(@, lent.at, lent.at + k, in)]
    /\ lent' = NotLent
    /\ loop' = Loop("commit", k)
    /\ UNCHANGED <<tail, in, sink, call>>

\* read_all: writable_ranges(), of which the loop fills one after the other.
ReadAll ==
    /\ MayPut
    /\ _ensure_minfree
    /\ loop' = [op |-> "fill", left |-> 0, i |-> 1]
    /\ UNCHANGED <<in, sink, lent, call>>

\* The i-th of the writable ranges.
WritableRange(i) == ext[tail + i - 1]
WritableRanges == Least(MaxRanges, Len(ext) - tail + 1)

\* The channel fills k places of the range: all of them, or fewer if it fails or
\* the limit is reached.  The loop ends with a range that it has not filled or
\* that is empty, and what was read is committed.
FillRange(k) ==
    LET x == WritableRange(loop.i)
        n == loop.left + k
    IN  /\ loop.op = "fill"
        /\ k <= writable(x) /\ in + n <= Total
        /\ ext' = [ext EXCEPT ![tail + loop.i - 1] = Fill(@, x.w, x.w + k, in + loop.left)]
        /\ loop' = IF k > 0 /\ k = writable(x) /\ loop.i < WritableRanges
                   THEN [op |-> "fill", left |-> n, i |-> loop.i + 1]
                   ELSE Loop("commit", n)
        /\ UNCHANGED <<tail, in, sink, lent, call>>

\* One turn of the loop of commit(): the write pointer moves.
CommitChunk ==
    LET t == IF writable(ext[tail]) = 0 THEN tail + 1 ELSE tail
        k == Least(loop.left, writable(ext[t]))
    IN  /\ loop.op = "commit"
        /\ ext' = [ext EXCEPT ![t].w = @ + k]
        /\ tail' = t
        /\ in' = in + k
        /\ loop' = Loop("commit", loop.left - k)
        /\ UNCHANGED <<sink, lent, call>>

-----------------------------------------------------------------------------
(* The consumer.                                                            *)

Read(n) ==
    /\ MayGet
    /\ loop' = Loop("read", n)
    /\ UNCHANGED <<ext, tail, in, sink, lent, call>>

\* One turn of the loop of read(), which ends at a head with nothing to read.
ReadChunk ==
    LET k == Least(loop.left, readable(ext[1]))
    IN  /\ loop.op = "read"
        /\ sink' = sink \o Chunk(ext[1], ext[1].r, k)
        /\ Consume(k)
        /\ loop' = IF k = 0 THEN NoLoop ELSE Loop("read", loop.left - k)
        /\ UNCHANGED <<in, lent, call>>

\* async_write_some takes the first of the readable ranges, write_all all.
readable_ranges(all) ==
    [i \in 1 .. (IF all THEN Least(MaxRanges, Len(ext)) ELSE 1) |-> readable(ext[i])]
WriteBegin(all) ==
    /\ MayGet /\ readable(ext[1]) > 0
    /\ call' = [lens |-> readable_ranges(all), i |-> 1, off |-> 0, n |-> 0, all |-> all]
    /\ UNCHANGED <<ext, tail, in, sink, lent, loop>>

\* The channel has accepted k elements of the range.  write_all goes on with the
\* rest of it and then with the next, until one is empty; then discard() is called.
WriteSome(k) ==
    LET x    == ext[call.i]
        off  == call.off + k
        more == off < call.lens[call.i]
        next == call.i < Len(call.lens) /\ call.lens[call.i + 1] > 0
    IN  /\ loop = NoLoop /\ call # NoCall
        /\ off <= call.lens[call.i]
        /\ sink' = sink \o Chunk(x, x.r + call.off, k)
        /\ IF call.all /\ (more \/ next)
           THEN /\ call' = [call EXCEPT !.n = @ + k,
                                        !.i = IF more THEN @ ELSE @ + 1,
                                        !.off = IF more THEN off ELSE 0]
                /\ UNCHANGED loop
           ELSE call' = NoCall /\ loop' = Loop("discard", call.n + k)
        /\ UNCHANGED <<ext, tail, in, lent>>

\* The channel has failed, or the limit is reached: what was accepted is discarded.
WriteFails ==
    /\ loop = NoLoop /\ call # NoCall
    /\ call' = NoCall /\ loop' = Loop("discard", call.n)
    /\ UNCHANGED <<ext, tail, in, sink, lent>>

\* One turn of the loop of discard(), which changes nothing, and never ends,
\* at a head with nothing to read.
DiscardChunk ==
    LET k == Least(loop.left, readable(ext[1]))
    IN  /\ loop.op = "discard"
        /\ Consume(k)
        /\ loop' = Loop("discard", loop.left - k)
        /\ UNCHANGED <<in, sink, lent, call>>

\* Arguments of write() and read(): no more than the source has.
Counts == 1 .. Total

Next ==
    \/ \E n \in Counts : Write(n) \/ Read(n)
    \/ WriteChunk \/ CommitChunk \/ ReadChunk \/ DiscardChunk
    \/ ReadSomeBegin \/ ReadAll \/ WriteFails
    \/ \E k \in 0 .. XSize : ReadSomeEnd(k) \/ FillRange(k)
    \/ \E k \in 1 .. XSize : WriteSome(k)
    \/ \E all \in BOOLEAN : WriteBegin(all)

Spec == Init /\ [][Next]_vars

-----------------------------------------------------------------------------
(* Properties.                                                              *)

Extents == [r : 0 .. XSize, w : 0 .. XSize, data : [Places -> Int]]

TypeOK ==
    /\ tail \in DOMAIN ext
    /\ \A i \in DOMAIN ext : ext[i] \in Extents /\ ext[i].r <= ext[i].w
    /\ in \in 0 .. Total /\ lent.len \in -1 .. XSize

\* The consumer receives the source's elements in the source's order, although
\* extents are cleared and used again, and although a channel fills a range it
\* was lent before the consumer retired the extents in front of it; and none
\* before it was committed.
ElementsInOrder == Len(sink) <= in /\ \A i \in DOMAIN sink : sink[i] = i - 1

\* What _make_tail and _ensure_minfree check: the extents behind the tail are
\* empty, so that the tail never advances into old elements.
SparesEmpty == \A i \in tail + 1 .. Len(ext) : empty(ext[i])

\* What read() checks: the head is never dead between two turns of a loop.
HeadNotDead == ~dead(ext[1])

\* What commit() checks: behind a full tail there is an extent for the rest, so
\* what was written into several ranges is never more than the list can take.
CommitHasRoom == loop.op = "commit" /\ writable(ext[tail]) = 0 => tail < Len(ext)

\* The SK_CHECKs of _make_tail (285), _ensure_minfree (315), read() (368) and
\* commit() (440) hold at every turn of a loop.  Three others do not: that of
\* writable_ranges() (419) fails for a full tail with a spare behind it, those
\* of readable_ranges() (462) and of discard() (483) fail for a head with nothing
\* to read: in an empty buffer, and where StallsOnlyBehindGap says.
ExtentsSound == TypeOK /\ SparesEmpty /\ HeadNotDead /\ CommitHasRoom

\* Elements are in the buffer that the consumer cannot get at.
Stalled == (in > Len(sink) \/ loop.op = "discard") /\ readable(ext[1]) = 0

\* The consumer is cut off from what was written only by a head that the tail
\* left behind partly filled (_ensure_minfree).  There read() finds nothing and
\* the checks of readable_ranges() and discard() fail.
StallsOnlyBehindGap ==
    Stalled => tail # 1 /\ writable(ext[1]) > 0
=============================================================================
