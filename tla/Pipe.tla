-------------------------------- MODULE Pipe --------------------------------
(***************************************************************************)
(* Two coroutines that share a circular_buffer: a producer that fills it   *)
(* from a channel (read_some and read_all of channel/read.hxx) and a       *)
(* consumer that empties it into another (async_write_some and write_all   *)
(* of channel/write.hxx).  Each asks the buffer for ranges, gives them to  *)
(* the channel, which takes or fills a part at a time, and tells the       *)
(* buffer at the end how much was used; they alternate at every co_await.  *)
(* Either may also copy with the buffer's own write() and read().          *)
(*                                                                         *)
(* The k-th element of the source has the value k, counted from 0.         *)
(***************************************************************************)
EXTENDS CircularBuffer, Sequences

CONSTANTS
    Total,      \* elements the source has
    Junk        \* what a slot holds before it is written

ASSUME PipeAssumption == Total \in Nat /\ Junk \notin Nat

VARIABLES
    data, rp, wp,   \* the buffer
    src,            \* elements taken from the source
    sink,           \* what the other channel has received
    in, out,        \* elements committed to, discarded from the buffer
    prod, cons      \* the calls under way

bufVars == <<data, rp, wp>>
vars == <<data, rp, wp, src, sink, in, out, prod, cons>>

NoRanges == [s1 |-> 0, l1 |-> 0, s2 |-> 0, l2 |-> 0]

\* A call: the ranges it was lent, the elements transferred, and whether it
\* goes on after the first transfer (the _all functions).
Idle == [busy |-> FALSE, all |-> FALSE, n |-> 0, ranges |-> NoRanges]

Init ==
    /\ data = [i \in Slots |-> Junk] /\ rp = 0 /\ wp = 0
    /\ src = 0 /\ sink = <<>> /\ in = 0 /\ out = 0
    /\ prod = Idle /\ cons = Idle

\* The ranges that a call with the limit n uses: at most n elements of them,
\* and for a _some function only the first.
Lent(r, n, all) ==
    LET l1 == Least(r.l1, n)
        l2 == IF ~all /\ r.l1 > 0 THEN 0 ELSE Least(r.l2, n - l1)
    IN  [s1 |-> r.s1, l1 |-> l1, s2 |-> r.s2, l2 |-> l2]

RangeSize(r) == r.l1 + r.l2

\* The j-th element of the ranges, and how many follow it in the same one.
Addr(r, j) == IF j < r.l1 THEN r.s1 + j ELSE r.s2 + (j - r.l1)
Span(call) ==
    (IF call.n < call.ranges.l1 THEN 0 ELSE call.ranges.l2) + call.ranges.l1 - call.n

Begun(r, n, all) == [busy |-> TRUE, all |-> all, n |-> 0, ranges |-> Lent(r, n, all)]

\* After a transfer of k elements a call is at its end, or goes on.
Ends(call, k) == ~call.all \/ call.n + k = RangeSize(call.ranges)
Advance(call, k) == [call EXCEPT !.n = @ + k]

-----------------------------------------------------------------------------
(* The producer.                                                            *)

ReadBegin(n, all) ==
    /\ ~prod.busy
    /\ RangeSize(writable_ranges(rp, wp)) > 0
    /\ prod' = Begun(writable_ranges(rp, wp), n, all)
    /\ UNCHANGED <<bufVars, src, sink, in, out, cons>>

\* Mutant: an error makes the call forget what it has already read.
CommitNothing(n, err) == IF err THEN 0 ELSE n
\* What read_all passes to commit().
CommitCount(n, err) == n

Commit(n, err) ==
    LET c == commit(rp, wp, CommitCount(n, err))
    IN  wp' = c.w /\ in' = in + c.n /\ prod' = Idle

\* The channel delivers k elements: read_some returns k.
ReadSome(k) ==
    LET a == Addr(prod.ranges, prod.n)
    IN  /\ prod.busy
        /\ k <= Span(prod) /\ src + k <= Total
        /\ data' = [i \in Slots |-> IF i \in a .. a + k - 1 THEN src + (i - a) ELSE data[i]]
        /\ src' = src + k
        /\ IF Ends(prod, k)
           THEN Commit(prod.n + k, FALSE)
           ELSE prod' = Advance(prod, k) /\ UNCHANGED <<wp, in>>
        /\ UNCHANGED <<rp, sink, out, cons>>

\* read_some returns an error, the end of the file or another one: what the
\* call has read before is committed.
ReadFails ==
    /\ prod.busy
    /\ Commit(prod.n, TRUE)
    /\ UNCHANGED <<data, rp, src, sink, out, cons>>

\* buffer.write() with n elements, of which it takes what there is room for.
Write(n) ==
    LET r == write(rp, wp, n)
    IN  /\ ~prod.busy /\ src + n <= Total
        /\ data' = [i \in Slots |->
                      IF i \in r.s1 .. r.s1 + r.l1 - 1 THEN src + (i - r.s1)
                      ELSE IF i \in r.s2 .. r.s2 + r.l2 - 1 THEN src + r.l1 + (i - r.s2)
                      ELSE data[i]]
        /\ wp' = r.s2 + r.l2
        /\ src' = src + RangeSize(r) /\ in' = in + RangeSize(r)
        /\ UNCHANGED <<rp, sink, out, prod, cons>>

-----------------------------------------------------------------------------
(* The consumer.                                                            *)

WriteBegin(n, all) ==
    /\ ~cons.busy
    /\ RangeSize(readable_ranges(rp, wp)) > 0
    /\ cons' = Begun(readable_ranges(rp, wp), n, all)
    /\ UNCHANGED <<bufVars, src, sink, in, out, prod>>

\* What write_all passes to discard().
DiscardCount(n, k) == n + k

Discard(n, k) ==
    LET d == discard(rp, wp, DiscardCount(n, k))
    IN  rp' = d.r /\ out' = out + d.n /\ cons' = Idle

\* k elements from address a are appended to the sink.
Received(a, k) == [j \in 1 .. k |-> data[a + j - 1]]

\* The channel accepts k elements: write_some returns k.
WriteSome(k) ==
    LET a == Addr(cons.ranges, cons.n)
    IN  /\ cons.busy
        /\ k <= Span(cons)
        /\ sink' = sink \o Received(a, k)
        /\ IF Ends(cons, k)
           THEN Discard(cons.n, k)
           ELSE cons' = Advance(cons, k) /\ UNCHANGED <<rp, out>>
        /\ UNCHANGED <<data, wp, src, in, prod>>

\* write_some returns an error: what was accepted before is discarded.
WriteFails ==
    /\ cons.busy
    /\ Discard(cons.n, 0)
    /\ UNCHANGED <<data, wp, src, sink, in, prod>>

\* buffer.read() of up to n elements.
Read(n) ==
    LET r == read(rp, wp, n)
    IN  /\ ~cons.busy
        /\ sink' = sink \o Received(r.s1, r.l1) \o Received(r.s2, r.l2)
        /\ rp' = r.s2 + r.l2
        /\ out' = out + RangeSize(r)
        /\ UNCHANGED <<data, wp, src, in, prod, cons>>

Counts == 1 .. Size

Next ==
    \/ \E n \in Counts, all \in BOOLEAN : ReadBegin(n, all) \/ WriteBegin(n, all)
    \/ \E k \in Counts : ReadSome(k) \/ WriteSome(k) \/ Write(k) \/ Read(k)
    \/ ReadFails \/ WriteFails

Spec == Init /\ [][Next]_vars

\* Both coroutines go on reading and writing, every call of a channel ends, and
\* a channel, asked again and again, does not fail every time.
Fairness ==
    /\ WF_vars(\E n \in Counts, all \in BOOLEAN : ReadBegin(n, all))
    /\ WF_vars(\E n \in Counts, all \in BOOLEAN : WriteBegin(n, all))
    /\ WF_vars(ReadFails \/ \E k \in Counts : ReadSome(k))
    /\ WF_vars(WriteFails \/ \E k \in Counts : WriteSome(k))
    /\ SF_vars(\E k \in Counts : ReadSome(k))
    /\ SF_vars(\E k \in Counts : WriteSome(k))

FairSpec == Spec /\ Fairness

-----------------------------------------------------------------------------
(* Properties.                                                              *)

TypeOK ==
    /\ data \in [Slots -> Nat \cup {Junk}] /\ rp \in Slots /\ wp \in Slots
    /\ src \in 0 .. Total /\ sink \in Seq(Nat \cup {Junk})
    /\ in \in Nat /\ out \in Nat

\* What reaches the sink is the source's elements in the source's order, none
\* twice, none left out and no slot that was never written, although producer
\* and consumer use ranges they were lent before the other moved its pointer.
DeliveredInOrder == \A i \in DOMAIN sink : sink[i] = i - 1

\* commit() and discard() take all they are told of, so that no element that
\* was read from the channel or accepted by it is lost or sent again, also when
\* a call ends with an error half way.
NothingLost ==
    /\ src = in + prod.n
    /\ Len(sink) = out + cons.n

\* The ranges lent to the two channels never have a slot in common.
Borrowed(call) ==
    {Addr(call.ranges, j) : j \in call.n .. RangeSize(call.ranges) - 1}
RangesDisjoint == Borrowed(prod) \cap Borrowed(cons) = {}

\* The stream through the buffer is intact: nothing is overwritten, lost, doubled
\* or reordered between the two channels.
StreamIntact == TypeOK /\ DeliveredInOrder /\ NothingLost /\ RangesDisjoint

\* The buffer is a bounded stream (readable and writable parts, the pointers
\* wrapping around, and the slot that is always free).
Stream == INSTANCE BoundedStream WITH Capacity <- Size
ImplementsStream == Stream!Spec

\* All that the source has reaches the sink in the end.
AllDelivered == <>(Len(sink) = Total)
=============================================================================
