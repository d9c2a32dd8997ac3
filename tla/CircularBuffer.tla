--------------------------- MODULE CircularBuffer ---------------------------
(***************************************************************************)
(* The pointer arithmetic of circular_buffer (buffer/circular_buffer.hxx): *)
(* Size + 1 slots, a read pointer r and a write pointer w that are equal   *)
(* when the buffer is empty.  A list of at most two ranges is a record     *)
(* [s1, l1, s2, l2] of starts and lengths; a range that is not there has   *)
(* length 0.                                                               *)
(***************************************************************************)
EXTENDS Integers

CONSTANT Size       \* buffer_size

ASSUME SizeAssumption == Size \in Nat \ {0}

Slots == 0 .. Size
End == Size + 1     \* data.end()

Least(a, b) == IF a <= b THEN a ELSE b

\* Mutant: no slot is left free in front of the read pointer.
WEndNoGap(r) == End
\* wend: one slot stays free when the read pointer is at the start.
WEnd(r) == IF r = 0 THEN Size ELSE End

\* A write pointer at data.end() goes to the start, unless the read pointer is there.
WrapW(r, p) == IF p = End /\ r # 0 THEN 0 ELSE p
WrapR(p) == IF p = End THEN 0 ELSE p

writable_ranges(r, w) ==
    LET l == IF r <= w THEN WEnd(r) - w ELSE 0
        t == IF r <= w THEN WrapW(r, w + l) ELSE w
    IN  [s1 |-> w, l1 |-> l, s2 |-> t, l2 |-> IF r > t THEN r - 1 - t ELSE 0]

\* Mutant: nothing is readable while the write pointer has wrapped around.
readable_unwrapped(r, w) ==
    [s1 |-> r, l1 |-> 0, s2 |-> r, l2 |-> IF r < w THEN w - r ELSE 0]

readable_ranges(r, w) ==
    LET l == IF r > w THEN End - r ELSE 0
        t == IF r > w THEN WrapR(r + l) ELSE r
    IN  [s1 |-> r, l1 |-> l, s2 |-> t, l2 |-> IF t < w THEN w - t ELSE 0]

\* commit(n): the new write pointer and the number returned.
commit(r, w, n) ==
    LET a == IF r <= w THEN Least(WEnd(r) - w, n) ELSE 0
        t == IF r <= w THEN WrapW(r, w + a) ELSE w
        b == IF r > t THEN Least(r - 1, n - a) ELSE 0
    IN  [w |-> t + b, n |-> a + b]

\* discard(n): the new read pointer and the number returned.
discard(r, w, n) ==
    LET a == IF r > w THEN Least(n, End - r) ELSE 0
        t == IF r > w THEN WrapR(r + a) ELSE r
        b == IF t < w THEN Least(n - a, w - t) ELSE 0
    IN  [r |-> t + b, n |-> a + b]

\* write(n) copies a elements to w and b to t.
write(r, w, n) ==
    LET a == IF r <= w THEN Least(WEnd(r) - w, n) ELSE 0
        t == IF r <= w THEN WrapR(w + a) ELSE w
        b == IF r > t /\ t < r - 1 THEN Least(n - a, r - 1 - t) ELSE 0
    IN  [s1 |-> w, l1 |-> a, s2 |-> t, l2 |-> b]

\* read(n) copies a elements from r and b from t.
read(r, w, n) ==
    LET a == IF r > w THEN Least(n, End - r) ELSE 0
        t == IF r > w THEN WrapR(r + a) ELSE r
        b == IF t < w THEN Least(n - a, w - t) ELSE 0
    IN  [s1 |-> r, l1 |-> a, s2 |-> t, l2 |-> b]
=============================================================================
