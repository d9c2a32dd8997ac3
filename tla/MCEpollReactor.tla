--------------------------- MODULE MCEpollReactor ---------------------------
(* Instances of EpollReactor for TLC.                                       *)
EXTENDS EpollReactor, TLC

CONSTANTS f1, f2, r1, r2, w1

\* Readers on both sockets, and a sender sharing f1 with r1 when it exists.
MCFdOf == [c \in Coros |-> IF c = r2 THEN f2 ELSE f1]
=============================================================================
