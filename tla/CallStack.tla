----------------------------- MODULE CallStack ------------------------------
(***************************************************************************)
(* What co_await of a task promises (task.hxx): a chain of tasks behaves   *)
(* like a stack of ordinary calls, whatever threads execute it.  A caller  *)
(* goes on only when its callee is done, and the callee's frame is         *)
(* destroyed then and not before.                                          *)
(***************************************************************************)
EXTENDS Integers

CONSTANT N      \* depth of the chain; level 0 is the outermost task

VARIABLE frame  \* of each level: "none", "live" or "done"

Levels == 0 .. N

Init == frame = [i \in Levels |-> "none"]

\* Level i is live and calls nobody.
Innermost(i) == frame[i] = "live" /\ \A j \in Levels : j > i => frame[j] = "none"

Enter ==
    /\ \A i \in Levels : frame[i] = "none"
    /\ frame' = [frame EXCEPT ![0] = "live"]

Call(i) ==
    /\ i < N /\ Innermost(i)
    /\ frame' = [frame EXCEPT ![i + 1] = "live"]

Return(i) == Innermost(i) /\ frame' = [frame EXCEPT ![i] = "done"]

Continue(i) == frame[i] = "done" /\ frame' = [frame EXCEPT ![i] = "none"]

Next == Enter \/ \E i \in Levels : Call(i) \/ Return(i) \/ Continue(i)

Spec == Init /\ [][Next]_frame
=============================================================================
