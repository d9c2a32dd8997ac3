----------------------------- MODULE WorkQueue ------------------------------
(***************************************************************************)
(* What an executor promises (struct executor and mt_executor,             *)
(* executor.hxx): work is started in the order it was posted, each item at *)
(* most once, and nothing is started once the queue is shut down.          *)
(***************************************************************************)
EXTENDS Sequences

CONSTANT Items

VARIABLES
    pending,    \* items posted and not started, oldest first
    active,     \* items being executed
    finished,   \* items that have been executed
    closed      \* the queue is shut down

vars == <<pending, active, finished, closed>>

Init == pending = <<>> /\ active = {} /\ finished = {} /\ closed = FALSE

Post(i) ==
    /\ pending' = Append(pending, i)
    /\ UNCHANGED <<active, finished, closed>>

Begin ==
    /\ ~closed /\ pending # <<>>
    /\ active' = active \cup {Head(pending)}
    /\ Head(pending) \notin active \cup finished
    /\ pending' = Tail(pending)
    /\ UNCHANGED <<finished, closed>>

End(i) ==
    /\ i \in active
    /\ active' = active \ {i}
    /\ finished' = finished \cup {i}
    /\ UNCHANGED <<pending, closed>>

Close == closed' = TRUE /\ UNCHANGED <<pending, active, finished>>

Next == Begin \/ Close \/ \E i \in Items : Post(i) \/ End(i)

Spec == Init /\ [][Next]_vars
=============================================================================
