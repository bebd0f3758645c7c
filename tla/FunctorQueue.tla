---------------------------- MODULE FunctorQueue ----------------------------
(***************************************************************************)
(* What the event loop of base/eventloop promises to its callers, without  *)
(* the mutex, the condition variable and the swapped batch: functors run   *)
(* one at a time in the order in which they were posted, a functor posted  *)
(* before the loop was closed runs before the loop returns, and the loop   *)
(* neither sleeps on posted work nor outlives its closing.                 *)
(***************************************************************************)
EXTENDS Naturals, Sequences, Functions

CONSTANT Functors

VARIABLES
    posted,    \* every functor handed to RunInLoop, in order
    ran,       \* every functor started by the loop, in order
    closed,    \* Close was called
    mark,      \* how many functors had been posted when Close was called
    returned   \* Loop has returned

vars == <<posted, ran, closed, mark, returned>>

Init ==
    /\ posted = <<>>
    /\ ran = <<>>
    /\ closed = FALSE
    /\ mark = 0
    /\ returned = FALSE

Post(f) ==
    /\ f \notin Range(posted)
    /\ posted' = Append(posted, f)
    /\ UNCHANGED <<ran, closed, mark, returned>>

Run ==
    /\ ~returned
    /\ Len(ran) < Len(posted)
    /\ ran' = Append(ran, posted[Len(ran) + 1])
    /\ UNCHANGED <<posted, closed, mark, returned>>

Close ==
    /\ ~closed
    /\ closed' = TRUE
    /\ mark' = Len(posted)
    /\ UNCHANGED <<posted, ran, returned>>

Return ==
    /\ closed
    /\ ~returned
    /\ Len(ran) >= mark
    /\ returned' = TRUE
    /\ UNCHANGED <<posted, ran, closed, mark>>

Next == (\E f \in Functors : Post(f)) \/ Run \/ Close \/ Return

SafeSpec == Init /\ [][Next]_vars
Spec     == SafeSpec /\ WF_vars(Run) /\ WF_vars(Return)
=============================================================================
