----------------------------- MODULE EventLoop -----------------------------
(***************************************************************************)
(* base/eventloop/eventloop.go: a queue of closures drained by one         *)
(* goroutine.  A critical section of the mutex is one action; Signal,      *)
(* which the code calls after Unlock, is an action of its own, so every    *)
(* interleaving of a poster with the loop's test-and-wait is explored.     *)
(*                                                                         *)
(* Goroutines: Callers, and Loop, the goroutine inside Loop(), which is    *)
(* itself a caller while a functor body runs (a functor may post or close).*)
(***************************************************************************)
EXTENDS Naturals, Sequences, Functions

CONSTANTS
    Functors,   \* closures; each is posted at most once, which bounds the model
    Callers,    \* goroutines that call RunInLoop and Close
    Loop        \* the goroutine that runs Loop()

ASSUME LoopIsNoCaller == Loop \notin Callers

Threads == Callers \cup {Loop}

VARIABLES
    functors,    \* this.functors
    closed,      \* this.closed
    pc,          \* where the loop goroutine is
    batch,       \* the local variable functors: the swapped-out queue
    seenClosed,  \* the local variable closed
    owes,        \* owes[t]: t has unlocked the mutex and not yet called Signal
    posted,      \* history: every functor passed to RunInLoop, in order
    ran,         \* history: every functor the loop has started, in order
    mark         \* history: Len(posted) when Close took effect

queue == <<functors, closed>>
local == <<pc, batch, seenClosed>>
hist  == <<posted, ran, mark>>
vars  == <<queue, local, owes, hist>>

PCs == {"top", "wait", "run", "body", "done"}

TypeOK ==
    /\ functors \in Seq(Functors)
    /\ closed \in BOOLEAN
    /\ pc \in PCs
    /\ batch \in Seq(Functors)
    /\ seenClosed \in BOOLEAN
    /\ owes \in [Threads -> BOOLEAN]
    /\ posted \in Seq(Functors)
    /\ ran \in Seq(Functors)
    /\ mark \in Nat

Init ==
    /\ functors = <<>>
    /\ closed = FALSE
    /\ pc = "top"
    /\ batch = <<>>
    /\ seenClosed = FALSE
    /\ owes = [t \in Threads |-> FALSE]
    /\ posted = <<>>
    /\ ran = <<>>
    /\ mark = 0

(***************************************************************************)
(* Callers.  The loop goroutine calls only from inside a functor.          *)
(***************************************************************************)
CanCall(t) == ~owes[t] /\ (t = Loop => pc = "body")

\* Faulty variant: RunInLoop without cond.Signal().
RunInLoopUnsignalled(t, f) ==
    /\ CanCall(t)
    /\ f \notin Range(posted)
    /\ functors' = Append(functors, f)
    /\ posted' = Append(posted, f)
    /\ UNCHANGED <<closed, local, owes, ran, mark>>

RunInLoop(t, f) ==
    /\ CanCall(t)
    /\ f \notin Range(posted)
    /\ functors' = Append(functors, f)
    /\ owes' = [owes EXCEPT ![t] = TRUE]
    /\ posted' = Append(posted, f)
    /\ UNCHANGED <<closed, local, ran, mark>>

Close(t) ==
    /\ CanCall(t)
    /\ ~closed
    /\ closed' = TRUE
    /\ owes' = [owes EXCEPT ![t] = TRUE]
    /\ mark' = Len(posted)
    /\ UNCHANGED <<functors, local, posted, ran>>

Signal(t) ==
    /\ owes[t]
    /\ owes' = [owes EXCEPT ![t] = FALSE]
    /\ pc' = IF pc = "wait" THEN "top" ELSE pc
    /\ UNCHANGED <<queue, batch, seenClosed, hist>>

(***************************************************************************)
(* The loop goroutine.                                                     *)
(***************************************************************************)
Wait ==
    /\ pc = "top"
    /\ ~closed /\ functors = <<>>
    /\ pc' = "wait"
    /\ UNCHANGED <<queue, batch, seenClosed, owes, hist>>

Swap ==
    /\ pc = "top"
    /\ closed \/ functors # <<>>
    /\ batch' = functors
    /\ functors' = <<>>
    /\ seenClosed' = closed
    /\ pc' = "run"
    /\ UNCHANGED <<closed, owes, hist>>

BeginFunctor ==
    /\ pc = "run"
    /\ batch # <<>>
    /\ ran' = Append(ran, Head(batch))
    /\ batch' = Tail(batch)
    /\ pc' = "body"
    /\ UNCHANGED <<queue, seenClosed, owes, posted, mark>>

EndFunctor ==
    /\ pc = "body"
    /\ ~owes[Loop]
    /\ pc' = "run"
    /\ UNCHANGED <<queue, batch, seenClosed, owes, hist>>

\* Faulty variant: the loop tests the flag of the moment instead of the one
\* it read together with the queue.
EndBatchRereads ==
    /\ pc = "run"
    /\ batch = <<>>
    /\ pc' = IF closed THEN "done" ELSE "top"
    /\ UNCHANGED <<queue, batch, seenClosed, owes, hist>>

EndBatch ==
    /\ pc = "run"
    /\ batch = <<>>
    /\ pc' = IF seenClosed THEN "done" ELSE "top"
    /\ UNCHANGED <<queue, batch, seenClosed, owes, hist>>

LoopStep == Wait \/ Swap \/ BeginFunctor \/ EndFunctor \/ EndBatch

Next ==
    \/ \E t \in Threads :
          \/ \E f \in Functors : RunInLoop(t, f)
          \/ Close(t)
          \/ Signal(t)
    \/ LoopStep

(***************************************************************************)
(* The Go scheduler runs every runnable goroutine: the loop goroutine      *)
(* keeps going while it can, functor bodies return, and a goroutine that   *)
(* left the critical section goes on to call Signal.  Nobody is obliged to *)
(* post or to close.                                                       *)
(***************************************************************************)
Fairness == WF_vars(LoopStep) /\ \A t \in Threads : WF_vars(Signal(t))

Spec     == Init /\ [][Next]_vars
FairSpec == Spec /\ Fairness

-----------------------------------------------------------------------------
(***************************************************************************)
(* Properties                                                              *)
(***************************************************************************)

\* No functor is lost, duplicated or reordered on its way through the swap
\* (eventloop.go:30) and the batch: what was posted is what has run, then
\* the rest of the batch, then the queue.
Pipeline == posted = ran \o batch \o functors

\* The loop never sleeps on work or on a close unless the goroutine that
\* posted it still has its Signal (eventloop.go:48, :68) ahead of it.
NoLostWakeup ==
    pc = "wait" /\ (closed \/ functors # <<>>) => \E t \in Threads : owes[t]

\* The swap reads the queue and the closed flag together, so every functor
\* posted before Close has run when Loop returns (eventloop.go:30-39).
DrainedAtReturn == pc = "done" => Len(ran) >= mark

\* Why DrainedAtReturn holds: a batch taken with the flag set holds
\* everything posted before the flag was set (eventloop.go:30-31), and the
\* loop goes back to the queue only with an open, empty batch.
ClosingBatchIsFull ==
    /\ pc \in {"top", "wait"} => batch = <<>> /\ ~seenClosed
    /\ pc = "done" => batch = <<>> /\ seenClosed
    /\ seenClosed => closed /\ Len(ran) + Len(batch) >= mark
    /\ mark <= Len(posted)

\* The abstract promise, with the history variables as its state: order, what
\* has run when Loop returns, and, through its fairness, that every functor
\* posted before the close is run and that Loop returns once Close was called,
\* from outside or from a functor (eventloop_test.go).
Promise == INSTANCE FunctorQueue WITH returned <- (pc = "done")

PromiseSpec == Promise!Spec
=============================================================================
