-------------------------- MODULE EventLoopProofs --------------------------
(***************************************************************************)
(* What the event loop of base/eventloop guarantees for any functors and   *)
(* any number of calling goroutines.                                       *)
(***************************************************************************)
EXTENDS LoopTimers, FiniteSetTheorems, SequenceTheorems, TLAPS

-----------------------------------------------------------------------------
(* Facts about sequences.                                                  *)

\* Moving the head of the second sequence to the end of the first leaves
\* their concatenation alone.
LEMMA MoveHead ==
    ASSUME NEW S, NEW s \in Seq(S), NEW t \in Seq(S), t # <<>>
    PROVE  Append(s, Head(t)) \o Tail(t) = s \o t
<1>1. /\ Head(t) \in S /\ Tail(t) \in Seq(S)
      /\ <<Head(t)>> \in Seq(S)
    BY HeadTailProperties
<1>2. Append(s, Head(t)) = s \o <<Head(t)>>
    BY <1>1, AppendIsConcat
<1>3. t = <<Head(t)>> \o Tail(t)
    BY <1>1, HeadTailProperties
<1>4. (s \o <<Head(t)>>) \o Tail(t) = s \o (<<Head(t)>> \o Tail(t))
    BY <1>1, ConcatAssociative
<1> QED BY <1>2, <1>3, <1>4

\* Appending to the last of two sequences appends to their concatenation.
LEMMA AppendLast ==
    ASSUME NEW S, NEW s \in Seq(S), NEW t \in Seq(S), NEW e \in S
    PROVE  s \o Append(t, e) = Append(s \o t, e)
<1>1. <<e>> \in Seq(S)
    OBVIOUS
<1>2. Append(t, e) = t \o <<e>> /\ s \o t \in Seq(S)
    BY AppendIsConcat, ConcatProperties
<1>3. Append(s \o t, e) = (s \o t) \o <<e>>
    BY <1>2, AppendIsConcat
<1> QED BY <1>1, <1>2, <1>3, ConcatAssociative

-----------------------------------------------------------------------------
\* The variables keep their types (eventloop.go:8).
THEOREM TypeCorrect == Spec => []TypeOK
<1> USE DEF TypeOK, Threads, PCs
<1>1. Init => TypeOK
  <2>1. <<>> \in Seq(Functors)
      BY EmptySeq
  <2>2. [t \in Callers \cup {Loop} |-> FALSE] \in [Callers \cup {Loop} -> BOOLEAN]
      OBVIOUS
  <2>3. Init => /\ functors \in Seq(Functors) /\ batch \in Seq(Functors)
                /\ posted \in Seq(Functors) /\ ran \in Seq(Functors)
      BY <2>1 DEF Init
  <2>4. Init => closed \in BOOLEAN /\ seenClosed \in BOOLEAN
      BY DEF Init
  <2>5. Init => pc \in PCs /\ mark \in Nat
      BY DEF Init
  <2>6. Init => owes \in [Threads -> BOOLEAN]
      BY <2>2 DEF Init
  <2> QED BY <2>3, <2>4, <2>5, <2>6 DEF Init
<1>2. TypeOK /\ [Next]_vars => TypeOK'
  <2> SUFFICES ASSUME TypeOK, [Next]_vars
               PROVE  TypeOK'
      OBVIOUS
  <2>1. ASSUME NEW t \in Threads, NEW f \in Functors, RunInLoop(t, f)
        PROVE  TypeOK'
      BY <2>1 DEF RunInLoop, local
  <2>2. ASSUME NEW t \in Threads, Close(t)
        PROVE  TypeOK'
      BY <2>2 DEF Close, local
  <2>3. ASSUME NEW t \in Threads, Signal(t)
        PROVE  TypeOK'
      BY <2>3 DEF Signal, queue, hist
  <2>4. CASE Wait
      BY <2>4 DEF Wait, queue, hist
  <2>5. CASE Swap
      BY <2>5, EmptySeq DEF Swap, hist
  <2>6. CASE BeginFunctor
      BY <2>6, HeadTailProperties DEF BeginFunctor, queue
  <2>7. CASE EndFunctor
      BY <2>7 DEF EndFunctor, queue, hist
  <2>8. CASE EndBatch
      BY <2>8 DEF EndBatch, queue, hist
  <2>9. CASE UNCHANGED vars
      BY <2>9 DEF vars, queue, local, hist
  <2> QED BY <2>1, <2>2, <2>3, <2>4, <2>5, <2>6, <2>7, <2>8, <2>9 DEF Next, LoopStep
<1> QED BY <1>1, <1>2, PTL DEF Spec

\* No wake-up is lost: the loop sleeps on work or on a close only while the
\* goroutine that brought it is about to call Signal (eventloop.go:48, :68).
THEOREM WakeupsAreKept == Spec => []NoLostWakeup
<1> USE DEF NoLostWakeup
<1>1. Init => NoLostWakeup
    BY DEF Init
<1>2. TypeOK /\ NoLostWakeup /\ [Next]_vars => NoLostWakeup'
  <2> SUFFICES ASSUME TypeOK, NoLostWakeup, [Next]_vars
               PROVE  NoLostWakeup'
      OBVIOUS
  <2>1. ASSUME NEW t \in Threads, NEW f \in Functors, RunInLoop(t, f)
        PROVE  NoLostWakeup'
      BY <2>1 DEF RunInLoop, TypeOK
  <2>2. ASSUME NEW t \in Threads, Close(t)
        PROVE  NoLostWakeup'
      BY <2>2 DEF Close, TypeOK
  <2>3. ASSUME NEW t \in Threads, Signal(t)
        PROVE  NoLostWakeup'
    <3>1. pc' # "wait"
        BY <2>3 DEF Signal
    <3> QED BY <3>1
  <2>4. CASE Wait
      BY <2>4 DEF Wait, queue
  <2>5. CASE Swap \/ BeginFunctor \/ EndFunctor \/ EndBatch
    <3>1. pc' # "wait"
        BY <2>5 DEF Swap, BeginFunctor, EndFunctor, EndBatch
    <3> QED BY <3>1
  <2>6. CASE UNCHANGED vars
      BY <2>6 DEF vars, queue, local
  <2> QED BY <2>1, <2>2, <2>3, <2>4, <2>5, <2>6 DEF Next, LoopStep
<1> QED BY <1>1, <1>2, TypeCorrect, PTL DEF Spec

-----------------------------------------------------------------------------
\* A batch taken with the closed flag holds everything posted before the
\* flag was set, because both are read under the mutex (eventloop.go:26-32).
THEOREM PipelineCorrect == Spec => [](Pipeline /\ ClosingBatchIsFull)
<1> DEFINE Inv == Pipeline /\ ClosingBatchIsFull
<1> USE DEF Pipeline, ClosingBatchIsFull
<1>1. Init => Inv
    BY EmptySeq, ConcatEmptySeq DEF Init
<1>2. TypeOK /\ Inv /\ [Next]_vars => Inv'
  <2> SUFFICES ASSUME TypeOK, Inv, [Next]_vars
               PROVE  Inv'
      OBVIOUS
  <2> USE DEF TypeOK
  <2>0. /\ ran \o batch \in Seq(Functors)
        /\ Len(ran) \in Nat /\ Len(batch) \in Nat /\ Len(functors) \in Nat
        /\ Len(posted) = Len(ran) + Len(batch) + Len(functors)
      BY ConcatProperties, LenProperties
  <2>1. ASSUME NEW t \in Threads, NEW f \in Functors, RunInLoop(t, f)
        PROVE  Inv'
    <3>1. \A e \in Functors :
             (ran \o batch) \o Append(functors, e) = Append((ran \o batch) \o functors, e)
        BY ONLY <2>0, TypeOK, AppendLast
    <3>2. Len(posted') = Len(posted) + 1
        BY <2>1, AppendProperties DEF RunInLoop
    <3>3. Pipeline'
        BY <2>1, <3>1 DEF RunInLoop, local
    <3>4. ClosingBatchIsFull'
        BY <2>0, <2>1, <3>2 DEF RunInLoop, local
    <3> QED BY <3>3, <3>4
  <2>2. ASSUME NEW t \in Threads, Close(t)
        PROVE  Inv'
      BY <2>0, <2>2 DEF Close, local
  <2>3. ASSUME NEW t \in Threads, Signal(t)
        PROVE  Inv'
      BY <2>3 DEF Signal, queue, hist
  <2>4. CASE Wait
      BY <2>4 DEF Wait, queue, hist
  <2>5. CASE Swap
    <3>1. ran \o batch = ran /\ (ran \o functors) \o <<>> = ran \o functors
        BY <2>5, ConcatEmptySeq, ConcatProperties DEF Swap
    <3>2. Len(posted) = Len(ran) + Len(functors)
        BY <2>0, <2>5, EmptySeq DEF Swap
    <3> QED BY <2>0, <2>5, <3>1, <3>2 DEF Swap, hist
  <2>6. CASE BeginFunctor
    <3>1. /\ ran' \o batch' = ran \o batch
          /\ Len(ran') = Len(ran) + 1 /\ Len(batch') = Len(batch) - 1
        BY <2>6, MoveHead, HeadTailProperties, AppendProperties DEF BeginFunctor
    <3> QED BY <2>0, <2>6, <3>1 DEF BeginFunctor, queue
  <2>7. CASE EndFunctor
      BY <2>7 DEF EndFunctor, queue, hist
  <2>8. CASE EndBatch
      BY <2>8 DEF EndBatch, queue, hist
  <2>9. CASE UNCHANGED vars
      BY <2>9 DEF vars, queue, local, hist
  <2> QED BY <2>1, <2>2, <2>3, <2>4, <2>5, <2>6, <2>7, <2>8, <2>9 DEF Next, LoopStep
<1> QED BY <1>1, <1>2, TypeCorrect, PTL DEF Spec

\* Every functor posted before Close has run when Loop returns
\* (eventloop.go:37).
THEOREM DrainedCorrect == Spec => []DrainedAtReturn
<1>1. TypeOK /\ ClosingBatchIsFull => DrainedAtReturn
    BY EmptySeq, LenProperties DEF TypeOK, ClosingBatchIsFull, DrainedAtReturn
<1> QED BY <1>1, TypeCorrect, PipelineCorrect, PTL

-----------------------------------------------------------------------------
\* The functor that starts is the next one that was posted (eventloop.go:34).
LEMMA NextToRun ==
    ASSUME TypeOK, Pipeline, batch # <<>>
    PROVE  Len(ran) < Len(posted) /\ posted[Len(ran) + 1] = Head(batch)
<1> USE DEF TypeOK
<1>1. /\ Len(ran) \in Nat /\ Len(batch) \in Nat \ {0} /\ Len(functors) \in Nat
      /\ Head(batch) = batch[1]
    BY EmptySeq, LenProperties
<1>2. /\ ran \o batch \in Seq(Functors)
      /\ Len(ran \o batch) = Len(ran) + Len(batch)
      /\ (ran \o batch)[Len(ran) + 1] = batch[1]
    BY <1>1, ConcatProperties
<1>3. /\ Len(posted) = Len(ran) + Len(batch) + Len(functors)
      /\ posted[Len(ran) + 1] = (ran \o batch)[Len(ran) + 1]
    BY <1>1, <1>2, ConcatProperties DEF Pipeline
<1> QED BY <1>1, <1>2, <1>3

\* Up to its liveness, the loop keeps the promise of FunctorQueue: functors
\* run one at a time in posting order, and Loop returns only after Close and
\* after every functor posted before it.
THEOREM PromiseKept == Spec => Promise!SafeSpec
<1>1. Init => Promise!Init
    BY DEF Init, Promise!Init
<1>2. TypeOK /\ Pipeline /\ ClosingBatchIsFull /\ [Next]_vars
      => [Promise!Next]_Promise!vars
  <2> SUFFICES ASSUME TypeOK, Pipeline, ClosingBatchIsFull, [Next]_vars
               PROVE  [Promise!Next]_Promise!vars
      OBVIOUS
  <2> USE DEF Promise!vars
  <2>1. ASSUME NEW t \in Threads, NEW f \in Functors, RunInLoop(t, f)
        PROVE  Promise!Next
    <3>1. pc' = pc
        BY <2>1 DEF RunInLoop, local
    <3>2. Promise!Post(f)
        BY <2>1, <3>1 DEF RunInLoop, Promise!Post, Range, Promise!Range
    <3> QED BY <3>2 DEF Promise!Next
  <2>2. ASSUME NEW t \in Threads, Close(t)
        PROVE  Promise!Next
      BY <2>2 DEF Close, local, Promise!Next, Promise!Close
  <2>3. ASSUME NEW t \in Threads, Signal(t)
        PROVE  UNCHANGED Promise!vars
    <3>1. (pc = "done")' <=> pc = "done"
        BY <2>3 DEF Signal
    <3> QED BY <2>3, <3>1 DEF Signal, queue, hist
  <2>4. CASE Wait
      BY <2>4 DEF Wait, queue, hist
  <2>5. CASE Swap
      BY <2>5 DEF Swap, hist
  <2>6. CASE BeginFunctor
      BY <2>6, NextToRun DEF BeginFunctor, queue, Promise!Next, Promise!Run
  <2>7. CASE EndFunctor
      BY <2>7 DEF EndFunctor, queue, hist
  <2>8. CASE EndBatch
    <3>1. CASE seenClosed
      <4>1. Len(ran) >= mark
          BY <2>8, <3>1, EmptySeq, LenProperties DEF EndBatch, TypeOK, ClosingBatchIsFull
      <4> QED BY <2>8, <3>1, <4>1
              DEF EndBatch, queue, hist, ClosingBatchIsFull, Promise!Next, Promise!Return
    <3>2. CASE ~seenClosed
        BY <2>8, <3>2 DEF EndBatch, queue, hist
    <3> QED BY <3>1, <3>2
  <2>9. CASE UNCHANGED vars
      BY <2>9 DEF vars, queue, local, hist
  <2> QED BY <2>1, <2>2, <2>3, <2>4, <2>5, <2>6, <2>7, <2>8, <2>9 DEF Next, LoopStep
<1> QED BY <1>1, <1>2, TypeCorrect, PipelineCorrect, PTL DEF Spec, Promise!SafeSpec

-----------------------------------------------------------------------------
(***************************************************************************)
(* Timers and tickers are callers of the loop like any others.             *)
(***************************************************************************)

\* What timers and tickers post and who they are is known to the loop.
LEMMA SourcesCall ==
    /\ Sources \subseteq Threads /\ Users \cup {Loop} \subseteq Threads
    /\ \A s \in Sources : Posts(s) \subseteq Functors
    /\ Plain \subseteq Functors
BY TimersAssumption DEF TimersAssumption, Threads, Plain

\* A loop with timers is a loop: whatever is proved of the steps of the event
\* loop holds beside any timers and tickers (timer.go:32, ticker.go:32).
THEOREM TimersRefine == TimersSpec => Spec
<1>1. TimersInit => Init
  BY DEF TimersInit
<1>2. ASSUME [TimersNext]_allvars PROVE [Next]_vars
  <2>1. ASSUME NEW s \in Sources, Post(s) PROVE Next
    <3>1. PICK f \in Posts(s) : RunInLoop(s, f)
      BY <2>1 DEF Post
    <3> QED BY <3>1, SourcesCall DEF Next
  <2>2. ASSUME NEW x \in Users \cup {Loop}, UseLoop(x) PROVE Next
    BY <2>2, SourcesCall DEF UseLoop, Next
  <2>3. ASSUME NEW x \in TimerUsers, UseTimers(x) PROVE UNCHANGED vars
    BY <2>3 DEF UseTimers, Start, StopTimer, StopTicker
  <2>4. ASSUME NEW s \in Sources, Expire(s) \/ TakeTick(s) \/ TakeDone(s) PROVE UNCHANGED vars
    BY <2>4 DEF Expire, TakeTick, TakeDone
  <2>5. ASSUME (\E t \in Threads : Signal(t)) \/ LoopStep PROVE Next
    BY <2>5 DEF Next
  <2>6. ASSUME UNCHANGED allvars PROVE UNCHANGED vars
    BY <2>6 DEF allvars
  <2> QED BY <1>2, <2>1, <2>2, <2>3, <2>4, <2>5, <2>6 DEF TimersNext, Receive
<1> QED BY <1>1, <1>2, PTL DEF TimersSpec, Spec

\* The loop with timers never sleeps on what they have posted.
THEOREM TimersWake == TimersSpec => []NoLostWakeup
BY TimersRefine, WakeupsAreKept, PTL

TimerTypes ==
    /\ clock \in [Sources -> {"unset", "running", "stopped", "expired"}]
    /\ tick \in [Sources -> BOOLEAN]
    /\ recv \in [Sources -> {"none", "select", "post", "end"}]
    /\ answer \in [Timers -> SUBSET BOOLEAN]
    /\ posted \in Seq(Functors)

\* Posting adds the functor to those posted, and nothing else.
LEMMA RangeOfPosted ==
    ASSUME posted \in Seq(Functors), NEW x \in Threads, NEW f \in Functors, RunInLoop(x, f)
    PROVE  /\ posted' \in Seq(Functors)
           /\ Range(posted') = Range(posted) \cup {f}
<1> DEFINE n == Len(posted)
<1>1. /\ posted' \in Seq(Functors) /\ Len(posted') = n + 1 /\ n \in Nat
      /\ \A i \in 1 .. n : posted'[i] = posted[i]
      /\ posted'[n + 1] = f
  BY AppendProperties, LenProperties DEF RunInLoop
<1>2. /\ Range(posted') = {posted'[i] : i \in 1 .. n + 1}
      /\ Range(posted) = {posted[i] : i \in 1 .. n}
  BY <1>1, RangeEquality
<1>3. 1 .. n + 1 = 1 .. n \cup {n + 1}
  BY <1>1
<1> HIDE DEF n
<1> QED BY <1>1, <1>2, <1>3

\* Only an expired timer has a tick, a goroutine that took one, or its functor
\* posted; a timer whose Stop told true was stopped in time (timer.go:19-41).
THEOREM TimerInvCorrect == TimersSpec => [](TimerTypes /\ TimerExpired)
<1> DEFINE I == TimerTypes /\ TimerExpired
<1>1. TimersInit => I
  <2>1. ASSUME TimersInit PROVE Range(posted) = {} /\ posted \in Seq(Functors)
    <3>0. posted = <<>>
      BY <2>1 DEF TimersInit, Init
    <3>1. posted \in Seq(Functors) /\ Len(posted) = 0
      BY <3>0, EmptySeq
    <3>2. Range(posted) = {posted[i] : i \in 1 .. Len(posted)}
      BY <3>1, RangeEquality
    <3>3. 1 .. Len(posted) = {}
      BY <3>1
    <3> QED BY <3>1, <3>2, <3>3
  <2>2. ASSUME TimersInit PROVE TimerTypes
    BY <2>1, <2>2 DEF TimersInit, TimerTypes
  <2>3. ASSUME TimersInit PROVE TimerExpired
    BY <2>1, <2>3 DEF TimersInit, TimerExpired, Sources
  <2> QED BY <2>2, <2>3
<1>2. ASSUME I, [TimersNext]_allvars PROVE I'
  <2> USE TimersAssumption DEF TimersAssumption, TimerTypes, TimerExpired, Sources
  <2>1. ASSUME NEW x \in TimerUsers, NEW s \in Sources, Start(x, s) PROVE I'
    BY <1>2, <2>1 DEF Start, vars, hist
  <2>2. ASSUME NEW x \in TimerUsers, NEW t \in Timers, StopTimer(x, t) PROVE I'
    BY <1>2, <2>2 DEF StopTimer, vars, hist
  <2>3. ASSUME NEW x \in TimerUsers, NEW k \in Tickers, StopTicker(x, k) PROVE I'
    BY <1>2, <2>3 DEF StopTicker, vars, hist
  <2>4. ASSUME NEW s \in Sources, Expire(s) PROVE I'
    BY <1>2, <2>4 DEF Expire, vars, hist
  <2>5. ASSUME NEW s \in Sources, TakeTick(s) \/ TakeDone(s) PROVE I'
    BY <1>2, <2>5 DEF TakeTick, TakeDone, vars, hist
  <2>6. ASSUME NEW s \in Sources, Post(s) PROVE I'
    <3>1. PICK f \in Posts(s) : RunInLoop(s, f)
      BY <2>6 DEF Post
    <3>2. posted' \in Seq(Functors) /\ Range(posted') = Range(posted) \cup {f}
      BY <1>2, <3>1, SourcesCall, RangeOfPosted
    <3>3. f \notin Timers \ {s}
      BY <3>1 DEF Posts
    <3> QED BY <1>2, <2>6, <3>2, <3>3 DEF Post
  <2>7. ASSUME NEW x \in Users \cup {Loop}, NEW f \in Plain, RunInLoop(x, f), UNCHANGED tvars PROVE I'
    <3>1. posted' \in Seq(Functors) /\ Range(posted') = Range(posted) \cup {f}
      BY <1>2, <2>7, SourcesCall, RangeOfPosted
    <3>2. f \notin Timers
      BY <2>7 DEF Plain, Posts
    <3> QED BY <1>2, <2>7, <3>1, <3>2 DEF tvars
  <2>8. ASSUME UNCHANGED posted, UNCHANGED tvars PROVE I'
    BY <1>2, <2>8 DEF tvars, Range
  <2>9. ASSUME UNCHANGED allvars PROVE I'
    BY <2>8, <2>9 DEF allvars, vars, hist
  <2> QED
    BY <1>2, <2>1, <2>2, <2>3, <2>4, <2>5, <2>6, <2>7, <2>8, <2>9
    DEF TimersNext, UseTimers, UseLoop, Receive, Close, Signal, LoopStep, Wait, Swap, BeginFunctor,
        EndFunctor, EndBatch, hist
<1> QED BY <1>1, <1>2, PTL DEF TimersSpec

\* A timer that was stopped in time never posts (timer.go:35-41), whatever its
\* goroutine is doing: only an expired timer has a tick to post for.
THEOREM StoppedTimers == TimersSpec => []StoppedNeverPosts
<1>1. TimerTypes /\ TimerExpired => StoppedNeverPosts
  BY TimersAssumption DEF TimerExpired, StoppedNeverPosts
<1> QED BY <1>1, TimerInvCorrect, PTL

-----------------------------------------------------------------------------
\* The end of a sequence from a place on, when an element is appended.
LEMMA RangeOfEnd ==
    ASSUME NEW S, NEW s \in Seq(S), NEW n \in 0 .. Len(s)
    PROVE  Range(SubSeq(s, n + 1, Len(s))) = {s[i] : i \in n + 1 .. Len(s)}
<1> DEFINE t == SubSeq(s, n + 1, Len(s))
<1>1. Len(s) \in Nat /\ \A i \in n + 1 .. Len(s) : s[i] \in S
    BY LenProperties, ElementOfSeq
<1>2. /\ t \in Seq(S) /\ Len(t) = Len(s) - n
      /\ \A i \in 1 .. Len(s) - n : t[i] = s[n + i]
  <2>1. /\ t \in Seq(S) /\ Len(t) = IF n + 1 <= Len(s) THEN Len(s) - (n + 1) + 1 ELSE 0
        /\ \A i \in 1 .. Len(s) - (n + 1) + 1 : t[i] = s[n + 1 + i - 1]
      BY <1>1, SubSeqProperties
  <2> HIDE DEF t
  <2> QED BY <1>1, <2>1
<1> HIDE DEF t
<1>3. Range(t) = {t[i] : i \in 1 .. Len(s) - n}
    BY <1>2, RangeEquality
<1>4. \A i \in n + 1 .. Len(s) : i - n \in 1 .. Len(s) - n /\ n + (i - n) = i
    BY <1>1
<1>5. \A i \in 1 .. Len(s) - n : n + i \in n + 1 .. Len(s)
    BY <1>1
<1>6. Range(t) = {s[i] : i \in n + 1 .. Len(s)}
  <2>1. ASSUME NEW i \in n + 1 .. Len(s)  PROVE s[i] \in Range(t)
    <3>1. PICK j \in 1 .. Len(s) - n : n + j = i
        BY <1>4
    <3>2. s[i] = t[j]
        BY <1>2, <3>1
    <3>3. t[j] \in {t[p] : p \in 1 .. Len(s) - n}
        OBVIOUS
    <3>4. t[j] \in Range(t)
        BY <1>3, <3>3, Zenon
    <3> HIDE DEF t
    <3> QED BY <3>2, <3>4, Zenon
  <2>2. ASSUME NEW x \in Range(t)  PROVE x \in {s[i] : i \in n + 1 .. Len(s)}
    <3>1. PICK j \in 1 .. Len(s) - n : x = t[j]
        BY <1>3, Zenon
    <3>2. n + j \in n + 1 .. Len(s) /\ x = s[n + j]
        BY <1>2, <1>5, <3>1
    <3> QED BY <3>2, Zenon
  <2> QED BY <2>1, <2>2
<1> QED BY <1>6 DEF t

LEMMA PostedAfterGrows ==
    ASSUME posted \in Seq(Functors), NEW n \in 0 .. Len(posted), NEW k,
           NEW x \in Threads, NEW f \in Functors, RunInLoop(x, f)
    PROVE  /\ posted' \in Seq(Functors) /\ n \in 0 .. Len(posted')
           /\ PostedAfter(k, n)' = PostedAfter(k, n) \cup (Posts(k) \cap {f})
<1> DEFINE m == Len(posted)
<1>1. /\ posted' \in Seq(Functors) /\ Len(posted') = m + 1 /\ m \in Nat
      /\ \A i \in 1 .. m : posted'[i] = posted[i]
      /\ posted'[m + 1] = f
    BY AppendProperties, LenProperties DEF RunInLoop
<1>2. /\ Range(SubSeq(posted, n + 1, m)) = {posted[i] : i \in n + 1 .. m}
      /\ Range(SubSeq(posted', n + 1, Len(posted'))) = {posted'[i] : i \in n + 1 .. m + 1}
  <2>1. n \in 0 .. Len(posted')
      BY <1>1
  <2> QED BY <1>1, <2>1, RangeOfEnd
<1>3. n + 1 .. m + 1 = n + 1 .. m \cup {m + 1}
    BY <1>1
<1> HIDE DEF m
<1>4. {posted'[i] : i \in n + 1 .. m + 1} = {posted[i] : i \in n + 1 .. m} \cup {f}
  <2>1. \A i \in n + 1 .. m : i \in 1 .. m
      OBVIOUS
  <2>2. \A i \in n + 1 .. m : posted'[i] = posted[i]
      BY <1>1, <2>1
  <2>3. posted'[m + 1] = f
      BY <1>1
  <2> QED BY <1>3, <2>2, <2>3
<1> QED BY <1>1, <1>2, <1>4 DEF PostedAfter, Posts, m

\* The ticks of a ticker that are not posted yet: in the channel, in the hand.
Held(k) == (IF tick[k] THEN 1 ELSE 0) + (IF recv[k] = "post" THEN 1 ELSE 0)

\* What is posted after Stop was held when it returned, since the runtime ticks
\* no more.
StoppedRunsDry ==
    \A k \in Tickers : \A n \in stoppedAt[k] :
        /\ clock[k] = "stopped" /\ n \in 0 .. Len(posted)
        /\ IsFiniteSet(PostedAfter(k, n))
        /\ Cardinality(PostedAfter(k, n)) + Held(k) <= 2

LEMMA TickerInvStep ==
    ASSUME TimerTypes, TimerTypes', stoppedAt \in [Tickers -> SUBSET Nat], StoppedRunsDry,
           [TimersNext]_allvars
    PROVE  stoppedAt' \in [Tickers -> SUBSET Nat] /\ StoppedRunsDry'
<1> USE DEF TimerTypes, Sources, Held
<1>0. /\ Len(posted) \in Nat
      /\ \A k \in Tickers : k \in Sources /\ k \notin Timers
    BY LenProperties, TimersAssumption
<1>1. ASSUME UNCHANGED posted, UNCHANGED stoppedAt,
             \A k \in Tickers : stoppedAt[k] # {} /\ clock[k] = "stopped"
                                  => clock'[k] = "stopped" /\ Held(k)' <= Held(k)
      PROVE  stoppedAt' \in [Tickers -> SUBSET Nat] /\ StoppedRunsDry'
  <2> SUFFICES ASSUME NEW k \in Tickers, NEW n \in stoppedAt[k]
               PROVE  /\ clock'[k] = "stopped" /\ n \in 0 .. Len(posted)
                      /\ IsFiniteSet(PostedAfter(k, n))
                      /\ Cardinality(PostedAfter(k, n)) + Held(k)' <= 2
      BY <1>1 DEF StoppedRunsDry, PostedAfter, Posts
  <2>1. /\ clock[k] = "stopped" /\ n \in 0 .. Len(posted)
        /\ IsFiniteSet(PostedAfter(k, n))
        /\ Cardinality(PostedAfter(k, n)) + Held(k) <= 2
      BY DEF StoppedRunsDry
  <2>2. Cardinality(PostedAfter(k, n)) \in Nat /\ Held(k) \in Nat /\ Held(k)' \in Nat
      BY <2>1, FS_CardinalityType
  <2> HIDE DEF Held
  <2> QED BY <1>1, <2>1, <2>2
<1>2. ASSUME NEW x \in TimerUsers, NEW s \in Sources, Start(x, s)
      PROVE  stoppedAt' \in [Tickers -> SUBSET Nat] /\ StoppedRunsDry'
    BY <1>0, <1>1, <1>2 DEF Start, vars, hist
<1>3. ASSUME NEW x \in TimerUsers, NEW t \in Timers, StopTimer(x, t)
      PROVE  stoppedAt' \in [Tickers -> SUBSET Nat] /\ StoppedRunsDry'
    BY <1>0, <1>1, <1>3 DEF StopTimer, vars, hist
<1>4. ASSUME NEW x \in TimerUsers, NEW k \in Tickers, StopTicker(x, k)
      PROVE  stoppedAt' \in [Tickers -> SUBSET Nat] /\ StoppedRunsDry'
  <2>1. /\ stoppedAt' \in [Tickers -> SUBSET Nat]
        /\ posted' = posted /\ \A l \in Tickers : Held(l)' = Held(l)
        /\ \A l \in Tickers \ {k} : stoppedAt'[l] = stoppedAt[l] /\ clock'[l] = clock[l]
        /\ stoppedAt'[k] = {Len(posted)} /\ clock'[k] = "stopped"
      BY <1>0, <1>4 DEF StopTicker, vars, hist
  <2>2. Range(SubSeq(posted, Len(posted) + 1, Len(posted))) = {}
      BY <1>0, RangeOfEnd
  <2>3. PostedAfter(k, Len(posted)) = {}
      BY <2>2 DEF PostedAfter
  <2>4. Cardinality({}) = 0 /\ IsFiniteSet({})
      BY FS_EmptySet
  <2> SUFFICES ASSUME NEW l \in Tickers, NEW n \in stoppedAt'[l]
               PROVE  /\ clock'[l] = "stopped" /\ n \in 0 .. Len(posted)
                      /\ IsFiniteSet(PostedAfter(l, n))
                      /\ Cardinality(PostedAfter(l, n)) + Held(l) <= 2
    <3>1. \A j \in Tickers : \A p : PostedAfter(j, p)' = PostedAfter(j, p)
        BY <2>1 DEF PostedAfter, Posts
    <3>2. /\ posted' = posted /\ \A j \in Tickers : Held(j)' = Held(j)
          /\ stoppedAt' \in [Tickers -> SUBSET Nat]
        BY <2>1
    <3>3. ASSUME NEW j \in Tickers, NEW p \in stoppedAt'[j]
          PROVE  /\ clock'[j] = "stopped" /\ p \in 0 .. Len(posted')
                 /\ IsFiniteSet(PostedAfter(j, p)')
                 /\ Cardinality(PostedAfter(j, p)') + Held(j)' <= 2
        BY <3>1, <3>2
    <3> QED BY <3>2, <3>3 DEF StoppedRunsDry
  <2>5. CASE l = k
    <3>1. n = Len(posted) /\ clock'[l] = "stopped"
        BY <2>1, <2>5
    <3>2. PostedAfter(l, n) = {}
        BY <2>3, <2>5, <3>1
    <3>3. Held(l) \in 0 .. 2
        OBVIOUS
    <3> HIDE DEF Held
    <3> QED BY <1>0, <2>4, <3>1, <3>2, <3>3
  <2>6. CASE l # k
      BY <2>1, <2>6 DEF StoppedRunsDry
  <2> QED BY <2>5, <2>6
<1>5. ASSUME NEW s \in Sources, Expire(s) \/ TakeTick(s) \/ TakeDone(s)
      PROVE  stoppedAt' \in [Tickers -> SUBSET Nat] /\ StoppedRunsDry'
  <2>1. UNCHANGED posted /\ UNCHANGED stoppedAt
      BY <1>5 DEF Expire, TakeTick, TakeDone, vars, hist
  <2>2. ASSUME NEW k \in Tickers, clock[k] = "stopped"
        PROVE  clock'[k] = "stopped" /\ Held(k)' <= Held(k)
      BY <1>0, <1>5, <2>2 DEF Expire, TakeTick, TakeDone
  <2> QED BY <1>1, <2>1, <2>2
<1>6. ASSUME NEW x \in Threads, NEW f \in Functors, RunInLoop(x, f), UNCHANGED <<clock, stoppedAt>>,
             \A k \in Tickers : \/ f \notin Posts(k) /\ Held(k)' = Held(k)
                                \/ Held(k)' = Held(k) - 1
      PROVE  stoppedAt' \in [Tickers -> SUBSET Nat] /\ StoppedRunsDry'
  <2> SUFFICES ASSUME NEW k \in Tickers, NEW n \in stoppedAt[k]
               PROVE  /\ clock[k] = "stopped" /\ n \in 0 .. Len(posted')
                      /\ IsFiniteSet(PostedAfter(k, n)')
                      /\ Cardinality(PostedAfter(k, n)') + Held(k)' <= 2
      BY <1>6 DEF StoppedRunsDry, PostedAfter, Posts
  <2>1. /\ clock[k] = "stopped" /\ n \in 0 .. Len(posted)
        /\ IsFiniteSet(PostedAfter(k, n))
        /\ Cardinality(PostedAfter(k, n)) + Held(k) <= 2
      BY DEF StoppedRunsDry
  <2>2. /\ n \in 0 .. Len(posted')
        /\ PostedAfter(k, n)' = PostedAfter(k, n) \cup (Posts(k) \cap {f})
      BY <1>6, <2>1, PostedAfterGrows
  <2>3. Cardinality(PostedAfter(k, n)) \in Nat /\ Held(k) \in Nat /\ Held(k)' \in Nat
      BY <2>1, FS_CardinalityType
  <2> HIDE DEF Held
  <2>4. CASE f \notin Posts(k) /\ Held(k)' = Held(k)
    <3>1. PostedAfter(k, n)' = PostedAfter(k, n)
        BY <2>2, <2>4
    <3> QED BY <2>1, <2>2, <2>4, <3>1
  <2>5. CASE Held(k)' = Held(k) - 1
    <3>1. \/ PostedAfter(k, n)' = PostedAfter(k, n)
          \/ PostedAfter(k, n)' = PostedAfter(k, n) \cup {f}
        BY <2>2
    <3> DEFINE P == PostedAfter(k, n)
               Q == PostedAfter(k, n)'
    <3>2. IsFiniteSet(P) /\ Cardinality(P) \in Nat /\ Cardinality(P) + Held(k) <= 2
        BY <2>1, <2>3
    <3>3. Q = P \/ Q = P \cup {f}
        BY <3>1
    <3> HIDE DEF P, Q
    <3>4. /\ IsFiniteSet(P \cup {f})
          /\ Cardinality(P \cup {f}) = Cardinality(P) \/ Cardinality(P \cup {f}) = Cardinality(P) + 1
        BY <3>2, FS_AddElement
    <3>5. IsFiniteSet(Q) /\ (Cardinality(Q) = Cardinality(P) \/ Cardinality(Q) = Cardinality(P) + 1)
        BY <3>2, <3>3, <3>4
    <3>6. IsFiniteSet(Q) /\ Cardinality(Q) + Held(k)' <= 2
        BY <2>3, <2>5, <3>2, <3>5
    <3> QED BY <2>1, <2>2, <3>6 DEF Q
  <2> QED BY <1>6, <2>4, <2>5
<1>7. ASSUME NEW s \in Sources, Post(s)
      PROVE  stoppedAt' \in [Tickers -> SUBSET Nat] /\ StoppedRunsDry'
  <2>1. PICK f \in Posts(s) : RunInLoop(s, f)
      BY <1>7 DEF Post
  <2>2. ASSUME NEW k \in Tickers
        PROVE  \/ f \notin Posts(k) /\ Held(k)' = Held(k)
               \/ Held(k)' = Held(k) - 1
    <3>1. CASE k = s
        BY <1>0, <1>7, <3>1 DEF Post
    <3>2. CASE k # s
      <4>1. f \notin Posts(k)
          BY <1>0, <2>1, <3>2, TimersAssumption DEF Posts
      <4> QED BY <1>0, <1>7, <3>2, <4>1 DEF Post
    <3> QED BY <3>1, <3>2
  <2>3. f \in Functors /\ s \in Threads /\ UNCHANGED <<clock, stoppedAt>>
      BY <1>7, SourcesCall DEF Post
  <2> QED BY <1>6, <2>1, <2>2, <2>3
<1>8. ASSUME NEW x \in Users \cup {Loop}, NEW f \in Plain, RunInLoop(x, f), UNCHANGED tvars
      PROVE  stoppedAt' \in [Tickers -> SUBSET Nat] /\ StoppedRunsDry'
  <2>1. f \in Functors /\ x \in Threads
      BY SourcesCall
  <2>2. \A k \in Tickers : f \notin Posts(k)
      BY <1>0 DEF Plain
  <2> QED BY <1>6, <1>8, <2>1, <2>2 DEF tvars
<1>9. ASSUME UNCHANGED posted, UNCHANGED tvars
      PROVE  stoppedAt' \in [Tickers -> SUBSET Nat] /\ StoppedRunsDry'
    BY <1>1, <1>9 DEF tvars
<1>10. ASSUME NEW x \in Users \cup {Loop}, UseLoop(x), UNCHANGED tvars
       PROVE  stoppedAt' \in [Tickers -> SUBSET Nat] /\ StoppedRunsDry'
    BY <1>8, <1>9, <1>10 DEF UseLoop, Close
<1>11. ASSUME (\E t \in Threads : Signal(t)) \/ LoopStep, UNCHANGED tvars
       PROVE  stoppedAt' \in [Tickers -> SUBSET Nat] /\ StoppedRunsDry'
    BY <1>9, <1>11 DEF Signal, LoopStep, Wait, Swap, BeginFunctor, EndFunctor, EndBatch, hist
<1>12. CASE UNCHANGED allvars
    BY <1>9, <1>12 DEF allvars, vars, hist
<1> QED BY <1>2, <1>3, <1>4, <1>5, <1>7, <1>10, <1>11, <1>12
        DEF TimersNext, UseTimers, Receive

\* The safe half of StoppedTickerEnds, for any tickers and timers, any goroutines
\* that stop them and any bound on the ticks (ticker.go:27-41).
THEOREM StoppedTickers == TimersSpec => [](\A k \in Tickers : AtMostTwoMore(k))
<1>1. TimersInit => stoppedAt \in [Tickers -> SUBSET Nat] /\ StoppedRunsDry
    BY DEF TimersInit, StoppedRunsDry
<1>2. StoppedRunsDry => \A k \in Tickers : AtMostTwoMore(k)
  <2> SUFFICES ASSUME StoppedRunsDry, NEW k \in Tickers, NEW n \in stoppedAt[k]
               PROVE  Cardinality(PostedAfter(k, n)) <= 2
      BY DEF AtMostTwoMore
  <2>1. /\ Cardinality(PostedAfter(k, n)) \in Nat /\ Held(k) \in Nat
        /\ Cardinality(PostedAfter(k, n)) + Held(k) <= 2
      BY FS_CardinalityType DEF StoppedRunsDry, Held
  <2> QED BY <2>1
<1>3. TimerTypes /\ TimerTypes' /\ stoppedAt \in [Tickers -> SUBSET Nat] /\ StoppedRunsDry
        /\ [TimersNext]_allvars
        => (stoppedAt \in [Tickers -> SUBSET Nat] /\ StoppedRunsDry)'
    BY TickerInvStep
<1> QED BY <1>1, <1>2, <1>3, TimerInvCorrect, PTL DEF TimersSpec
=============================================================================
