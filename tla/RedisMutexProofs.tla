------------------------- MODULE RedisMutexProofs -------------------------
(***************************************************************************)
(* Proofs about RedisMutex for any finite set of callers, any number of    *)
(* tries, failing commands and callers that stop anywhere.                 *)
(***************************************************************************)
EXTENDS RedisMutex, FiniteSetTheorems, TLAPS

CounterTypes ==
    key \in Int /\ present \in BOOLEAN /\ ttl \in BOOLEAN /\ disturbed \in BOOLEAN

\* What a command that deletes or releases does to the types.
LEMMA DelTypes == ASSUME TypeOK, Del PROVE CounterTypes'
<1>1. key' \in Int
  BY SMT DEF Del
<1>2. present' \in BOOLEAN /\ ttl' \in BOOLEAN /\ disturbed' \in BOOLEAN
  BY Zenon DEF Del
<1> QED BY <1>1, <1>2 DEF CounterTypes

LEMMA ReleaseTypes == ASSUME TypeOK, NEW p \in Procs, Release(p) PROVE CounterTypes'
<1>1. key' \in Int
  BY SMT DEF Release, TypeOK
<1>2. present' \in BOOLEAN /\ ttl' \in BOOLEAN /\ disturbed' \in BOOLEAN
  BY Zenon DEF Release, TypeOK
<1> QED BY <1>1, <1>2 DEF CounterTypes

LEMMA IncrDecrTypes == ASSUME TypeOK, Incr \/ Decr PROVE CounterTypes'
<1>1. key' \in Int
  BY SMT DEF Incr, Decr, TypeOK
<1>2. present' \in BOOLEAN /\ ttl' \in BOOLEAN /\ disturbed' \in BOOLEAN
  BY Zenon DEF Incr, Decr, TypeOK
<1> QED BY <1>1, <1>2 DEF CounterTypes

LEMMA ExpireTypes == ASSUME TypeOK, Expire PROVE CounterTypes'
  BY Zenon DEF Expire, TypeOK, CounterTypes

CommandTypes == CounterTypes /\ con \in [Procs -> BOOLEAN] /\ failed \in BOOLEAN

\* Whatever becomes of a command, redis and the connection keep their types.
LEMMA AnswerTypes ==
    ASSUME TypeOK, NEW p \in Procs, Answer(p, CounterTypes') \/ NoAnswer(p, CounterTypes')
    PROVE  CommandTypes'
<1>1. CounterTypes' /\ failed' \in BOOLEAN
  BY Zenon DEF Answer, NoAnswer, TypeOK, CounterTypes, redis
<1>2. con' \in [Procs -> BOOLEAN]
  BY DEF Answer, NoAnswer, TypeOK
<1> QED BY <1>1, <1>2 DEF CommandTypes

LEMMA Commands ==
    ASSUME TypeOK, NEW p \in Procs,
           \/ Answer(p, Incr) \/ Answer(p, Decr) \/ Answer(p, Expire)
           \/ Answer(p, Del)  \/ Answer(p, Release(p))
           \/ NoAnswer(p, Incr) \/ NoAnswer(p, Decr) \/ NoAnswer(p, Expire)
           \/ NoAnswer(p, Del)  \/ NoAnswer(p, Release(p))
    PROVE  CommandTypes'
<1>1. Incr \/ Decr \/ Expire \/ Del \/ Release(p) => CounterTypes'
  BY Zenon, IncrDecrTypes, ExpireTypes, DelTypes, ReleaseTypes
<1>2. Answer(p, CounterTypes') \/ NoAnswer(p, CounterTypes')
  BY Zenon, <1>1 DEF Answer, NoAnswer
<1> QED BY <1>2, AnswerTypes

\* Lock enters a try only with tries left.
TriesLeft == \A p \in Procs : pc[p] \in {"incr", "expire", "decr"} => tries[p] < MaxTries

\* The counter stays an integer, and so do the results of INCR
\* (redismutex.go:71).
THEOREM TypeCorrect == Spec => []TypeOK
<1>1. Init => TypeOK /\ TriesLeft
  <2> SUFFICES ASSUME Init PROVE TypeOK /\ TriesLeft
    OBVIOUS
  <2>1. 0 \in 0 .. MaxTries
    BY MutexAssumption DEF MutexAssumption
  <2>2. MaxTries \in Nat \ {0}
    BY MutexAssumption DEF MutexAssumption
  <2>3. tries \in [Procs -> 0 .. MaxTries] /\ TriesLeft
    BY <2>1, <2>2 DEF Init, TriesLeft
  <2>4. key \in Int
    BY DEF Init
  <2>5. present \in BOOLEAN /\ ttl \in BOOLEAN /\ disturbed \in BOOLEAN /\ failed \in BOOLEAN
    BY Zenon DEF Init
  <2>6. /\ pc \in [Procs -> PCs] /\ got \in [Procs -> Int] /\ locked \in [Procs -> BOOLEAN]
        /\ calls \in [Procs -> Nat] /\ con \in [Procs -> BOOLEAN]
    BY DEF Init, PCs
  <2> QED BY Zenon, <2>3, <2>4, <2>5, <2>6 DEF TypeOK
<1>2. TypeOK /\ TriesLeft /\ [Next]_vars => TypeOK' /\ TriesLeft'
  <2> SUFFICES ASSUME TypeOK, TriesLeft, [Next]_vars PROVE TypeOK' /\ TriesLeft'
    OBVIOUS
  <2>1. ASSUME NEW p \in Procs, Lock(p) PROVE TypeOK' /\ TriesLeft'
    BY <2>1, MutexAssumption DEF MutexAssumption, Lock, Goes, TypeOK, PCs, TriesLeft, redis
  <2>2. ASSUME NEW p \in Procs, LockIncr(p) PROVE TypeOK' /\ TriesLeft'
    BY <2>2 DEF LockIncr, Goes, Answer, Incr, TypeOK, PCs, TriesLeft
  <2>3. ASSUME NEW p \in Procs, LockIncrFails(p) PROVE TypeOK' /\ TriesLeft'
    <3>1. CommandTypes'
      BY <2>3, Commands DEF LockIncrFails
    <3> QED BY <2>3, <3>1 DEF CommandTypes, CounterTypes, LockIncrFails, AfterFailure, Goes, TypeOK, PCs, TriesLeft
  <2>4. ASSUME NEW p \in Procs, Wait(p) PROVE TypeOK' /\ TriesLeft'
    <3>1. CommandTypes'
      BY <2>4, Commands DEF Wait
    <3> QED BY <2>4, <3>1 DEF CommandTypes, CounterTypes, Wait, Goes, TypeOK, PCs, TriesLeft
  <2>5. ASSUME NEW p \in Procs, Acquire(p) PROVE TypeOK' /\ TriesLeft'
    <3>1. CommandTypes'
      BY <2>5, Commands DEF Acquire
    <3> QED BY <2>5, <3>1 DEF CommandTypes, CounterTypes, Acquire, Goes, TypeOK, PCs, TriesLeft
  <2>6. ASSUME NEW p \in Procs, LockDecr(p) PROVE TypeOK' /\ TriesLeft'
    <3>1. CommandTypes'
      BY <2>6, Commands DEF LockDecr
    <3>2. MaxTries \in Nat /\ tries[p] \in Nat /\ tries[p] < MaxTries
      BY <2>6, MutexAssumption DEF MutexAssumption, LockDecr, Goes, TypeOK, TriesLeft
    <3>3. tries' \in [Procs -> 0 .. MaxTries]
      BY <2>6, <3>2 DEF LockDecr, TypeOK
    <3>4. pc' \in [Procs -> PCs]
      BY <2>6 DEF LockDecr, Goes, TypeOK, PCs
    <3>5. TriesLeft'
      BY <2>6, <3>2 DEF LockDecr, Goes, TypeOK, TriesLeft
    <3>6. /\ got' = got /\ locked' = locked /\ calls' = calls
      BY <2>6 DEF LockDecr
    <3> QED BY Zenon, <3>1, <3>3, <3>4, <3>5, <3>6 DEF CommandTypes, CounterTypes, TypeOK
  <2>7. ASSUME NEW p \in Procs, LockDecrFails(p) PROVE TypeOK' /\ TriesLeft'
    <3>1. CommandTypes'
      BY <2>7, Commands DEF LockDecrFails
    <3> QED BY <2>7, <3>1 DEF CommandTypes, CounterTypes, LockDecrFails, AfterFailure, Goes, TypeOK, PCs, TriesLeft
  <2>8. ASSUME NEW p \in Procs, TimeOut(p) PROVE TypeOK' /\ TriesLeft'
    <3>1. CommandTypes'
      BY <2>8, Commands DEF TimeOut
    <3> QED BY <2>8, <3>1 DEF CommandTypes, CounterTypes, TimeOut, AfterFailure, Goes, TypeOK, PCs, TriesLeft
  <2>9. ASSUME NEW p \in Procs, Leave(p) PROVE TypeOK' /\ TriesLeft'
    BY <2>9 DEF Leave, Goes, TypeOK, PCs, TriesLeft, redis, hist
  <2>10. ASSUME NEW p \in Procs, UnLock(p) PROVE TypeOK' /\ TriesLeft'
    <3>1. CommandTypes'
      BY <2>10, Commands DEF UnLock
    <3> QED BY <2>10, <3>1 DEF CommandTypes, CounterTypes, UnLock, Goes, TypeOK, PCs, TriesLeft
  <2>11. ASSUME NEW p \in Procs, UnLockFails(p) PROVE TypeOK' /\ TriesLeft'
    <3>1. CommandTypes'
      BY <2>11, Commands DEF UnLockFails
    <3> QED BY <2>11, <3>1 DEF CommandTypes, CounterTypes, UnLockFails, Goes, TypeOK, PCs, TriesLeft
  <2>12. ASSUME NEW p \in Procs, Reset(p) PROVE TypeOK' /\ TriesLeft'
    <3>1. CommandTypes'
      BY <2>12, Commands DEF Reset
    <3> QED BY <2>12, <3>1 DEF CommandTypes, CounterTypes, Reset, Goes, TypeOK, PCs, TriesLeft
  <2>13. CASE KeyExpires
    <3>1. CounterTypes'
      BY <2>13, DelTypes DEF KeyExpires
    <3> QED BY <2>13, <3>1 DEF CounterTypes, KeyExpires, TypeOK, caller, TriesLeft
  <2>14. CASE UNCHANGED vars
    BY <2>14 DEF vars, redis, caller, hist, TypeOK, TriesLeft
  <2> QED BY <2>1, <2>2, <2>3, <2>4, <2>5, <2>6, <2>7, <2>8, <2>9, <2>10, <2>11, <2>12,
             <2>13, <2>14 DEF Next, Step
<1> QED BY <1>1, <1>2, PTL DEF Spec

-----------------------------------------------------------------------------
(***************************************************************************)
(* Mutual exclusion.  Winners are the callers whose INCR returned less     *)
(* than 2 and whose increment is still in the counter; Inv says that there *)
(* is at most one of them and that only they can have the lock.            *)
(***************************************************************************)
Winners   == {p \in Counted : got[p] < 2}
OneWinner == ~disturbed => \A p, q \in Winners : p = q
InLock    == {"incr", "expire", "decr", "clear"}
Unlocked  == \A p \in Procs : pc[p] \in InLock => ~locked[p]
HeldByWinner == \A p \in Procs : Holds(p) => got[p] < 2

Inv == TypeOK /\ CounterIsExact /\ OneWinner /\ Unlocked /\ HeldByWinner

LEMMA CountedFinite == IsFiniteSet(Counted) /\ Cardinality(Counted) \in Nat
<1>1. Counted \subseteq Procs
  BY DEF Counted
<1>2. IsFiniteSet(Counted)
  BY <1>1, MutexAssumption, FS_Subset DEF MutexAssumption
<1> QED BY <1>2, FS_CardinalityType

Joins(p) == p \notin Counted /\ Counted' = Counted \cup {p} /\ key' = key + 1
Parts(p) == p \in Counted /\ Counted' = Counted \ {p} /\ key' = key - 1

\* What a step may do to the counter and to those who are counted in it.
Accounted ==
    \/ disturbed'
    \/ Counted' = Counted /\ key' = key
    \/ \E p \in Procs : Joins(p) \/ Parts(p)
    \/ failed' /\ Counted' \subseteq Counted /\ key' >= key
    \/ Counted' = {} /\ key' = 0

LEMMA Exact ==
    ASSUME key \in Int, key' \in Int, CounterIsExact, Accounted,
           disturbed => disturbed', failed => failed'
    PROVE  CounterIsExact'
<1> DEFINE n == Cardinality(Counted)
           m == Cardinality(Counted')
<1>1. n \in Nat /\ IsFiniteSet(Counted)
  BY CountedFinite
<1>2. CASE disturbed'
  BY <1>2 DEF CounterIsExact
<1>3. CASE ~disturbed'
  <2>1. ~disturbed
    BY <1>3
  <2>2. key >= n /\ (~failed => key = n)
    BY <2>1 DEF CounterIsExact
  <2>3. key' >= m /\ (~failed' => key' = m)
    <3>1. CASE Counted' = Counted /\ key' = key
      BY <2>2, <3>1
    <3>2. ASSUME NEW p \in Procs, Joins(p) PROVE key' >= m /\ (~failed' => key' = m)
      <4>1. m = n + 1
        BY <1>1, <3>2, FS_AddElement DEF Joins
      <4> HIDE DEF n, m
      <4>2. key' >= m /\ (key = n => key' = m)
        BY <1>1, <2>2, <3>2, <4>1 DEF Joins
      <4> QED BY <2>2, <4>2
    <3>3. ASSUME NEW p \in Procs, Parts(p) PROVE key' >= m /\ (~failed' => key' = m)
      <4>1. m = n - 1
        BY <1>1, <3>3, FS_RemoveElement DEF Parts
      <4> HIDE DEF n, m
      <4>2. key' >= m /\ (key = n => key' = m)
        BY <1>1, <2>2, <3>3, <4>1 DEF Parts
      <4> QED BY <2>2, <4>2
    <3>4. CASE failed' /\ Counted' \subseteq Counted /\ key' >= key
      <4>1. m <= n /\ m \in Nat
        BY <1>1, <3>4, FS_Subset, FS_CardinalityType
      <4> HIDE DEF n, m
      <4>2. key' >= m
        BY <1>1, <2>2, <3>4, <4>1
      <4> QED BY <3>4, <4>2
    <3>5. CASE Counted' = {} /\ key' = 0
      BY <3>5, FS_EmptySet
    <3> QED BY <1>3, <3>1, <3>2, <3>3, <3>4, <3>5 DEF Accounted
  <2> QED BY <2>3 DEF CounterIsExact
<1> QED BY <1>2, <1>3

\* A step that adds no winner keeps them unique.
LEMMA NoNewWinner ==
    ASSUME OneWinner, disturbed => disturbed', Winners' \subseteq Winners
    PROVE  OneWinner'
  BY Zenon DEF OneWinner

\* History is never taken back.
Grows == (disturbed => disturbed') /\ (failed => failed')

LEMMA HistoryGrows == ASSUME Next PROVE Grows
<1>1. Incr \/ Decr \/ Expire \/ Del => (disturbed => disturbed')
  BY Zenon DEF Incr, Decr, Expire, Del
<1>2. \A p \in Procs : Release(p) => (disturbed => disturbed')
  BY Zenon DEF Release
<1>3. ASSUME NEW p \in Procs, Lock(p) \/ Leave(p) PROVE Grows
  BY <1>3 DEF Lock, Leave, hist, Grows
<1>4. ASSUME NEW p \in Procs, LockIncr(p) \/ LockIncrFails(p) PROVE Grows
  BY <1>1, <1>4 DEF LockIncr, LockIncrFails, Answer, NoAnswer, Grows
<1>5. ASSUME NEW p \in Procs, Wait(p) \/ Acquire(p) PROVE Grows
  BY <1>1, <1>5 DEF Wait, Acquire, Answer, NoAnswer, Grows
<1>6. ASSUME NEW p \in Procs, LockDecr(p) \/ LockDecrFails(p) PROVE Grows
  BY <1>1, <1>6 DEF LockDecr, LockDecrFails, Answer, NoAnswer, Grows
<1>7. ASSUME NEW p \in Procs, TimeOut(p) \/ Reset(p) PROVE Grows
  BY <1>1, <1>7 DEF TimeOut, Reset, Answer, NoAnswer, Grows
<1>8. ASSUME NEW p \in Procs, UnLock(p) \/ UnLockFails(p) PROVE Grows
  BY <1>2, <1>8 DEF UnLock, UnLockFails, Answer, NoAnswer, Grows
<1>9. CASE KeyExpires
  BY Zenon, <1>9 DEF KeyExpires, Del, Grows
<1> QED BY Zenon, <1>3, <1>4, <1>5, <1>6, <1>7, <1>8, <1>9 DEF Next, Step

\* The effect of the next step that Inv needs.
Effect == Accounted /\ Winners' \subseteq Winners /\ Unlocked' /\ HeldByWinner'

\* Lock and Leave concern no counter; Wait and Acquire leave it as it is.
LEMMA QuietEffect ==
    ASSUME Inv, TypeOK', NEW p \in Procs, Lock(p) \/ Leave(p) \/ Wait(p) \/ Acquire(p)
    PROVE  Effect
<1>1. key' = key
  BY DEF Lock, Leave, Wait, Acquire, Answer, NoAnswer, Expire, redis
<1>2. Counted' = Counted
  BY DEF Lock, Leave, Wait, Acquire, Goes, Counted, Holds, Inv, TypeOK, Unlocked, InLock
<1>3. Winners' \subseteq Winners
  BY <1>2 DEF Lock, Leave, Wait, Acquire, Goes, Counted, Holds, Winners, Inv, TypeOK
<1>4. Unlocked'
  BY DEF Lock, Leave, Wait, Acquire, Goes, Inv, TypeOK, Unlocked, InLock
<1>5. HeldByWinner'
  BY DEF Lock, Leave, Wait, Acquire, Goes, Competition, Holds, HeldByWinner, Inv, TypeOK, Unlocked, InLock
<1> QED BY <1>1, <1>2, <1>3, <1>4, <1>5 DEF Effect, Accounted

\* What happens in DECR and DEL, with or without an answer.
LEMMA DecrKey ==
    ASSUME TypeOK, NEW p \in Procs, Answer(p, Decr) \/ NoAnswer(p, Decr)
    PROVE  key' = key - 1 \/ (failed' /\ key' = key)
  BY DEF Answer, NoAnswer, Decr, redis

LEMMA ReleaseKey ==
    ASSUME TypeOK, NEW p \in Procs, Answer(p, Release(p)) \/ NoAnswer(p, Release(p))
    PROVE  (key' = key - 1 /\ (locked[p] \/ disturbed')) \/ (failed' /\ key' = key)
<1>1. Release(p) => key' = key - 1 /\ (locked[p] \/ disturbed')
  BY Zenon DEF Release
<1>2. CASE Answer(p, Release(p))
  BY <1>1, <1>2 DEF Answer
<1>3. CASE NoAnswer(p, Release(p))
  BY <1>1, <1>3 DEF NoAnswer, redis
<1> QED BY <1>2, <1>3

LEMMA DelKey ==
    ASSUME TypeOK, NEW p \in Procs, Answer(p, Del) \/ NoAnswer(p, Del)
    PROVE  (key' = 0 /\ (Counted = {} \/ disturbed')) \/ key' = key
<1>1. Del => key' = 0 /\ (Counted = {} \/ disturbed')
  BY Zenon DEF Del
<1> QED BY <1>1 DEF Answer, NoAnswer, redis

\* A waiter takes its increment back and leaves the counter.
LEMMA DecrEffect ==
    ASSUME Inv, TypeOK', NEW p \in Procs, LockDecr(p) \/ LockDecrFails(p)
    PROVE  Effect
<1>1. p \in Counted /\ Counted' = Counted \ {p}
  BY DEF LockDecr, LockDecrFails, AfterFailure, Goes, Counted, Holds, Inv, TypeOK, Unlocked, InLock
<1>2. key' = key - 1 \/ (failed' /\ key' = key)
  BY DecrKey DEF LockDecr, LockDecrFails, Inv
<1>3. Accounted
  BY <1>1, <1>2 DEF Accounted, Parts, Inv, TypeOK
<1>4. Winners' \subseteq Winners
  BY <1>1 DEF Winners, LockDecr, LockDecrFails
<1>5. Unlocked' /\ HeldByWinner'
  BY DEF LockDecr, LockDecrFails, AfterFailure, Goes, Holds, HeldByWinner, Inv, TypeOK, Unlocked, InLock
<1> QED BY <1>3, <1>4, <1>5 DEF Effect

\* UnLock takes an increment back; it is the caller's own if it has the lock.
LEMMA UnLockEffect ==
    ASSUME Inv, TypeOK', NEW p \in Procs, UnLock(p) \/ UnLockFails(p)
    PROVE  Effect
<1>1. Counted' = Counted \ {p} /\ (locked[p] => p \in Counted)
  BY DEF UnLock, UnLockFails, Goes, Counted, Holds, Inv, TypeOK
<1>2. (key' = key - 1 /\ (locked[p] \/ disturbed')) \/ (failed' /\ key' = key)
  BY ReleaseKey DEF UnLock, UnLockFails, Inv
<1>3. Accounted
  BY <1>1, <1>2 DEF Accounted, Parts, Inv, TypeOK
<1>4. Winners' \subseteq Winners
  BY <1>1 DEF Winners, UnLock, UnLockFails
<1>5. Unlocked' /\ HeldByWinner'
  BY DEF UnLock, UnLockFails, Goes, Holds, HeldByWinner, Inv, TypeOK, Unlocked, InLock
<1> QED BY <1>3, <1>4, <1>5 DEF Effect

\* A deletion takes no caller out of the counter: Del records the theft.
LEMMA DelEffect ==
    ASSUME Inv, TypeOK', NEW p \in Procs, TimeOut(p) \/ Reset(p)
    PROVE  Effect
<1>1. Counted' = Counted
  BY DEF TimeOut, Reset, AfterFailure, Goes, Counted, Holds, Inv, TypeOK, Unlocked, InLock
<1>2. (key' = 0 /\ (Counted = {} \/ disturbed')) \/ key' = key
  BY DelKey DEF TimeOut, Reset, Inv
<1>3. Accounted
  BY <1>1, <1>2 DEF Accounted
<1>4. Winners' \subseteq Winners
  BY <1>1 DEF Winners, TimeOut, Reset
<1>5. Unlocked' /\ HeldByWinner'
  BY DEF TimeOut, Reset, AfterFailure, Goes, Holds, HeldByWinner, Inv, TypeOK, Unlocked, InLock
<1> QED BY <1>3, <1>4, <1>5 DEF Effect

\* Every step but a successful INCR.
LEMMA NextEffect ==
    ASSUME Inv, TypeOK', Next
    PROVE  Effect \/ \E p \in Procs : LockIncr(p)
<1>1. ASSUME NEW p \in Procs, LockIncrFails(p) PROVE Effect
  <2>1. Counted' = Counted
    BY <1>1 DEF LockIncrFails, AfterFailure, Goes, Counted, Holds, Inv, TypeOK, Unlocked, InLock
  <2>2. failed' /\ key' >= key
    BY <1>1 DEF LockIncrFails, NoAnswer, Incr, redis, Inv, TypeOK
  <2>3. Accounted
    BY <2>1, <2>2 DEF Accounted
  <2>4. Winners' \subseteq Winners
    BY <1>1, <2>1 DEF Winners, LockIncrFails
  <2>5. Unlocked' /\ HeldByWinner'
    BY <1>1 DEF LockIncrFails, AfterFailure, Goes, Holds, HeldByWinner, Inv, TypeOK, Unlocked, InLock
  <2> QED BY <2>3, <2>4, <2>5 DEF Effect
<1>2. CASE KeyExpires
  <2>1. Counted' = Counted /\ Winners' = Winners /\ Unlocked' /\ HeldByWinner'
    BY <1>2 DEF KeyExpires, caller, Counted, Holds, Winners, HeldByWinner, Inv, Unlocked
  <2>2. key' = 0 /\ (Counted = {} \/ disturbed')
    BY Zenon, <1>2 DEF KeyExpires, Del
  <2> QED BY <2>1, <2>2 DEF Effect, Accounted
<1> QED BY Zenon, <1>1, <1>2, QuietEffect, DecrEffect, UnLockEffect, DelEffect DEF Next, Step

\* An INCR that returns less than 2 found nobody counted.
LEMMA IncrKeeps ==
    ASSUME Inv, TypeOK', NEW p \in Procs, LockIncr(p)
    PROVE  Accounted /\ OneWinner' /\ Unlocked' /\ HeldByWinner'
<1>1. p \notin Counted /\ Counted' = Counted \cup {p}
  BY DEF LockIncr, Goes, Counted, Holds, Inv, TypeOK, Unlocked, InLock
<1>2. key' = key + 1 /\ got' = [got EXCEPT ![p] = key']
  BY DEF LockIncr, Answer, Incr
<1>3. Accounted
  BY <1>1, <1>2 DEF Accounted, Joins
<1>4. ~disturbed /\ got'[p] < 2 => Counted = {}
  <2> SUFFICES ASSUME ~disturbed, got'[p] < 2 PROVE Counted = {}
    OBVIOUS
  <2>1. key < 1
    BY <1>2 DEF Inv, TypeOK
  <2>2. key >= Cardinality(Counted)
    BY Zenon DEF Inv, CounterIsExact
  <2>3. Cardinality(Counted) = 0
    BY <2>1, <2>2, CountedFinite DEF Inv, TypeOK
  <2> QED BY <2>3, CountedFinite, FS_EmptySet
<1>5. OneWinner'
  <2> SUFFICES ASSUME ~disturbed', NEW q \in Winners', NEW r \in Winners' PROVE q = r
    BY Zenon DEF OneWinner
  <2>1. ~disturbed
    BY Zenon DEF LockIncr, Answer, Incr
  <2>2. \A x \in Procs : x # p => got'[x] = got[x]
    BY <1>2 DEF Inv, TypeOK
  <2>3. Winners' \subseteq Winners \cup {p}
    BY <1>1, <2>2 DEF Winners, Counted
  <2>4. CASE got'[p] < 2
    BY <1>1, <1>4, <2>1, <2>4 DEF Winners
  <2>5. CASE ~(got'[p] < 2)
    <3>1. q \in Winners /\ r \in Winners
      BY <2>3, <2>5 DEF Winners
    <3> QED BY Zenon, <2>1, <3>1 DEF Inv, OneWinner
  <2> QED BY <2>4, <2>5
<1>6. Unlocked' /\ HeldByWinner'
  BY DEF LockIncr, Goes, Holds, HeldByWinner, Inv, TypeOK, Unlocked, InLock
<1> QED BY <1>3, <1>5, <1>6

LEMMA InvCorrect == Spec => []Inv
<1>1. Init => CounterIsExact /\ OneWinner /\ Unlocked /\ HeldByWinner
  <2> SUFFICES ASSUME Init PROVE CounterIsExact /\ OneWinner /\ Unlocked /\ HeldByWinner
    OBVIOUS
  <2>1. \A p \in Procs : pc[p] = "idle" /\ locked[p] = FALSE
    BY Zenon DEF Init
  <2>2. Counted = {}
    BY <2>1 DEF Counted, Holds
  <2>3. key = Cardinality(Counted) /\ key >= Cardinality(Counted)
    BY <2>2, FS_EmptySet DEF Init
  <2>4. CounterIsExact
    BY Zenon, <2>3 DEF CounterIsExact
  <2> QED BY <2>1, <2>2, <2>4 DEF OneWinner, Winners, Unlocked, HeldByWinner, Holds
<1>2. Inv /\ TypeOK' /\ [Next]_vars => CounterIsExact' /\ OneWinner' /\ Unlocked' /\ HeldByWinner'
  <2> SUFFICES ASSUME Inv, TypeOK', [Next]_vars
               PROVE  CounterIsExact' /\ OneWinner' /\ Unlocked' /\ HeldByWinner'
    OBVIOUS
  <2>1. CASE Next
    <3>1. Grows
      BY <2>1, HistoryGrows
    <3>2. Accounted /\ OneWinner' /\ Unlocked' /\ HeldByWinner'
      <4>1. CASE Effect
        BY Zenon, <3>1, <4>1, NoNewWinner DEF Effect, Grows, Inv
      <4> QED BY Zenon, <2>1, <4>1, NextEffect, IncrKeeps
    <3>3. key \in Int /\ key' \in Int
      BY DEF Inv, TypeOK
    <3>4. CounterIsExact'
      BY Zenon, <3>1, <3>2, <3>3, Exact DEF Grows, Inv
    <3> QED BY <3>2, <3>4
  <2>2. CASE UNCHANGED vars
    BY Zenon, <2>2 DEF vars, redis, caller, hist, Inv, CounterIsExact, OneWinner, Winners, Counted,
       Holds, Unlocked, HeldByWinner
  <2> QED BY <2>1, <2>2
<1>3. Spec => []TypeOK
  BY TypeCorrect
<1> QED BY <1>1, <1>2, <1>3, PTL DEF Spec, Inv

\* For any number of callers and tries, whatever commands fail: the counter
\* is what its callers put in, and free when they are idle
\* (redismutex.go:101, :126).
THEOREM CounterCorrect == Spec => []CounterIsExact
  BY InvCorrect, PTL DEF Inv

\* Likewise two callers never have the lock at once (redismutex.go:99).
THEOREM ExclusionCorrect == Spec => []MutualExclusion
<1>1. Inv => MutualExclusion
  <2> SUFFICES ASSUME Inv, ~disturbed, NEW p \in Procs, NEW q \in Procs, Holds(p), Holds(q)
               PROVE  p = q
    BY Zenon DEF MutualExclusion
  <2>1. p \in Winners /\ q \in Winners
    BY Zenon DEF Winners, Counted, Inv, HeldByWinner
  <2> QED BY Zenon, <2>1 DEF Inv, OneWinner
<1> QED BY <1>1, InvCorrect, PTL

-----------------------------------------------------------------------------
(***************************************************************************)
(* The time to live.  DECR makes a key that is missing, without a time to  *)
(* live; but whoever takes back an increment that was counted finds one.   *)
(***************************************************************************)
NoKeyNoCount == ~present => key = 0
Expiring     == \E p \in Procs : pc[p] = "expire"

LEMMA KeyPresent == ASSUME NoKeyNoCount, Inv, ~disturbed, NEW p \in Counted PROVE present
<1>1. key >= Cardinality(Counted)
  BY Zenon DEF Inv, CounterIsExact
<1>2. Cardinality(Counted) # 0
  BY CountedFinite, FS_EmptySet
<1>3. key # 0
  BY <1>1, <1>2, CountedFinite DEF Inv, TypeOK
<1> QED BY Zenon, <1>3 DEF NoKeyNoCount

LEMMA NoKeyStep == ASSUME TypeOK, NoKeyNoCount, [Next]_vars PROVE NoKeyNoCount'
<1>1. \/ UNCHANGED <<key, present>> \/ present' \/ key' = 0
  BY Zenon DEF Next, Step, Lock, LockIncr, LockIncrFails, Wait, Acquire, LockDecr, LockDecrFails,
     TimeOut, Leave, UnLock, UnLockFails, Reset, KeyExpires, Answer, NoAnswer, Incr, Decr, Del,
     Expire, Release, redis, vars
<1> QED BY Zenon, <1>1 DEF NoKeyNoCount

\* A step that leaves ttl alone and keeps or finds the key keeps the promise.
LEMMA Keeps ==
    ASSUME CounterExpires, ~failed', ~disturbed', Grows, present' => present, ttl' = ttl,
           Expiring => Expiring'
    PROVE  CounterExpires'
<1>1. ~failed /\ ~disturbed
  BY Zenon DEF Grows
<1>2. present' /\ ~ttl' => Expiring
  BY Zenon, <1>1 DEF CounterExpires, Expiring
<1> QED BY Zenon, <1>2 DEF CounterExpires, Expiring

LEMMA ExpiresStep ==
    ASSUME Inv, NoKeyNoCount, CounterExpires, Next, ~failed', ~disturbed'
    PROVE  CounterExpires'
<1>1. Grows
  BY HistoryGrows
<1>2. ~failed /\ ~disturbed
  BY Zenon, <1>1 DEF Grows
<1>3. ASSUME NEW p \in Procs, Lock(p) \/ Leave(p) PROVE CounterExpires'
  <2>1. present' = present /\ ttl' = ttl
    BY <1>3 DEF Lock, Leave, redis
  <2>2. Expiring => Expiring'
    BY <1>3 DEF Lock, Leave, Goes, Expiring, Inv, TypeOK
  <2> QED BY Zenon, <1>1, <2>1, <2>2, Keeps
<1>4. ASSUME NEW p \in Procs, LockIncr(p) PROVE CounterExpires'
  <2>1. pc'[p] = "expire"
    BY <1>4 DEF LockIncr, Goes, Inv, TypeOK
  <2> QED BY Zenon, <2>1 DEF CounterExpires
<1>5. ASSUME NEW p \in Procs, LockIncrFails(p) \/ LockDecrFails(p) \/ UnLockFails(p)
      PROVE  CounterExpires'
  BY Zenon, <1>5 DEF LockIncrFails, LockDecrFails, UnLockFails, NoAnswer
<1>6. ASSUME NEW p \in Procs, Wait(p) \/ Acquire(p) PROVE CounterExpires'
  <2>1. Expire
    BY Zenon, <1>6 DEF Wait, Acquire, NoAnswer, Answer
  <2>2. ~(present' /\ ~ttl')
    BY Zenon, <2>1 DEF Expire
  <2> QED BY Zenon, <2>2 DEF CounterExpires
<1>7. ASSUME NEW p \in Procs, LockDecr(p) PROVE CounterExpires'
  <2>1. p \in Counted
    BY <1>7 DEF LockDecr, Goes, Counted
  <2>2. present
    BY Zenon, <1>2, <2>1, KeyPresent
  <2>3. ttl' = ttl
    BY Zenon, <1>7 DEF LockDecr, Answer, Decr
  <2>4. Expiring => Expiring'
    BY <1>7 DEF LockDecr, Goes, Expiring, Inv, TypeOK
  <2> QED BY Zenon, <1>1, <2>2, <2>3, <2>4, Keeps
<1>8. ASSUME NEW p \in Procs, UnLock(p) PROVE CounterExpires'
  <2>1. locked[p] /\ ttl' = ttl
    BY Zenon, <1>8 DEF UnLock, Answer, Release
  <2>2. p \in Counted
    BY <1>8, <2>1 DEF UnLock, Goes, Counted, Holds
  <2>3. present
    BY Zenon, <1>2, <2>2, KeyPresent
  <2>4. Expiring => Expiring'
    BY <1>8 DEF UnLock, Goes, Expiring, Inv, TypeOK
  <2> QED BY Zenon, <1>1, <2>1, <2>3, <2>4, Keeps
<1>9. ASSUME NEW p \in Procs, TimeOut(p) \/ Reset(p) PROVE CounterExpires'
  <2>1. Del
    BY Zenon, <1>9 DEF TimeOut, Reset, NoAnswer, Answer
  <2> QED BY Zenon, <2>1 DEF Del, CounterExpires
<1>10. CASE KeyExpires
  BY Zenon, <1>10 DEF KeyExpires, Del, CounterExpires
<1> QED BY Zenon, <1>3, <1>4, <1>5, <1>6, <1>7, <1>8, <1>9, <1>10 DEF Next, Step

\* Short of a failed command and of a theft, a counter that is left behind
\* expires, wherever its callers stop, except between the INCR and the
\* EXPIRE of one of them (redismutex.go:71, :81).
THEOREM ExpiresCorrect == Spec => []CounterExpires
<1>1. Init => NoKeyNoCount /\ CounterExpires
  BY Zenon DEF Init, NoKeyNoCount, CounterExpires
<1>2. Inv /\ NoKeyNoCount /\ CounterExpires /\ [Next]_vars => NoKeyNoCount' /\ CounterExpires'
  <2> SUFFICES ASSUME Inv, NoKeyNoCount, CounterExpires, [Next]_vars
               PROVE  NoKeyNoCount' /\ CounterExpires'
    OBVIOUS
  <2>1. NoKeyNoCount'
    BY NoKeyStep DEF Inv
  <2>2. CASE Next
    <3>1. failed' \/ disturbed' => CounterExpires'
      BY Zenon DEF CounterExpires
    <3> QED BY Zenon, <2>1, <2>2, <3>1, ExpiresStep
  <2>3. CASE UNCHANGED vars
    BY <2>1, <2>3 DEF vars, redis, caller, hist, CounterExpires
  <2> QED BY <2>2, <2>3
<1> QED BY <1>1, <1>2, InvCorrect, PTL DEF Spec
=============================================================================
