----------------------------- MODULE RedisMutex -----------------------------
(***************************************************************************)
(* base/dao/redis/redismutex.go: a lock that is one counter in redis.      *)
(* Lock increments it, has the lock if the result is below 2, and          *)
(* otherwise takes its increment back and tries again; after the last try  *)
(* it deletes the counter and returns an error.  UnLock decrements.  The   *)
(* only caller, removeUserLoc in redis.go, ignores the error of Lock.      *)
(*                                                                         *)
(* A redis command is one atomic action.  Its up to five attempts are one: *)
(* it is executed and answered, it is refused five times, or it is         *)
(* executed and the answer is lost with the connection, after which every  *)
(* command on that connection fails.  A caller that crashes is one that    *)
(* takes no more steps.                                                    *)
(***************************************************************************)
EXTENDS Integers, FiniteSets

CONSTANTS
    Procs,      \* callers of Lock, each with its own redis connection
    MaxTries,   \* tries of one Lock: 150 in the code
    Checked,    \* do callers give up when Lock fails? removeUserLoc does not
    Faulty,     \* may commands fail and keys expire?
    MaxCalls    \* bound on the calls of Lock by one caller

ASSUME MutexAssumption ==
    /\ IsFiniteSet(Procs)
    /\ MaxTries \in Nat \ {0}
    /\ Checked \in BOOLEAN
    /\ Faulty \in BOOLEAN
    /\ MaxCalls \in Nat

VARIABLES
    key,        \* the value of the counter, 0 if there is no key
    present,    \* there is a key
    ttl,        \* it has a time to live
    pc,         \* where each caller is
    got,        \* the result of its last INCR
    tries,      \* the loop variable i of Lock
    locked,     \* the last Lock returned nil
    calls,      \* how often it has called Lock
    con,        \* its redis connection works
    disturbed,  \* history: a counter was deleted that held an increment, or
                \* was decremented by a caller that did not have the lock
    failed      \* history: a command was refused or its answer lost

redis  == <<key, present, ttl>>
caller == <<pc, got, tries, locked, calls, con>>
hist   == <<disturbed, failed>>
vars   == <<redis, caller, hist>>

PCs == {"idle", "incr", "expire", "decr", "clear", "inside", "unlock", "reset"}

TypeOK ==
    /\ key \in Int
    /\ present \in BOOLEAN
    /\ ttl \in BOOLEAN
    /\ pc \in [Procs -> PCs]
    /\ got \in [Procs -> Int]
    /\ tries \in [Procs -> 0 .. MaxTries]
    /\ locked \in [Procs -> BOOLEAN]
    /\ calls \in [Procs -> Nat]
    /\ con \in [Procs -> BOOLEAN]
    /\ disturbed \in BOOLEAN
    /\ failed \in BOOLEAN

Init ==
    /\ key = 0
    /\ present = FALSE
    /\ ttl = FALSE
    /\ pc = [p \in Procs |-> "idle"]
    /\ got = [p \in Procs |-> 0]
    /\ tries = [p \in Procs |-> 0]
    /\ locked = [p \in Procs |-> FALSE]
    /\ calls = [p \in Procs |-> 0]
    /\ con = [p \in Procs |-> TRUE]
    /\ disturbed = FALSE
    /\ failed = FALSE

Holds(p) == pc[p] \in {"inside", "unlock"} /\ locked[p]

\* The callers whose increment is in the counter.
Counted == {p \in Procs : pc[p] \in {"expire", "decr"} \/ Holds(p)}

-----------------------------------------------------------------------------
(***************************************************************************)
(* Redis commands.                                                         *)
(***************************************************************************)
Goes(p, from, to) == pc[p] = from /\ pc' = [pc EXCEPT ![p] = to]

\* INCR and DECR make a key that is missing and keep its time to live; DEL
\* and expiry take away the increments that are in the counter.
Incr == key' = key + 1 /\ present' = TRUE /\ UNCHANGED <<ttl, disturbed>>
Decr == key' = key - 1 /\ present' = TRUE /\ UNCHANGED <<ttl, disturbed>>
Del  == key' = 0 /\ present' = FALSE /\ ttl' = FALSE
        /\ disturbed' = (disturbed \/ Counted # {})

\* Faulty variant: the time to live is never set.
ExpireNever == UNCHANGED <<redis, disturbed>>

Expire == ttl' = present /\ UNCHANGED <<key, present, disturbed>>

\* The DECR of UnLock: without the lock it takes what another has put in.
Release(p) ==
    /\ key' = key - 1 /\ present' = TRUE /\ UNCHANGED ttl
    /\ disturbed' = (disturbed \/ ~locked[p])

Answer(p, Command) == con[p] /\ Command /\ UNCHANGED <<con, failed>>

\* The command had no effect, or it had one that the caller does not know of.
NoAnswer(p, Command) ==
    /\ Faulty
    /\ failed' = TRUE
    /\ \/ UNCHANGED <<redis, disturbed, con>>
       \/ con[p] /\ Command /\ con' = [con EXCEPT ![p] = FALSE]

-----------------------------------------------------------------------------
(***************************************************************************)
(* Lock.                                                                   *)
(***************************************************************************)
Lock(p) ==
    /\ Goes(p, "idle", "incr")
    /\ calls[p] < MaxCalls
    /\ calls' = [calls EXCEPT ![p] = @ + 1]
    /\ got' = [got EXCEPT ![p] = 0]
    /\ tries' = [tries EXCEPT ![p] = 0]
    /\ locked' = [locked EXCEPT ![p] = FALSE]
    /\ UNCHANGED <<redis, con, disturbed, failed>>

LockIncr(p) ==
    /\ Goes(p, "incr", "expire")
    /\ Answer(p, Incr)
    /\ got' = [got EXCEPT ![p] = key']
    /\ UNCHANGED <<tries, locked, calls>>

\* What a caller does after Lock has failed.
AfterFailure == IF Checked THEN "idle" ELSE "inside"

LockIncrFails(p) ==
    /\ Goes(p, "incr", AfterFailure)
    /\ NoAnswer(p, Incr)
    /\ UNCHANGED <<got, tries, locked, calls>>

\* Faulty variant: the result of INCR is tested with > 2.
CompetitionLoose(p) == got[p] > 2

Competition(p) == got[p] >= 2

\* EXPIRE, whose error is ignored, and the test of the result of INCR.
Wait(p) ==
    /\ Competition(p)
    /\ Goes(p, "expire", "decr")
    /\ Answer(p, Expire) \/ NoAnswer(p, Expire)
    /\ UNCHANGED <<got, tries, locked, calls>>

Acquire(p) ==
    /\ ~Competition(p)
    /\ Goes(p, "expire", "inside")
    /\ Answer(p, Expire) \/ NoAnswer(p, Expire)
    /\ locked' = [locked EXCEPT ![p] = TRUE]
    /\ UNCHANGED <<got, tries, calls>>

\* Faulty variant: the loop variable is not advanced.
LockDecrForEver(p) ==
    /\ Goes(p, "decr", IF tries[p] + 1 = MaxTries THEN "clear" ELSE "incr")
    /\ Answer(p, Decr)
    /\ UNCHANGED <<got, tries, locked, calls>>

\* Faulty variant: the waiter keeps its increment.
LockDecrForgotten(p) ==
    /\ Goes(p, "decr", IF tries[p] + 1 = MaxTries THEN "clear" ELSE "incr")
    /\ Answer(p, UNCHANGED <<redis, disturbed>>)
    /\ tries' = [tries EXCEPT ![p] = @ + 1]
    /\ UNCHANGED <<got, locked, calls>>

LockDecr(p) ==
    /\ Goes(p, "decr", IF tries[p] + 1 = MaxTries THEN "clear" ELSE "incr")
    /\ Answer(p, Decr)
    /\ tries' = [tries EXCEPT ![p] = @ + 1]
    /\ UNCHANGED <<got, locked, calls>>

LockDecrFails(p) ==
    /\ Goes(p, "decr", AfterFailure)
    /\ NoAnswer(p, Decr)
    /\ UNCHANGED <<got, tries, locked, calls>>

\* The last try failed: the counter is deleted and Lock returns an error.
TimeOut(p) ==
    /\ Goes(p, "clear", AfterFailure)
    /\ Answer(p, Del) \/ NoAnswer(p, Del)
    /\ UNCHANGED <<got, tries, locked, calls>>

-----------------------------------------------------------------------------
(***************************************************************************)
(* removeUserLoc between Lock and UnLock, and UnLock.                      *)
(***************************************************************************)
Leave(p) ==
    /\ Goes(p, "inside", "unlock")
    /\ UNCHANGED <<redis, got, tries, locked, calls, con, hist>>

UnLock(p) ==
    /\ Goes(p, "unlock", IF key < 1 THEN "reset" ELSE "idle")
    /\ Answer(p, Release(p))
    /\ UNCHANGED <<got, tries, locked, calls>>

UnLockFails(p) ==
    /\ Goes(p, "unlock", "idle")
    /\ NoAnswer(p, Release(p))
    /\ UNCHANGED <<got, tries, locked, calls>>

\* UnLock brought the counter below 0.
Reset(p) ==
    /\ Goes(p, "reset", "idle")
    /\ Answer(p, Del) \/ NoAnswer(p, Del)
    /\ UNCHANGED <<got, tries, locked, calls>>

\* Nobody used the key for half an hour.
KeyExpires ==
    /\ Faulty /\ ttl
    /\ Del
    /\ UNCHANGED <<caller, failed>>

Step(p) ==
    \/ LockIncr(p) \/ LockIncrFails(p) \/ Wait(p) \/ Acquire(p)
    \/ LockDecr(p) \/ LockDecrFails(p) \/ TimeOut(p)
    \/ Leave(p) \/ UnLock(p) \/ UnLockFails(p) \/ Reset(p)

Next == (\E p \in Procs : Lock(p) \/ Step(p)) \/ KeyExpires

\* A caller that called Lock goes on until it has called UnLock; commands
\* are answered or fail, and the critical section ends.
Spec     == Init /\ [][Next]_vars
FairSpec == Spec /\ \A p \in Procs : WF_vars(Step(p))

-----------------------------------------------------------------------------
(***************************************************************************)
(* Properties                                                              *)
(***************************************************************************)

\* While no counter was deleted under an increment and nobody unlocked what
\* it had not locked, two callers never have the lock at once, whatever
\* commands fail and callers crash (redismutex.go:99).
MutualExclusion ==
    ~disturbed => \A p, q \in Procs : Holds(p) /\ Holds(q) => p = q

\* Under the same condition the counter holds at least the increments of
\* those who wait or have the lock, and nothing else as long as no command
\* failed: when everybody is idle the lock is free (redismutex.go:101, :126).
CounterIsExact ==
    ~disturbed => /\ key >= Cardinality(Counted)
                  /\ ~failed => key = Cardinality(Counted)

\* A counter without a time to live has a caller between its INCR and its
\* EXPIRE, or something failed: a crash leaves a lock that nobody can take
\* for ever only there (redismutex.go:81).
CounterExpires ==
    present /\ ~ttl => failed \/ disturbed \/ \E p \in Procs : pc[p] = "expire"

\* Lock returns, with the lock or with an error (redismutex.go:93).
LockReturns == \A p \in Procs : (pc[p] = "incr") ~> (pc[p] \in {"inside", "idle"})
=============================================================================
