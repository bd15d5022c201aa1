----------------------------- MODULE RateLimiter ----------------------------
(***************************************************************************)
(* _AsyncRateLimiter of schwab/schwab_py_client.py: every call to Schwab   *)
(* first awaits acquire(), which sleeps until min_interval has passed      *)
(* since the last grant, and holds an asyncio.Lock while it sleeps.        *)
(*                                                                         *)
(* Time is counted in ticks and kept relative to _last, so that the model  *)
(* is finite although the clock is not.                                    *)
(***************************************************************************)
EXTENDS Integers, Sequences

CONSTANTS
    Caller,     \* coroutines; one asks again and again
    Intervals   \* the min_interval a process may be configured with

ASSUME LimiterAssumption == Intervals \subseteq Nat

VARIABLES
    interval,   \* self._min
    waiters,    \* who waits for self._lock, first come first served
    holder,     \* {} or the one in the critical section, asleep
    since,      \* time.monotonic() - self._last, up to interval
    left,       \* of the holder's sleep
    gap         \* history: ticks since the last grant, up to interval

limiterVars == <<interval, waiters, holder, since, left, gap>>

Inside(c) == c \in holder \/ c \in {waiters[i] : i \in 1..Len(waiters)}

\* The queue without its i-th waiter.
Without(i) == SubSeq(waiters, 1, i - 1) \o SubSeq(waiters, i + 1, Len(waiters))

\* A clock reading is only told apart up to the interval.
Later(t) == IF t < interval THEN t + 1 ELSE t

\* Plausible slips, for mutation runs.
NotStamped == since
LockLeaks(c) == {"nobody"}

\* The lock is free and c is first in line.
MayEnter(c) == holder = {} /\ waiters # <<>> /\ Head(waiters) = c

\* What is left to wait: self._last + self._min - now.
Wait == interval - since

\* self._last = time.monotonic(), read after the sleep.
Restamp == 0

\* async with releases the lock also when the sleeper is cancelled.
AfterCancel(c) == {}

-----------------------------------------------------------------------------
LimiterInit ==
    /\ interval \in Intervals
    /\ waiters = <<>> /\ holder = {}
    /\ since = interval /\ left = 0
    /\ gap = interval

\* Without an interval acquire() returns at once.
Unlimited(c) ==
    /\ interval = 0
    /\ ~Inside(c)
    /\ gap' = 0
    /\ UNCHANGED <<interval, waiters, holder, since, left>>

\* acquire() reaches the lock.
Acquire(c) ==
    /\ interval > 0
    /\ ~Inside(c)
    /\ waiters' = Append(waiters, c)
    /\ UNCHANGED <<interval, holder, since, left, gap>>

\* c has the lock and need not wait: granted.
Pass(c) ==
    /\ MayEnter(c)
    /\ Wait <= 0
    /\ waiters' = Tail(waiters)
    /\ since' = Restamp /\ gap' = 0
    /\ UNCHANGED <<interval, holder, left>>

\* c has the lock and sleeps.
Sleep(c) ==
    /\ MayEnter(c)
    /\ Wait > 0
    /\ waiters' = Tail(waiters)
    /\ holder' = {c} /\ left' = Wait
    /\ UNCHANGED <<interval, since, gap>>

\* The sleep is over: granted.
WakeUp(c) ==
    /\ c \in holder /\ left = 0
    /\ holder' = {}
    /\ since' = Restamp /\ gap' = 0
    /\ UNCHANGED <<interval, waiters, left>>

\* A caller is cancelled while it waits for the lock ...
CancelWaiter(c) ==
    /\ \E i \in 1..Len(waiters) : waiters[i] = c /\ waiters' = Without(i)
    /\ UNCHANGED <<interval, holder, since, left, gap>>

\* ... or while it sleeps: async with frees the lock, _last stays.
CancelSleeper(c) ==
    /\ c \in holder
    /\ holder' = AfterCancel(c) /\ left' = 0
    /\ UNCHANGED <<interval, waiters, since, gap>>

\* Time passes; a sleeper may be late.
Tick ==
    /\ since' = Later(since) /\ gap' = Later(gap)
    /\ left' = IF left > 0 THEN left - 1 ELSE 0
    /\ UNCHANGED <<interval, waiters, holder>>

Serve(c) == Pass(c) \/ Sleep(c) \/ WakeUp(c)

LimiterNext == \/ Tick
        \/ \E c \in Caller : \/ Unlimited(c) \/ Acquire(c) \/ Serve(c)
                             \/ CancelWaiter(c) \/ CancelSleeper(c)

LimiterSpec == LimiterInit /\ [][LimiterNext]_limiterVars

-----------------------------------------------------------------------------
LimiterTypeOK ==
    /\ interval \in Intervals
    /\ waiters \in Seq(Caller)
    /\ holder \in SUBSET Caller
    /\ since \in 0..interval
    /\ left \in 0..interval
    /\ gap \in 0..interval

Granted(c) == Unlimited(c) \/ Pass(c) \/ WakeUp(c)

(* Two grants are never closer than the configured interval, whoever was    *)
(* cancelled between them, in the queue or asleep.                         *)
Spaced == [][\A c \in Caller : Granted(c) => gap >= interval]_limiterVars

(* The lock has one holder at a time, who sleeps exactly until the interval *)
(* has passed: a cancelled sleeper neither frees a slot early nor costs one. *)
SleepsToTheSlot ==
    holder # {} => /\ \A c, d \in holder : c = d
                   /\ left = interval - since
                   /\ since = gap

(* Every acquire() is granted unless its caller is cancelled: the queue     *)
(* moves although sleepers and waiters are cancelled.                       *)
EveryCallerServed ==
    \A c \in Caller : Inside(c) ~> ~Inside(c)
=============================================================================
