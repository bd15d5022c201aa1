---------------------------- MODULE SchwabClient ----------------------------
(***************************************************************************)
(* SchwabPyMarketClient of schwab/schwab_py_client.py: every call to       *)
(* Schwab awaits the one limiter (RateLimiter) first.  A request for price *)
(* history (PriceHistory) makes many calls, one after the other, while     *)
(* other coroutines ask for quotes and chains.                             *)
(***************************************************************************)
EXTENDS PriceHistory, RateLimiter

CONSTANT History    \* the coroutine that runs get_price_history

ASSUME ClientAssumption == History \in Caller

VARIABLE granted    \* its acquire() has returned and its call is under way

requestVars == <<pc, win, first, end, at, seen, candles, tries, asked, received>>
clientVars  == <<requestVars, interval, waiters, holder, since, left, gap, granted>>

\* The next statement of the request is await self._limiter.acquire().
AtCall ==
    /\ ~granted /\ ~Inside(History)
    /\ pc = "idle" \/ (pc = "chunk" /\ at <= end) \/ pc = "fallback"

-----------------------------------------------------------------------------
ClientInit == Init /\ LimiterInit /\ granted = FALSE

\* get_price_history enters the loop over the chunks, or leaves it.
Enter ==
    /\ ~granted /\ ~Inside(History)
    /\ Begin \/ ChunksDone
    /\ UNCHANGED <<limiterVars, granted>>

Ask ==
    /\ AtCall
    /\ \/ Acquire(History) /\ granted' = FALSE
       \/ Unlimited(History) /\ granted' = TRUE
    /\ UNCHANGED requestVars

Admitted ==
    /\ \/ (Pass(History) \/ WakeUp(History)) /\ granted' = TRUE
       \/ Sleep(History) /\ UNCHANGED granted
    /\ UNCHANGED requestVars

\* Schwab answers the call, or it raises.
Called ==
    /\ granted /\ granted' = FALSE
    /\ Fail \/ \E body \in Body : Answer(body) \/ Minute(body)
    /\ UNCHANGED limiterVars

\* The request is cancelled in acquire().
Cancel ==
    /\ CancelWaiter(History) \/ CancelSleeper(History)
    /\ Fail
    /\ UNCHANGED granted

\* Any other call of the client.
Other(c) ==
    /\ c # History
    /\ Unlimited(c) \/ Acquire(c) \/ Serve(c) \/ CancelWaiter(c) \/ CancelSleeper(c)
    /\ UNCHANGED <<requestVars, granted>>

TimePasses == Tick /\ UNCHANGED <<requestVars, granted>>

ClientNext == \/ Enter \/ Ask \/ Admitted \/ Called \/ Cancel \/ TimePasses
              \/ \E c \in Caller : Other(c)

ClientSpec == ClientInit /\ [][ClientNext]_clientVars

\* Time passes, the loop runs whoever can go on, and a call to Schwab is
\* answered or raises; requests and cancellations come when they like.
ClientFairSpec ==
    /\ ClientSpec
    /\ WF_clientVars(TimePasses)
    /\ WF_clientVars(pc # "idle" /\ (Enter \/ Ask))
    /\ WF_clientVars(Admitted) /\ WF_clientVars(Called)
    /\ \A c \in Caller \ {History} : WF_clientVars(Other(c) /\ Serve(c))

-----------------------------------------------------------------------------
(* A request for daily history comes to an end, with candles or an error,    *)
(* although it needs many grants and the other callers never stop asking:   *)
(* the lock serves in order, and the chunks and other queries are finite.   *)
HistoryEnds == pc = "chunk" ~> pc \in {"done", "failed"}
=============================================================================
