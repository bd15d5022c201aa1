------------------------------ MODULE LiveBars ------------------------------
(***************************************************************************)
(* The live bar cache of market_gateway for one symbol and timeframe, and  *)
(* the requests that read through it.                                      *)
(*                                                                         *)
(*   LiveCache     (app/services/live_cache.py)    per-day Redis blobs     *)
(*   DataResolver._live_bars_for_window            one coroutine a request *)
(*                 (app/services/data_resolver.py)                         *)
(*                                                                         *)
(* Every await of the code is a point where another request, a TTL or      *)
(* another writer of the blobs may run, so each Redis command and the      *)
(* Schwab call is an action of its own.  A bar is its UTC timestamp.  The  *)
(* key history_live_cov is written and never read, and is left out.        *)
(***************************************************************************)
EXTENDS Integers, FiniteSets

CONSTANTS
    Req,         \* request coroutines; one is reused once it has answered
    Writers,     \* callers of LiveCache.set_live_bar
    MaxTime,     \* bound: instants are 0..MaxTime
    MaxNow,      \* bound: the clock stops here
    BarTimes,    \* the instants at which a bar can be stamped
    DayOf,       \* the UTC day of an instant
    Windows,     \* the explicit [start, end] windows clients ask for; nothing
                 \* makes a client put the start first
    Lookback,    \* length of the window of a request without start and end
    LegacyMarks, \* windows that may carry a marker "1" of an older build
    Envs         \* settings and series a run may be about

Times  == 0..MaxTime
Days   == DayOf[0]..DayOf[MaxTime]
Window == [s : Times, e : Times]

ASSUME TimesAssumption ==
    /\ MaxTime \in Nat
    /\ MaxNow \in Times
    /\ BarTimes \subseteq Times
    /\ Lookback \in Nat

\* A later instant is never on an earlier day.
ASSUME DayAssumption ==
    /\ DayOf \in [Times -> Nat]
    /\ \A t, u \in Times : t <= u => DayOf[t] <= DayOf[u]

ASSUME WindowAssumption ==
    /\ Windows \subseteq Window
    /\ LegacyMarks \subseteq Window

\* The live client is only made when enable_schwab_live_data is set.
ASSUME EnvAssumption ==
    /\ Envs \subseteq [live   : BOOLEAN,                \* enable_schwab_live_data
                       option : BOOLEAN,                \* is_option_contract_symbol
                       tf     : {"1m", "1d", "5m"},
                       label  : {"live_schwab", "sample"}]  \* live or stub client
    /\ \A e \in Envs : e.label = "live_schwab" => e.live

VARIABLES
    env,      \* the settings of this run
    now,      \* the last value utc_now() returned
    blob,     \* history_live:<symbol>:<tf>:<day>; {} when the key is absent
    marked,   \* windows whose backfill-miss key holds "live_schwab"
    legacy,   \* windows whose backfill-miss key holds anything else
    pc, win,  \* where each request is, and its [win_s, win_e]
    day,      \* loop variable of the request's per-day loops
    live,     \* local live:  the bars of the first read
    out,      \* local out:   the bars of the read after the merge
    todo,     \* local by_day: fetched bars not merged yet
    snap,     \* raw_tx: what the GET inside the transaction returned
    dirty,    \* the WATCHed key was written or expired since WATCH
    answer,   \* what the request returned
    upc, ubar, ubase,     \* set_live_bar: step, bar, and the blob it read
    kept, held, spanned   \* history of a request (see Observe)

cache   == <<blob, marked, legacy>>
locals  == <<win, day, live, out, todo, snap>>
writer  == <<upc, ubar, ubase>>
vars    == <<env, now, cache, pc, locals, dirty, answer, writer,
             kept, held, spanned>>

-----------------------------------------------------------------------------
(* Helpers                                                                 *)

OnDay(d)    == {t \in Times : DayOf[t] = d}
InWindow(w) == {t \in Times : w.s <= t /\ t <= w.e}
Slice(w, d) == OnDay(d) \cap InWindow(w)

DefaultWindow(n) == [s |-> IF n >= Lookback THEN n - Lookback ELSE 0, e |-> n]

\* The window does not end before it starts.
Forward(w) == w.s <= w.e

\* live_bars_window_covered, body of the loop: the bars of the day reach
\* need_lo and need_hi, and one of them is inside; for daily bars being
\* inside is enough, which implies the overlap the code also asks for.  A
\* day with need_lo > need_hi is passed over.
DayCovered(tf, b, w, d) ==
    \/ Slice(w, d) = {}
    \/ /\ b[d] \cap Slice(w, d) # {}
       /\ \/ tf = "1d"
          \/ \E lo, hi \in b[d] : \A t \in Slice(w, d) : lo <= t /\ t <= hi

\* No day is left uncovered: also true of a window that ends before it starts.
Covered(tf, b, w) ==
    \A d \in DayOf[w.s]..DayOf[w.e] : DayCovered(tf, b, w, d)

\* _live_bars_for_window does not ask Schwab for this series.
NoBackfillSeries == env.option \/ env.tf \notin {"1m", "1d"}

\* Where schwab_candles_to_bars stamps bars: daily ones at UTC midnight.
CandleTimes == IF env.tf = "1d"
               THEN {t \in BarTimes : \A u \in OnDay(DayOf[t]) : t <= u}
               ELSE BarTimes

\* Plausible slips in the helpers below, for mutation runs.
CoveredTodayStrict(r) == DayCovered(env.tf, blob, win[r], day[r])
                         /\ \E t \in blob[day[r]] : t < win[r].s
CoveredTodayAnyBar(r) == blob[day[r]] \cap Slice(win[r], day[r]) # {}
LastDayIsFirst(r)     == day[r] = DayOf[win[r].s]
NextDayForgotten(r)   == day[r]
MissActiveIfPartial(r) == win[r] \in marked /\ live[r] # {}
ConflictIgnored(r)    == FALSE
MergedWithoutDayFilter(r) == snap[r] \cup todo[r]
FinalAnswerOfMergeOnly(r) == out[r]

\* live_bars_window_covered on the day the request's loop is at.
CoveredToday(r) == DayCovered(env.tf, blob, win[r], day[r])

\* The loops over the days of a window: the next day, up to and with the last.
\* A loop without a day is one step that finds nothing: no instant is inside.
LastDay(r) == day[r] >= DayOf[win[r].e]
NextDay(r) == day[r] + 1

\* live_backfill_miss_active finds the marker it wrote.
MissActive(r) == win[r] \in marked

\* EXEC aborts when the WATCHed key changed.
Conflict(r) == dirty[r]

\* _merged_live_bars_day_payload: the stored bars and the fetched ones of
\* that day.
MergedDay(r) == snap[r] \cup (todo[r] \cap OnDay(day[r]))

\* out or live; live when nothing was merged.
FinalAnswer(r) == IF out[r] # {} THEN out[r] ELSE live[r]

\* What one request sees of the store from its start on: the bars of its
\* window that stayed cached, whether its miss marker stayed active, and
\* whether its window stayed covered.
Observe(b, m) ==
    /\ kept'    = [q \in Req |-> {t \in kept[q] : t \in b[DayOf[t]]}]
    /\ held'    = [q \in Req |-> held[q] /\ win[q] \in m]
    /\ spanned' = [q \in Req |-> spanned[q] /\ Covered(env.tf, b, win[q])]

\* The connection of the request holds a WATCH on the key of its day.
Watching(r) == pc[r] \in {"get", "exec"}

\* A Redis write or expiry of one day's key; it invalidates its WATCHers.
Store(d, B) ==
    /\ blob'  = [blob EXCEPT ![d] = B]
    /\ dirty' = [q \in Req |-> dirty[q] \/ (Watching(q) /\ day[q] = d)]
    /\ Observe(blob', marked)
    /\ UNCHANGED <<marked, legacy>>

\* A write, delete or expiry of a miss key.
Mark(m, l) ==
    /\ marked' = m
    /\ legacy' = l
    /\ Observe(blob, m)
    /\ UNCHANGED <<blob, dirty>>

ReadsOnly == UNCHANGED <<cache, dirty, kept, held, spanned>>

Goto(r, label) == /\ pc' = [pc EXCEPT ![r] = label]
                  /\ UNCHANGED answer
Reply(r, B)    == /\ pc' = [pc EXCEPT ![r] = "done"]
                  /\ answer' = [answer EXCEPT ![r] = B]

-----------------------------------------------------------------------------
Init ==
    /\ env \in Envs
    /\ now = 0
    /\ blob = [d \in Days |-> {}]
    /\ marked = {}
    /\ legacy \in SUBSET LegacyMarks
    /\ pc     = [r \in Req |-> "idle"]
    /\ win    = [r \in Req |-> [s |-> 0, e |-> 0]]
    /\ day    = [r \in Req |-> DayOf[0]]
    /\ live   = [r \in Req |-> {}]
    /\ out    = [r \in Req |-> {}]
    /\ todo   = [r \in Req |-> {}]
    /\ snap   = [r \in Req |-> {}]
    /\ dirty  = [r \in Req |-> FALSE]
    /\ answer = [r \in Req |-> {}]
    /\ upc    = [u \in Writers |-> "idle"]
    /\ ubar   = [u \in Writers |-> 0]
    /\ ubase  = [u \in Writers |-> {}]
    /\ kept   = [r \in Req |-> {}]
    /\ held   = [r \in Req |-> FALSE]
    /\ spanned = [r \in Req |-> FALSE]

(* A request enters _live_bars_for_window(sym, timeframe, w.s, w.e).       *)
Begin(r, w) ==
    /\ pc[r] = "idle"
    /\ Goto(r, "read")
    /\ win'  = [win  EXCEPT ![r] = w]
    /\ day'  = [day  EXCEPT ![r] = DayOf[w.s]]
    /\ live' = [live EXCEPT ![r] = {}]
    /\ out'  = [out  EXCEPT ![r] = {}]
    /\ kept' = [kept EXCEPT ![r] = {t \in InWindow(w) : t \in blob[DayOf[t]]}]
    /\ held' = [held EXCEPT ![r] = w \in marked]
    /\ spanned' = [spanned EXCEPT ![r] = Covered(env.tf, blob, w)]
    /\ UNCHANGED <<env, cache, todo, snap, dirty, writer>>

Start(r) == \E w \in Windows : Begin(r, w) /\ UNCHANGED now

\* Neither start nor end: the window ends at utc_now(), never twice the same.
StartNow(r) ==
    /\ now < MaxNow
    /\ now' = now + 1
    /\ Begin(r, DefaultWindow(now + 1))

\* A live read found nothing to answer with: the early returns before the
\* second marker check.
NoLiveBars(r) ==
    \/ /\ ~env.live \/ NoBackfillSeries
       /\ Reply(r, {})
    \/ /\ env.live /\ ~NoBackfillSeries
       /\ Goto(r, "miss2")

\* get_live_bars: one GET a day, filtered to the window.
ReadDay(r) ==
    LET got == live[r] \cup (blob[day[r]] \cap InWindow(win[r]))
        last == LastDay(r) IN
    /\ pc[r] = "read"
    /\ live' = [live EXCEPT ![r] = got]
    /\ day'  = [day EXCEPT ![r] = IF last THEN DayOf[win[r].s] ELSE NextDay(r)]
    /\ \/ ~last /\ Goto(r, "read")
       \/ last /\ got # {} /\ Goto(r, "cover")
       \/ last /\ got = {} /\ NoLiveBars(r)
    /\ ReadsOnly
    /\ UNCHANGED <<env, now, win, out, todo, snap, writer>>

\* live_bars_window_covered, with live bars in hand.
CoverDay(r) ==
    LET ok == CoveredToday(r)
        last == LastDay(r) IN
    /\ pc[r] = "cover"
    /\ day' = [day EXCEPT ![r] = IF ok /\ ~last THEN NextDay(r) ELSE @]
    /\ \/ ok /\ ~last /\ Goto(r, "cover")
       \/ ~ok /\ env.live /\ Goto(r, "miss1")
       \/ ((ok /\ last) \/ (~ok /\ ~env.live)) /\ Reply(r, live[r])
    /\ ReadsOnly
    /\ UNCHANGED <<env, now, win, live, out, todo, snap, writer>>

\* The path a request takes when its window has no active marker.
Unmarked(r, from) ==
    \/ from = "miss2" /\ Goto(r, "fetch")
    \/ from = "miss1" /\ NoBackfillSeries /\ Reply(r, {})
    \/ from = "miss1" /\ ~NoBackfillSeries /\ Goto(r, "miss2")

\* live_backfill_miss_active, called twice: the GET.
CheckMiss(r) ==
    /\ pc[r] \in {"miss1", "miss2"}
    /\ \/ MissActive(r) /\ Reply(r, live[r])
       \/ /\ ~MissActive(r) /\ win[r] \in legacy
          /\ Goto(r, IF pc[r] = "miss1" THEN "drop1" ELSE "drop2")
       \/ /\ ~MissActive(r) /\ win[r] \notin legacy
          /\ Unmarked(r, pc[r])
    /\ ReadsOnly
    /\ UNCHANGED <<env, now, locals, writer>>

\* ... and the DELETE of a value it does not recognise.
DropLegacy(r) ==
    /\ pc[r] \in {"drop1", "drop2"}
    /\ Unmarked(r, IF pc[r] = "drop1" THEN "miss1" ELSE "miss2")
    /\ Mark(marked \ {win[r]}, legacy \ {win[r]})
    /\ UNCHANGED <<env, now, locals, writer>>

\* get_price_history raises, or has no candle inside the window.
FetchNothing(r) ==
    /\ pc[r] = "fetch"
    /\ Goto(r, "recover")
    /\ day' = [day EXCEPT ![r] = DayOf[win[r].s]]
    /\ ReadsOnly
    /\ UNCHANGED <<env, now, win, live, out, todo, snap, writer>>

\* It returns candles B: those on a day with a candle inside the window are
\* to be merged, also the ones before the window.  The stub has no candles.
FetchBars(r) ==
    /\ pc[r] = "fetch"
    /\ env.label = "live_schwab"
    /\ Goto(r, "watch")
    /\ \E B \in SUBSET CandleTimes :
          LET touched == {DayOf[t] : t \in B \cap InWindow(win[r])} IN
          /\ todo' = [todo EXCEPT ![r] = {t \in B : DayOf[t] \in touched}]
          /\ \E d \in touched : day' = [day EXCEPT ![r] = d]
    /\ ReadsOnly
    /\ UNCHANGED <<env, now, win, live, out, snap, writer>>

\* merge_live_bars_day of one fetched day: WATCH, GET, MULTI/SET/EXEC.
TxWatch(r) ==
    /\ pc[r] = "watch"
    /\ Goto(r, "get")
    /\ dirty' = [dirty EXCEPT ![r] = FALSE]
    /\ UNCHANGED <<env, now, cache, locals, writer, kept, held, spanned>>

TxGet(r) ==
    /\ pc[r] = "get"
    /\ Goto(r, "exec")
    /\ snap' = [snap EXCEPT ![r] = blob[day[r]]]
    /\ ReadsOnly
    /\ UNCHANGED <<env, now, win, day, live, out, todo, writer>>

\* WatchError: redis-py runs the transaction again from WATCH.
TxRetry(r) ==
    /\ pc[r] = "exec"
    /\ Conflict(r)
    /\ Goto(r, "watch")
    /\ ReadsOnly
    /\ UNCHANGED <<env, now, locals, writer>>

TxExec(r) ==
    LET rest == todo[r] \ OnDay(day[r]) IN
    /\ pc[r] = "exec"
    /\ ~Conflict(r)
    /\ Store(day[r], MergedDay(r))
    /\ todo' = [todo EXCEPT ![r] = rest]
    /\ snap' = [snap EXCEPT ![r] = {}]
    /\ \/ /\ Goto(r, "watch")
          /\ \E t \in rest : day' = [day EXCEPT ![r] = DayOf[t]]
       \/ /\ rest = {}
          /\ Goto(r, "reread")
          /\ day' = [day EXCEPT ![r] = DayOf[win[r].s]]
    /\ UNCHANGED <<env, now, win, live, out, writer>>

\* get_live_bars after the merge.
RereadDay(r) ==
    LET last == LastDay(r) IN
    /\ pc[r] = "reread"
    /\ out' = [out EXCEPT ![r] = @ \cup (blob[day[r]] \cap InWindow(win[r]))]
    /\ day' = [day EXCEPT ![r] = IF last THEN DayOf[win[r].s] ELSE NextDay(r)]
    /\ Goto(r, IF last THEN "recover" ELSE "reread")
    /\ ReadsOnly
    /\ UNCHANGED <<env, now, win, live, todo, snap, writer>>

\* _sync_backfill_miss_after_attempt: is the window covered now?
RecoverDay(r) ==
    LET ok == CoveredToday(r)
        last == LastDay(r) IN
    /\ pc[r] = "recover"
    /\ day' = [day EXCEPT ![r] = IF ok /\ ~last THEN NextDay(r) ELSE @]
    /\ \/ ok /\ ~last /\ Goto(r, "recover")
       \/ ok /\ last /\ Goto(r, "clear")
       \/ ~ok /\ env.label = "live_schwab" /\ Goto(r, "mark")
       \/ ~ok /\ env.label # "live_schwab" /\ Goto(r, "clear")
    /\ ReadsOnly
    /\ UNCHANGED <<env, now, win, live, out, todo, snap, writer>>

\* ... set_live_backfill_miss or clear_live_backfill_miss, and return.
SyncMiss(r) ==
    /\ pc[r] \in {"mark", "clear"}
    /\ Mark(IF pc[r] = "mark" THEN marked \cup {win[r]} ELSE marked \ {win[r]},
            legacy \ {win[r]})
    /\ Reply(r, FinalAnswer(r))
    /\ UNCHANGED <<env, now, locals, writer>>

\* A Redis command raises, or schwab_candles_to_bars, which is called outside
\* the try, on a candle it cannot read: the request ends in an HTTP 500, without
\* its partials and without a marker.
Fail(r) ==
    /\ pc[r] \notin {"idle", "done", "failed"}
    /\ Goto(r, "failed")
    /\ ReadsOnly
    /\ UNCHANGED <<env, now, locals, writer>>

\* The HTTP response is sent; the coroutine may serve another request.
Return(r) ==
    /\ pc[r] \in {"done", "failed"}
    /\ pc' = [pc EXCEPT ![r] = "idle"]
    /\ answer' = [answer EXCEPT ![r] = {}]
    /\ win'  = [win  EXCEPT ![r] = [s |-> 0, e |-> 0]]
    /\ day'  = [day  EXCEPT ![r] = DayOf[0]]
    /\ live' = [live EXCEPT ![r] = {}]
    /\ out'  = [out  EXCEPT ![r] = {}]
    /\ todo' = [todo EXCEPT ![r] = {}]
    /\ snap' = [snap EXCEPT ![r] = {}]
    /\ dirty' = [dirty EXCEPT ![r] = FALSE]
    /\ kept' = [kept EXCEPT ![r] = {}]
    /\ held' = [held EXCEPT ![r] = FALSE]
    /\ spanned' = [spanned EXCEPT ![r] = FALSE]
    /\ UNCHANGED <<env, now, cache, writer>>

-----------------------------------------------------------------------------
(* Other writers of the same keys, and the TTLs                            *)

\* set_live_bar: GET, then an unconditional SET.
UpsertGet(u) ==
    /\ upc[u] = "idle"
    /\ \E t \in BarTimes :
          /\ ubar'  = [ubar  EXCEPT ![u] = t]
          /\ ubase' = [ubase EXCEPT ![u] = blob[DayOf[t]]]
    /\ upc' = [upc EXCEPT ![u] = "set"]
    /\ ReadsOnly
    /\ UNCHANGED <<env, now, pc, locals, answer>>

UpsertSet(u) ==
    /\ upc[u] = "set"
    /\ Store(DayOf[ubar[u]], ubase[u] \cup {ubar[u]})
    /\ upc'   = [upc   EXCEPT ![u] = "idle"]
    /\ ubar'  = [ubar  EXCEPT ![u] = 0]
    /\ ubase' = [ubase EXCEPT ![u] = {}]
    /\ UNCHANGED <<env, now, pc, locals, answer>>

\* set_live_bars_day: the day's blob is replaced.
SetLiveBarsDay(u) ==
    /\ upc[u] = "idle"
    /\ \E d \in Days : \E B \in SUBSET (BarTimes \cap OnDay(d)) : Store(d, B)
    /\ UNCHANGED <<env, now, pc, locals, answer, writer>>

ExpireDay(d) ==
    /\ blob[d] # {}
    /\ Store(d, {})
    /\ UNCHANGED <<env, now, pc, locals, answer, writer>>

ExpireMiss(w) ==
    /\ w \in marked \cup legacy
    /\ Mark(marked \ {w}, legacy \ {w})
    /\ UNCHANGED <<env, now, pc, locals, answer, writer>>

-----------------------------------------------------------------------------
\* The steps of a request that follow from its own code and its own awaits.
Proceed(r) ==
    \/ ReadDay(r) \/ CoverDay(r) \/ CheckMiss(r) \/ DropLegacy(r)
    \/ FetchNothing(r) \/ FetchBars(r)
    \/ TxWatch(r) \/ TxGet(r) \/ TxRetry(r) \/ TxExec(r)
    \/ RereadDay(r) \/ RecoverDay(r) \/ SyncMiss(r)

Arrive(r) == Start(r) \/ StartNow(r)

Request(r) == Arrive(r) \/ Proceed(r) \/ Fail(r) \/ Return(r)

Next ==
    \/ \E r \in Req : Request(r)
    \/ \E u \in Writers : UpsertGet(u) \/ UpsertSet(u) \/ SetLiveBarsDay(u)
    \/ \E d \in Days : ExpireDay(d)
    \/ \E w \in marked \cup legacy : ExpireMiss(w)

Spec == Init /\ [][Next]_vars

\* asyncio runs every ready coroutine, Redis answers and get_price_history
\* returns or raises; nothing makes a TTL, a writer or a client act.
FairSpec == Spec /\ \A r \in Req : WF_vars(Proceed(r))

-----------------------------------------------------------------------------
Backfilling == {"fetch", "watch", "get", "exec", "reread", "recover",
                "mark", "clear"}
Labels == Backfilling \cup {"idle", "read", "cover", "miss1", "drop1",
                            "miss2", "drop2", "done", "failed"}

(* Types; a day's blob only holds bars of that day, and a request's lists  *)
(* only bars of its window.                                                *)
TypeOK ==
    /\ env \in Envs
    /\ now \in Times
    /\ blob \in [Days -> SUBSET BarTimes]
    /\ \A d \in Days : blob[d] \subseteq OnDay(d)
    /\ marked \subseteq Window /\ legacy \subseteq Window
    /\ pc \in [Req -> Labels]
    /\ win \in [Req -> Window]
    /\ day \in [Req -> Days]
    /\ live \in [Req -> SUBSET BarTimes]
    /\ out \in [Req -> SUBSET BarTimes]
    /\ \A r \in Req : live[r] \cup out[r] \subseteq InWindow(win[r])
    /\ todo \in [Req -> SUBSET BarTimes]
    /\ snap \in [Req -> SUBSET BarTimes]
    /\ dirty \in [Req -> BOOLEAN]
    /\ answer \in [Req -> SUBSET BarTimes]
    /\ upc \in [Writers -> {"idle", "set"}]
    /\ ubar \in [Writers -> Times]
    /\ ubase \in [Writers -> SUBSET BarTimes]
    /\ \A u \in Writers : upc[u] = "set" =>
          ubar[u] \in BarTimes /\ ubase[u] \subseteq OnDay(DayOf[ubar[u]])
    /\ kept \in [Req -> SUBSET BarTimes]
    /\ held \in [Req -> BOOLEAN]
    /\ spanned \in [Req -> BOOLEAN]

(* Bars of the window that were cached when an equity request came in and  *)
(* stayed cached while it ran are in its answer, whatever Schwab returned, *)
(* raised or left out and whoever else was merging (_live_bars_for_window: *)
(* an empty API response must not discard Redis partials).                 *)
PartialsRetained ==
    \A r \in Req :
        (pc[r] = "done" /\ (~env.live \/ ~NoBackfillSeries))
            => kept[r] \subseteq answer[r]

(* A request whose window stayed covered by the cached bars from its start *)
(* on never goes to Schwab (live_bars_window_covered); but one whose window *)
(* ends before it starts does, although that function calls it covered.    *)
CoveredNeedsNoBackfill ==
    \A r \in Req : (spanned[r] /\ Forward(win[r])) => pc[r] \notin Backfilling

(* A request whose miss marker was set before it came in and stayed set    *)
(* never goes to Schwab (live_backfill_miss_active).                       *)
MissSuppressesBackfill ==
    \A r \in Req : held[r] => pc[r] \notin Backfilling

(* No step of a request ever takes a bar out of the cache: concurrent      *)
(* backfills of one day cannot drop each other's bars (merge_live_bars_day *)
(* with WATCH/MULTI/EXEC), even next to writers that do not use WATCH.     *)
BackfillKeepsBars ==
    [][\A r \in Req : pc'[r] # pc[r] =>
          \A d \in Days : blob[d] \subseteq blob'[d]]_vars

(* While the back-off of a failed backfill of the default window lasts, a   *)
(* new request for the default window does not go to Schwab (the comment   *)
(* on backfill_miss_ttl: "do not hit Schwab on every request").  It does.  *)
DefaultWindowBacksOff ==
    [][\A r \in Req : (pc[r] # "fetch" /\ pc'[r] = "fetch") =>
          ~\E n, m \in Times : /\ win[r] = DefaultWindow(n)
                              /\ DefaultWindow(m) \in marked]_vars

(* Once requests and other writes stop coming, every request in flight is  *)
(* answered: no retry loop of the optimistic transactions runs for ever.   *)
RequestsAnswered ==
    (<>[][~\E r \in Req : Arrive(r)]_vars
        /\ <>[][~\E u \in Writers : UpsertSet(u) \/ SetLiveBarsDay(u)]_vars)
    => \A r \in Req : pc[r] # "idle" ~> pc[r] \in {"done", "failed"}

-----------------------------------------------------------------------------
(* What makes the safety properties inductive                              *)

\* A loop over the days of a window stays on the days of the window.
LoopDays ==
    \A r \in Req : pc[r] \in {"read", "cover", "reread", "recover"} =>
        /\ DayOf[win[r].s] <= day[r]
        /\ Forward(win[r]) => day[r] <= DayOf[win[r].e]

\* An EXEC that will succeed writes over the blob it has read.
FreshSnapshot ==
    \A r \in Req : (pc[r] = "exec" /\ ~dirty[r]) => snap[r] = blob[day[r]]

\* What the history variables say of the store.
KeptIsCached ==
    \A r \in Req : /\ kept[r] \subseteq InWindow(win[r])
                   /\ \A t \in kept[r] : t \in blob[DayOf[t]]
HeldIsMarked     == \A r \in Req : held[r] => win[r] \in marked
SpannedIsCovered == \A r \in Req : spanned[r] => Covered(env.tf, blob, win[r])

\* The kept bars of the days already read are in the request's lists.
ReadSoFar ==
    \A r \in Req :
        /\ pc[r] \in {"miss1", "drop1"} => env.live
        /\ pc[r] \in {"read", "cover", "miss1", "drop1", "miss2", "drop2", "fetch",
                     "watch", "get", "exec"} => out[r] = {}
        /\ pc[r] = "read" => \A t \in kept[r] : DayOf[t] < day[r] => t \in live[r]
        /\ pc[r] \in Backfilling \cup {"cover", "miss1", "drop1", "miss2", "drop2"}
              => kept[r] \subseteq live[r]
        /\ pc[r] = "reread" => \A t \in kept[r] : DayOf[t] < day[r] => t \in out[r]
        /\ pc[r] \in {"recover", "mark", "clear"} =>
              out[r] = {} \/ kept[r] \subseteq out[r]

\* A covered window is answered by the first loop of coverage checks.
SpannedAnswersEarly ==
    \A r \in Req : (spanned[r] /\ Forward(win[r])) =>
        pc[r] \in {"idle", "read", "cover", "done", "failed"}

IInv == /\ TypeOK
        /\ LoopDays
        /\ FreshSnapshot
        /\ KeptIsCached
        /\ HeldIsMarked
        /\ SpannedIsCovered
        /\ ReadSoFar
        /\ MissSuppressesBackfill
        /\ SpannedAnswersEarly
        /\ PartialsRetained

=============================================================================
