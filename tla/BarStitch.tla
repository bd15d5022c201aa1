----------------------------- MODULE BarStitch -----------------------------
(***************************************************************************)
(* One GET /history request: canonical rows, live bars and sample bars are *)
(* put together while the nightly load may be adding rows.                 *)
(*                                                                         *)
(*   DataResolver.get_bars, merge_bars_by_preference and                   *)
(*   _append_sample_tail_when_live_empty    app/services/data_resolver.py  *)
(*   PostgresHistoricalStore, SampleHistoricalStore and                    *)
(*   _deterministic_sample_bars             app/services/historical_store  *)
(*                                                                         *)
(* Each query is an await.  The live segment is what LiveBars promises of  *)
(* it: some of the bars of the window it was asked for.  A list of bars is *)
(* a function from timestamps to the source of the bar.                    *)
(***************************************************************************)
EXTENDS Integers

CONSTANTS
    MaxTime,     \* bound: instants are 0..MaxTime
    DayLength, HourLength,
    RowTimes,    \* instants of canonical rows
    LiveTimes,   \* instants of live bars
    Windows,     \* the [start, end] of requests
    Envs         \* settings and series a run may be about

Times == 0..MaxTime

ASSUME TimesAssumption ==
    /\ MaxTime \in Nat
    /\ DayLength \in Nat \ {0} /\ HourLength \in Nat \ {0}
    /\ RowTimes \subseteq Times /\ LiveTimes \subseteq Times

ASSUME WindowAssumption == Windows \subseteq [s : Times, e : Times]

\* The live client is only made when enable_schwab_live_data is set.
ASSUME EnvAssumption ==
    /\ Envs \subseteq [postgres : BOOLEAN,           \* a database is configured
                       live     : BOOLEAN,           \* enable_schwab_live_data
                       label    : {"live_schwab", "sample"},  \* live or stub client
                       option   : BOOLEAN,           \* is_option_contract_symbol
                       tf       : {"1m", "1d", "5m"}]
    /\ \A e \in Envs : e.label = "live_schwab" => e.live

Modes == {"historical_only", "live_only", "canonical_plus_live", "best_available"}
None == -1

VARIABLES
    env,     \* the settings of this run
    rows,    \* timestamps of the series in the canonical table
    pc, mode, win,
    lf,      \* last finalized timestamp, or None
    hist,    \* local hist
    live,    \* local live
    answer,  \* the bars returned
    before,  \* history: rows when the request came in
    asked    \* history: the instants the live segment was asked for

vars == <<env, rows, pc, mode, win, lf, hist, live, answer, before, asked>>

-----------------------------------------------------------------------------
Bars(T, source) == [t \in T |-> source]
NoBars == Bars({}, "sample")

Floor(t, length) == t - (t % length)
Between(a, b) == {t \in Times : a <= t /\ t <= b}

\* Daily bars, canonical and live, are stamped at UTC midnight.
Stamped(T) == IF env.tf = "1d" THEN {t \in T : t % DayLength = 0} ELSE T

\* The canonical tables: 1m and 1d for equities, 1m for options.
HasTable == env.tf = "1m" \/ (env.tf = "1d" /\ ~env.option)

\* The table of daily rows is queried by date.
RowsBetween(a, b) ==
    IF env.tf = "1d" THEN rows \cap Between(Floor(a, DayLength), b)
                     ELSE rows \cap Between(a, b)

\* _deterministic_sample_bars: one a day, or one an hour, from the day or
\* hour of the start.
SampleTimes(a, b) ==
    LET step == IF env.tf = "1d" THEN DayLength ELSE HourLength IN
    IF b < a THEN {} ELSE {t \in Between(Floor(a, step), b) : t % step = 0}

\* Plausible slips in the definitions below, for mutation runs.
HistEndExclusive(last) == IF last = None \/ win.e < last THEN win.e ELSE last - 1
LiveStartNextDay(last) == IF last = None \/ last + DayLength <= win.s THEN win.s
                          ELSE last + DayLength
LiveStartOfLast(last) == IF last = None THEN win.s ELSE last
LiveWins(h, l) == [t \in DOMAIN h \cup DOMAIN l |-> IF t \in DOMAIN l THEN l[t] ELSE h[t]]
HistEndOfWindow(last) == win.e

\* hist_end = min(end_u, lf_u)
HistEnd(last) == IF last = None \/ win.e < last THEN win.e ELSE last

\* live_start = max(start_u, lf_u), a day later for daily equity bars.
LiveStart(last) ==
    LET next == IF env.tf = "1d" /\ ~env.option THEN last + DayLength ELSE last IN
    IF last = None \/ next <= win.s THEN win.s ELSE next

\* merge_bars_by_preference
Over(h, l) == [t \in DOMAIN h \cup DOMAIN l |-> IF t \in DOMAIN h THEN h[t] ELSE l[t]]

\* _append_sample_tail_when_live_empty applies (its mode and store checks
\* always pass where it is called: lf is only read there).
TailApplies ==
    /\ lf # None
    /\ live = NoBars
    /\ LiveStart(lf) <= win.e
    /\ ~(env.live /\ env.label = "live_schwab")

\* get_equity_bars, get_option_bars
History(a, b) ==
    IF ~env.postgres THEN Bars(SampleTimes(a, b), "sample")
    ELSE IF HasTable THEN Bars(RowsBetween(a, b), "historical")
    ELSE NoBars

-----------------------------------------------------------------------------
Init ==
    /\ env \in Envs
    /\ rows \in SUBSET (IF env.postgres /\ HasTable THEN Stamped(RowTimes) ELSE {})
    /\ pc = "idle" /\ mode = "historical_only" /\ win = [s |-> 0, e |-> 0]
    /\ lf = None
    /\ hist = NoBars /\ live = NoBars /\ answer = NoBars
    /\ before = {} /\ asked = {}

Ask ==
    /\ pc = "idle"
    /\ mode' \in Modes
    /\ win' \in Windows
    /\ pc' = CASE mode' = "historical_only" -> "hist"
               [] mode' = "live_only"       -> "live"
               [] OTHER                     -> "last"
    /\ before' = rows
    /\ UNCHANGED <<env, rows, lf, hist, live, answer, asked>>

\* After the canonical part: is there a live segment?
AfterHistory(last) ==
    IF mode # "historical_only" /\ LiveStart(last) <= win.e THEN "live" ELSE "merge"

\* get_last_finalized_timestamp; without a last row both stores are read
\* over the whole window.
ReadLast ==
    /\ pc = "last"
    /\ \/ rows = {} /\ lf' = None
       \/ lf' \in rows /\ \A t \in rows : t <= lf'
    /\ pc' = IF lf' = None \/ win.s <= HistEnd(lf') THEN "hist" ELSE AfterHistory(lf')
    /\ UNCHANGED <<env, rows, mode, win, hist, live, answer, before, asked>>

ReadHistory ==
    /\ pc = "hist"
    /\ hist' = History(win.s, HistEnd(lf))
    /\ pc' = IF mode # "historical_only" /\ lf = None THEN "live" ELSE AfterHistory(lf)
    /\ UNCHANGED <<env, rows, mode, win, lf, live, answer, before, asked>>

\* _live_bars_for_window(live_start, end)
ReadLive ==
    /\ pc = "live"
    /\ \E T \in SUBSET (Stamped(LiveTimes) \cap Between(LiveStart(lf), win.e)) :
          live' = Bars(T, "live_schwab")
    /\ asked' = Between(LiveStart(lf), win.e)
    /\ pc' = "merge"
    /\ UNCHANGED <<env, rows, mode, win, lf, hist, answer, before>>

Respond ==
    /\ pc = "merge"
    /\ answer' = IF TailApplies
                 THEN Over(Bars(SampleTimes(LiveStart(lf), win.e), "sample"), Over(hist, live))
                 ELSE Over(hist, live)
    /\ pc' = "done"
    /\ UNCHANGED <<env, rows, mode, win, lf, hist, live, before, asked>>

\* A query or a Redis command raises: HTTP 500.
Fail ==
    /\ pc \in {"last", "hist", "live"}
    /\ pc' = "failed"
    /\ UNCHANGED <<env, rows, mode, win, lf, hist, live, answer, before, asked>>

Return ==
    /\ pc \in {"done", "failed"}
    /\ pc' = "idle"
    /\ mode' = "historical_only" /\ win' = [s |-> 0, e |-> 0]
    /\ lf' = None
    /\ hist' = NoBars /\ live' = NoBars /\ answer' = NoBars
    /\ before' = {} /\ asked' = {}
    /\ UNCHANGED <<env, rows>>

\* The nightly load: rows are added, never taken away.
Load ==
    /\ env.postgres /\ HasTable
    /\ \E T \in SUBSET Stamped(RowTimes) : rows' = rows \cup T
    /\ rows' # rows
    /\ UNCHANGED <<env, pc, mode, win, lf, hist, live, answer, before, asked>>

Next == Ask \/ ReadLast \/ ReadHistory \/ ReadLive \/ Respond \/ Fail \/ Return \/ Load

Spec == Init /\ [][Next]_vars

-----------------------------------------------------------------------------
Sources == {"historical", "live_schwab", "sample"}

(* Types; live bars are bars of the window.                                 *)
TypeOK ==
    /\ env \in Envs
    /\ rows \subseteq Stamped(RowTimes)
    /\ ~(env.postgres /\ HasTable) => rows = {}
    /\ pc \in {"idle", "last", "hist", "live", "merge", "done", "failed"}
    /\ mode \in Modes
    /\ win \in [s : Times, e : Times]
    /\ lf \in Times \cup {None}
    /\ \A f \in {hist, live, answer} :
          DOMAIN f \subseteq Times /\ f \in [DOMAIN f -> Sources]
    /\ DOMAIN live \subseteq Between(win.s, win.e)
    /\ before \subseteq rows
    /\ asked \subseteq Times

Merging == {"canonical_plus_live", "best_available"}

(* Every canonical row of the window that was in the database when the     *)
(* request came in is in the answer, though the load adds rows between the *)
(* query for the last one and the query for the bars (get_bars 402-430).   *)
FinalizedRowsServed ==
    (pc = "done" /\ mode # "live_only") =>
        \A t \in before : win.s <= t /\ t <= win.e => t \in DOMAIN answer

(* No live bar takes the place of a bar the request has read from the      *)
(* historical store, nor is one dropped (merge_bars_by_preference).        *)
CanonicalBeatsLive ==
    pc = "done" => \A t \in DOMAIN hist : t \in DOMAIN answer /\ answer[t] # "live_schwab"

(* There is no hole between the canonical part and the live segment: every *)
(* instant of the window at which a bar can be stamped is up to the last   *)
(* finalized one or was asked of the live cache (get_bars 412-429).        *)
NoHoleAfterCanonical ==
    (pc = "done" /\ mode \in Merging) =>
        \A t \in Stamped(Times) \cap Between(win.s, win.e) : t <= lf \/ t \in asked

(* An answer changes at most one of the bars read from the historical      *)
(* store: the one at the full hour of the last finalized timestamp, where   *)
(* the sample tail begins, and no daily one, though the load may add rows   *)
(* after that timestamp before the bars are read (get_bars 402-430 and      *)
(* _append_sample_tail_when_live_empty).  How far CanonicalWins fails.      *)
TailReplacesOneRow ==
    pc = "done" => \A t \in DOMAIN hist :
        answer[t] = hist[t] \/ (env.tf # "1d" /\ t = Floor(lf, HourLength))

(* On duplicate timestamps the canonical row is the one returned           *)
(* (docs/market_gateway_spec.md, source precedence).  The sample tail      *)
(* starts at the hour of live_start and is merged as the preferred list.   *)
CanonicalWins ==
    (pc = "done" /\ mode \in Merging /\ env.postgres) =>
        \A t \in DOMAIN hist : answer[t] = "historical"

-----------------------------------------------------------------------------
(* What makes the safety properties inductive                              *)

\* A request starts from empty locals.
FreshLocals ==
    pc = "idle" => lf = None /\ hist = NoBars /\ live = NoBars /\ asked = {}

\* lf is the last of the rows there were when the request came in, or later.
LastIsLate ==
    (mode \in Merging /\ pc \in {"hist", "live", "merge"}) =>
        \A t \in before : lf # None /\ t <= lf

\* What each query has left in the locals of the request.
HistoryRead ==
    /\ (pc \in {"live", "merge"} /\ mode # "live_only") =>
          \A t \in before : win.s <= t /\ t <= win.e => t \in DOMAIN hist
    /\ \A t \in DOMAIN hist : hist[t] # "live_schwab"
    /\ env.postgres => \A t \in DOMAIN hist : hist[t] # "sample"
    /\ \A t \in DOMAIN live : live[t] = "live_schwab"
    /\ mode \notin Merging => lf = None
    /\ pc = "last" => mode \in Merging

\* The bars that were read are not after lf, if there is one.
HistoryIsFinal ==
    /\ pc \in {"last", "hist"} => DOMAIN hist = {}
    /\ lf # None => HasTable /\ \A t \in DOMAIN hist : t <= lf

\* The live segment is asked for unless it is empty.
LiveAsked ==
    (pc = "merge" /\ mode \in Merging) =>
        \A t \in Stamped(Times) \cap Between(win.s, win.e) : t <= lf \/ t \in asked

\* Of the rows of a day, lf is stamped at midnight like the others.
LastIsStamped == lf # None => lf \in Stamped(Times)

IInv == /\ TypeOK
        /\ FreshLocals
        /\ LastIsLate
        /\ HistoryRead
        /\ HistoryIsFinal
        /\ LiveAsked
        /\ LastIsStamped
        /\ FinalizedRowsServed
        /\ CanonicalBeatsLive
        /\ NoHoleAfterCanonical
        /\ TailReplacesOneRow
=============================================================================
