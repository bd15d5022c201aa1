---------------------------- MODULE PriceHistory ----------------------------
(***************************************************************************)
(* get_price_history of schwab/schwab_py_client.py as the resolver calls   *)
(* it: daily candles in chunks of New York calendar days, a list of other  *)
(* queries when all chunks are empty, one call for minute candles.         *)
(*                                                                         *)
(* Instants are integers, DayLength to a day, 0 a UTC midnight.  A candle  *)
(* is its "datetime", here the session day, or None if it has none.        *)
(***************************************************************************)
EXTENDS Integers, Sequences

CONSTANTS
    DayLength,  \* instants in a day
    EtLag,      \* New York's midnight comes that much after UTC's
    Lead,       \* the 14 days by which the resolver starts earlier
    ChunkDays,  \* _DAILY_HISTORY_CHUNK_DAYS
    Strategies, \* how many other queries there are (4)
    Window,     \* the resolver's windows, [s, e]
    Stamp,      \* the days candles may carry
    None,       \* a candle without a datetime
    Body        \* the lists of candles Schwab may answer

ASSUME HistoryAssumption ==
    /\ DayLength \in Nat \ {0} /\ EtLag \in 0..DayLength /\ Lead \in Nat
    /\ ChunkDays \in Nat \ {0} /\ Strategies \in Nat
    /\ Window \subseteq [s : Int, e : Int]
    /\ Stamp \subseteq Int /\ None \notin Stamp
    /\ Body \subseteq Seq(Stamp \cup {None})

VARIABLES
    pc,         \* "idle", "chunk", "fallback", "done", "failed"
    win,        \* the resolver's window
    first, end, \* start_date_et and end_date_et
    at,         \* chunk_start
    seen,       \* seen_ms
    candles,    \* what will be answered
    tries,      \* the other queries made
    asked,      \* history: the chunks asked for, as <<first day, last day>>
    received    \* history: the stamps in all answers

vars == <<pc, win, first, end, at, seen, candles, tries, asked, received>>

\* The New York date of an instant.
EtDate(t) == (t - EtLag) \div DayLength

\* Plausible slips, for mutation runs.
ChunkEndLong == IF at + ChunkDays < end THEN at + ChunkDays ELSE end
SeenForgotten(body) == body
GoOnAfterAnswer(body) == IF tries + 1 = Strategies THEN "done" ELSE "fallback"

\* min(chunk_start + 364 days, end_date_et)
ChunkEnd == IF at + ChunkDays - 1 < end THEN at + ChunkDays - 1 ELSE end

\* chunk_end + one day
NextChunk(to) == to + 1

StampsOf(body) == {body[i] : i \in 1..Len(body)} \ {None}

\* What the loop over an answer has kept after its n-th candle.
Kept(body) ==
    LET kept[n \in 0..Len(body)] ==
            IF n = 0 THEN <<>>
            ELSE IF body[n] \in seen \cup StampsOf(kept[n - 1])
                 THEN kept[n - 1] ELSE Append(kept[n - 1], body[n])
    IN  kept

\* The candles of an answer that were not there before.
Unseen(body) == Kept(body)[Len(body)]

\* Where the loop over the other queries goes after an answer.
AfterFallback(body) == IF body # <<>> \/ tries + 1 = Strategies THEN "done" ELSE "fallback"

-----------------------------------------------------------------------------
Init ==
    /\ pc = "idle"
    /\ win \in Window
    /\ first = 0 /\ end = 0 /\ at = 0
    /\ seen = {} /\ candles = <<>> /\ tries = 0
    /\ asked = <<>> /\ received = {}

\* timeframe "1d": the bounds become New York dates.
Begin ==
    LET from == EtDate(win.s - Lead)
        to   == EtDate(win.e)
    IN
    /\ pc = "idle"
    /\ pc' = "chunk"
    /\ end' = to
    /\ first' = IF from > to THEN to ELSE from
    /\ at' = first'
    /\ UNCHANGED <<win, seen, candles, tries, asked, received>>

\* A chunk is answered; an answer that is no list of candles has none.
Chunk(body) ==
    LET to == ChunkEnd IN
    /\ pc = "chunk" /\ at <= end
    /\ asked' = Append(asked, <<at, to>>)
    /\ candles' = candles \o Unseen(body)
    /\ seen' = seen \cup StampsOf(body)
    /\ received' = received \cup StampsOf(body)
    /\ at' = NextChunk(to)
    /\ UNCHANGED <<pc, win, first, end, tries>>

\* The loop is over: other queries only if there is nothing yet.
ChunksDone ==
    /\ pc = "chunk" /\ at > end
    /\ pc' = IF candles = <<>> /\ Strategies > 0 THEN "fallback" ELSE "done"
    /\ UNCHANGED <<win, first, end, at, seen, candles, tries, asked, received>>

\* One of the other queries is answered.
Fallback(body) ==
    /\ pc = "fallback"
    /\ tries' = tries + 1
    /\ candles' = body
    /\ received' = received \cup StampsOf(body)
    /\ pc' = AfterFallback(body)
    /\ UNCHANGED <<win, first, end, at, seen, asked>>

\* timeframe "1m": one call for the whole range.
Minute(body) ==
    /\ pc = "idle"
    /\ pc' = "done"
    /\ candles' = body
    /\ received' = StampsOf(body)
    /\ UNCHANGED <<win, first, end, at, seen, tries, asked>>

\* A call raises or answers 400 and above: what came before is given up.
Fail ==
    /\ pc = "idle" \/ (pc = "chunk" /\ at <= end) \/ pc = "fallback"
    /\ pc' = "failed"
    /\ candles' = <<>>
    /\ UNCHANGED <<win, first, end, at, seen, tries, asked, received>>

Answer(body) == Chunk(body) \/ Fallback(body)

Next == Begin \/ ChunksDone \/ Fail \/ \E body \in Body : Answer(body) \/ Minute(body)

Spec == Init /\ [][Next]_vars

-----------------------------------------------------------------------------
TypeOK ==
    /\ pc \in {"idle", "chunk", "fallback", "done", "failed"}
    /\ win \in Window
    /\ first \in Int /\ end \in Int /\ at \in Int
    /\ seen \in SUBSET Stamp
    /\ candles \in Seq(Stamp \cup {None})
    /\ tries \in 0..Strategies
    /\ asked \in Seq(Int \X Int)
    /\ received \in SUBSET Stamp

(* The chunks follow one another from the first day on, none longer than     *)
(* Schwab is asked for at once; when the loop is over they end at the last   *)
(* day: no day of the range is asked for twice or left out.                 *)
ChunksTile ==
    /\ \A i \in 1..Len(asked) :
          /\ asked[i][1] <= asked[i][2]
          /\ asked[i][2] - asked[i][1] < ChunkDays
          /\ asked[i][2] <= end
          /\ asked[i][1] = IF i = 1 THEN first ELSE asked[i - 1][2] + 1
    /\ (pc \in {"fallback", "done"} /\ asked # <<>>) => asked[Len(asked)][2] = end

(* The answer has every candle of every chunk once, although chunks overlap  *)
(* in what Schwab answers.                                                  *)
EachCandleOnce ==
    (pc \in {"chunk", "done"} /\ asked # <<>> /\ tries = 0) =>
        /\ StampsOf(candles) = received
        /\ \A i, j \in 1..Len(candles) : candles[i] = candles[j] => i = j \/ candles[i] = None

(* The other queries are made only when no chunk had a candle, and stop at   *)
(* the first that has one, which is the answer; the answer is empty only if *)
(* nothing came.                                                            *)
FallbackOnlyWhenEmpty ==
    /\ (pc = "fallback" \/ tries > 0) => seen = {}
    /\ pc = "fallback" => candles = <<>> /\ received = {}
    /\ pc = "done" => StampsOf(candles) = received
=============================================================================
