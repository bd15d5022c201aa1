# TLA+ models of market_gateway

market_gateway is a FastAPI process (asyncio, one thread) between trading clients
and Schwab. It caches in Redis, reads canonical history from Postgres, calls
Schwab over REST and keeps one Schwab WebSocket open for streaming quotes. This
directory holds TLA+ models of the parts where interleavings, failures and
boundaries decide whether clients get right answers, TLC configurations that
check them on small instances, and TLAPS proofs for all instances.

Run from this directory:

    tlc -workers 2 -config LiveBarsRace.cfg MCLiveBars.tla
    tlapm LiveBarsProofs.tla

## 1. The system

Paths are relative to `src/market_gateway/`.

| Component | State | Operations | Correct when |
| --- | --- | --- | --- |
| Live bar cache `app/services/live_cache.py` | Redis: a JSON blob of bars per symbol, timeframe and UTC day; a "backfill missed" marker per exact window; TTLs | read and coverage checks, merge with WATCH/MULTI/EXEC, unconditional upserts, marker set/clear | no backfill drops another's bars; a blob holds bars of its day |
| Live backfill `app/services/data_resolver.py` `_live_bars_for_window` | locals of one coroutine per request | read, check coverage and marker, fetch, merge, re-read, set marker | cached partials are never lost from the answer; covered or marked windows do not reach Schwab; every request is answered |
| Bar stitching, the rest of `get_bars`, with `app/services/historical_store.py` | locals of a request; the canonical tables (loaded nightly by another program) | last finalized timestamp, canonical query, live segment, sample tail, merge | finalized rows are served, no gap at the seam, canonical wins |
| Quote stream runner `schwab/stream_equity_runner.py` | the session, the intent `current`, `read_task`, `ctrl_task`, publish queue and worker | login, SUBS/UNSUBS, multiplexed read, resubscribe, reconnect, cancel | the session matches the intent; one reader per socket; it recovers; the newest lists win |
| Stream symbols `app/api/events.py`, `app/core/stream_symbols.py` | `replace_queue` (8) | PUT /events/stream/symbols | accepted lists arrive in order |
| Event bus and SSE `app/core/event_bus.py`, `app/api/events.py` | a Redis stream; a cursor per SSE client | publish, recent, stream_from | after its first event a client misses and repeats nothing |
| Publish queue (runner, `stream_equity_normalize.py`, `quote_stream_publisher.py`) | 512 frames, one worker | drop-oldest put, publish rows | newest frames survive in order; events keep Schwab's order; the counter of unfinished tasks stays right |
| Read-through of quotes, option quotes, chains (`data_resolver.py` 230-349) | Redis entries with TTLs | GET, fetch, SET | an answer is for the parameters asked, read at most one TTL and one fetch before its request came in, and goes back in time by one fetch at most |
| Schwab client `schwab/schwab_py_client.py` | the rate limiter's `_last` and lock | acquire; yearly chunks of daily history | calls are min_interval apart and every caller gets its turn; chunks tile the range, every candle comes once |
| Orders `app/api/orders.py` | previews with a TTL | preview, submit (paper) | attempts are logged as events (not modelled) |
| Lifespan `app/main.py` | tasks and connections | startup, shutdown | shutdown ends every task, then closes every connection |
| Option symbols, normalisation, cache keys, models, auth, configuration, stub client and stub stream, status and positions APIs, scripts | none, or constants | mappings | round trips of symbols |

Who talks to whom. HTTP handlers call the resolver; the resolver calls the cache,
the historical store and the Schwab client. Concurrent requests share Redis only,
and every `await` is a point where another one may run. PUT requests reach the
runner through `replace_queue`; the runner's worker publishes to the event bus,
from which SSE clients read. The lifespan creates the tasks and cancels them.

## 2. Plan

| | Module | State |
| --- | --- | --- |
| 1 | LiveBars: cache and backfill, concurrent requests, and BarStore, what an answer is promised to be | checked, proved, refinement proved |
| 2 | StreamRunner: session, subscriptions, resubscription, cancel | checked, proved |
| 3 | BarStitch: `get_bars` at the seam of canonical, live and sample bars | checked, proved |
| 4 | EventFeed, what an SSE client is promised, and EventBus, which implements it | checked, refinement proved |
| 5 | PublishQueue: drop-oldest queue and worker | checked, proved |
| 6 | QuotePipeline: 4 and 5 composed over one Redis stream | checked, proved |
| 7 | RateLimiter and PriceHistory, composed in SchwabClient | checked, proved |
| 8 | ReadThrough: concurrent fetches of quotes and chains | checked, proved |
| 9 | Lifespan: startup and shutdown with dead or stuck tasks | checked, proved |

Left: a version per bar in LiveBars, to speak of stale merges; BarStitch over BarStore
instead of over any live bars; the orders with the events they publish; the option
symbol conversions against a reference definition.

## 3. Modules

### LiveBars

One symbol and timeframe. Instants are `0..MaxTime`, `DayOf` maps them to UTC days,
and a bar is its timestamp: OHLCV values are left out. `blob[d]` is
`history_live:<symbol>:<tf>:<day>`; `marked` and `legacy` are the windows whose
miss key holds the current payload or anything else. A window may end before it starts, as
nothing in the code rejects one: it has no bars, its coverage check says yes without a
look, and Schwab is asked. A request has a program
counter and the locals of `_live_bars_for_window`; each Redis command and the
Schwab call is one action:

    read -> cover -> miss1 (drop1) -> miss2 (drop2) -> fetch
         -> watch -> get -> exec (retry) ... per fetched day
         -> reread -> recover -> mark | clear -> done

Early returns are replies at the label where the code returns. `FetchBars` chooses
any candles, of several days and outside the window too; `FetchNothing` is an
exception, an empty answer or only bars outside the window. WATCH is the flag
`dirty`, set by any write or expiry of the day's key. `Fail` ends a request at any
Redis command, and at the conversion of candles, which stands outside the `try` of the
Schwab call: then its partials are lost and no marker is set. Other writers, `set_live_bar` (two commands, no WATCH) and
`set_live_bars_day`, and the expiry of every key run at any time. The settings
`env` (live data, option, timeframe, kind of client) are chosen once.

`kept`, `held` and `spanned` are history variables: which bars of its window stayed
cached, whether its marker stayed set and whether its window stayed covered since
the request came in. They make "the answer must contain what was there all along"
a state property although TTLs and other writers take things away.

Left out: `history_live_cov`, which is written and never read; values of bars;
malformed JSON in Redis.

### BarStore, BarReads

`BarStore` is the promise behind the requests, without days, coverage, markers,
transactions and Schwab: bars come and go in one step (`Change`); a request asks for the
bars of its window and is answered with all that stayed, and with nothing that was not
there at some time while it ran. A series without backfill (options, timeframes other
than 1m and 1d) has no partial answers: it may answer nothing instead, never a part.
`BarReads` is LiveBars with two more history variables: `seen`, the bars of a request's
window that were cached at some time, and `bare`, the days of its window that were covered
at no time while it ran. The second is for `UncoveredIsBackfilled`: bars are read first and
their coverage is checked by new reads, which see other blobs; a day that never was covered
must still not pass as covered. The first is for the mapping to BarStore: `phaseBar`,
`wantBar`, `storedBar`. Reading a day, checking a marker or a coverage and waiting for Schwab
stutter; a merge, a writer's SET and an expiry are `Change`.

### StreamRunner

The session is `subs` (keys the server sends, per service), `current` is the
runner's intent, `old` the previous one and `todo` the services a subscription or
a change has not reached yet, in the order the code sends them. `read` and `ctrl`
are the two tasks of the multiplex loop; they finish independently, so that the
loop wakes up with one of them done or with both (`WakeAndRaise`, `WakeNoChange`,
`WakeAndChange`, `WakeAfterRead` are the four ways the code goes on). Any call on
the WebSocket may raise (`Fault`). `finally` is `JoinWorker` and `Logout`;
`Shutdown` is `stream_task.cancel()` at whatever the task awaits, with its three
outcomes: it ends the session, it ends the cleanup, or it is swallowed while the
worker is joined. A PUT is answered at once if `replace_queue` has room and is
blocked otherwise; blocked requests and new ones race for room.

Left out: the frames themselves and the publish queue (PublishQueue).

### BarStitch

One request; instants as above with `DayLength` and `HourLength`, and a list of
bars is a function from timestamps to the source of the bar. Each query is a step:
`ReadLast` (last finalized timestamp), `ReadHistory`, `ReadLive`; `Respond` merges
and applies the sample tail, which the code does without an await. `Load` is the
nightly load, external to this repository: it adds canonical rows between any two
steps. The live segment is any set of live bars in the window asked for, what
LiveBars' `TypeOK` promises of an answer. Daily rows, candles and sample bars are
stamped at UTC midnight. Windows that end before they start are included, since
nothing rejects them.

Left out: values of bars, and the renaming of option symbols in the answer.

### EventStream, EventFeed, EventBus

`EventStream` is the variable `log`, the Redis stream, which everything else shares.
`EventBus` is `stream_from` inside the SSE generator, per connection:

    closed -> read -> block -> batch (one Message per entry) -> read ...
                 \-> sleep (after an error) -/

`fresh` says that the cursor is still `$`; then XREAD means whatever the end of the
stream is when the call arrives (`CursorAtServer`), and once a message has been
looked at the cursor is a position (`CursorAfter`, set before the entry is parsed).
`Error` is a call that raises, before or after the server has answered. `start` and
`got` are history.

`EventFeed` is the promise, without cursors, calls or errors: a feed begins
somewhere, may lapse as long as nothing has been passed, and then delivers every
readable entry in turn. `ImplementsFeed` is the refinement under the mapping
`seatBar`, `startBar`, `posBar`.

### PublishQueue

Frames are sequences of rows; a row becomes an event, has no symbol, or raises when
it is converted. `Handle` is `_quote_handler`, which runs without an await; the
worker's frame is `held`, at `row`, and `sent` while XADD is awaited. `Apply` is the
XADD at Redis: it may be carried out twice (redis-py repeats a call whose answer was
lost) or carried out and yet raise (`PublishFails`). `EndSession`, `JoinWorker` and
`NewSession` are the cancel of the worker by a reconnect, with the new queue. An XADD
the cancel interrupts is carried out before the join or not at all; in the code it
could arrive later by the time a socket is closed, while the next session logs in only
after a back-off of seconds.

### QuotePipeline

PublishQueue and EventBus together, each step of one leaving the other's variables
alone. Its properties follow a quote from a frame of Schwab to a client. To the bus, the
queue is one of its publishers (the orders API and the stub are others); the run has no
other one.

### RateLimiter, PriceHistory, SchwabClient

`RateLimiter` is `_AsyncRateLimiter.acquire`: a FIFO lock that is held while its owner
sleeps. Time is kept relative to the last grant, up to the interval, so that the model is
finite. Any waiter or sleeper may be cancelled. `PriceHistory` is one
`get_price_history`: New York dates, chunks, candles without duplicates, other queries
if nothing came. `SchwabClient` puts them together: each call of the request waits for
its grant, next to other callers; a cancel in `acquire` ends the request.

### ReadThrough

`get_quote`, `get_option_quote` and `get_option_chain` over lists, one Redis command or
call of Schwab per action, with no lock around them: `get -> call -> set`. A list is sent
when its last item has been answered, so an item that came from the cache grows old while
the items behind it wait for the limiter and for Schwab: `StalenessBounded` is about the
time the request came in (`began`), not about the time its answer is sent, for which the code
has no bound. An item is its parameters (`rest` is contract type, strike count and
`include_quotes` as one); `Key` is what the cache key keeps of them and `Asked` what Schwab is
asked. A snapshot remembers of what and when it was read. `MaxDelay` bounds the time
from Schwab's reading to the SET: the limits are stated relative to it, since nothing in
the code bounds it. `Lose` is a key evicted or lost in a restart of Redis.

### Lifespan

The startup and shutdown code, statement by statement, in every setting. The stub task
is modelled whole, its cancel apart from its end, which the lifespan awaits; the stream task is seen from outside, as in a session, joining a
failed session's worker (where a cancel is swallowed, as StreamRunner shows), or over.
Every await that may raise does.

## 4. What the runs show

| Run | Instance | Question |
| --- | --- | --- |
| `live_bars_race` | 2 requests, one window over 2 days, bars at 3 instants | safety of concurrent backfills with expiry and failures (1.3 million states) |
| `live_bars_modes` | 1 request, 1 writer, 9 settings, default windows and windows inverted in a day and over days, a marker of an older build | `ImplementsStore`, next to writers that do not use WATCH, on every early return; `UncoveredIsBackfilled`, what may pass as covered when blobs change between read and check; and `CoveredNeedsNoBackfill`, which needs the one-day windows of this run: a two-day window is never covered (no bar is stamped at the end of its first day) |
| `live_bars_answered` | 2 requests, one window over 2 days and one default window, a marker of an older build | `RequestsAnswered` under fairness |
| `live_bars_backoff` | 1 request, default windows | *violated*: finding 2 |
| `stream` | 2 clients, 4 PUTs, 3 payloads, queue of 2, 2 faults, a cancel | subscriptions and order of replacements; `EventuallySettled`, `CancelEnds` under fairness |
| `stream_payload_drop` | the same | *violated*: finding 1 |
| `bar_stitch` | 12 instants, 3 days, 5 windows, every setting | the seam, while rows are added |
| `bar_stitch_sample_tail` | 1m, stub client | *violated*: finding 3 |
| `quote_pipeline` | 4 frames, queue of 2, one client, batches of 2, one failure on each side | order and bookkeeping of the queue, feeds without holes (`NothingMissed`, `ImplementsFeed`), `OnlyLostFramesMissing` end to end, and `QuotesArrive` under fairness |
| `schwab_client` | history request and 2 other callers, intervals 0, 1 and 3, 16 windows of up to 3 chunks, 5 answers | spacing, chunks, candles; `EveryCallerServed`, `HistoryEnds` under fairness |
| `read_through` | 2 callers, 3 requests; a list of one option contract in two spellings, 2 chains that differ in the expiration; TTLs 1 and 2, delay 1 | what an answer may be and when Schwab is asked again |
| `lifespan` | every setting, 2 symbols, 2 ticks | order of shutdown; `ShutdownEnds` under fairness |

Why the bounds are enough. *LiveBars*: a lost update needs two actors and one
key; two days make the loops go round and let a fetch touch a day the other
request is on; a day of three instants has one outside, one inside and one at the
end of the window. `MaxNow` bounds the clock, and with it the number of default
windows; the back-off needs two. *StreamRunner*: every service is set, replaced
and cleared by some pair of payloads; a queue of two with two clients has room, is
full and has a blocked PUT; two faults hit a session and its successor. `MaxPuts`
and `MaxFaults` only count. *BarStitch*: windows with whole days, parts of days,
one instant and inverted; rows on and off the hours, days with and without rows.
*QuotePipeline*: with a queue of two and four frames one frame is in the worker's hand, two
wait and the older of these is thrown away for the last, so that it matters which one goes,
and a client sees frames on both sides of a gap; a frame has a row that is passed over, two
that are published and one that raises; a batch of two cuts frames and a repeated XADD in
pieces; one failure is one failed or repeated XADD or one reconnect. All entries parse and
all frames end at a bad row here; the proofs cover entries that do not and frames that end
after their last row. *SchwabClient*: ranges of one day to three chunks, inverted too, whose ends
fall before and after New York's midnight; one waiter in front of the request and one
behind it. *ReadThrough*: a slow fetch needs two requests and one key, and a third
one reads what they left; two chains are there for answers that are mixed up, two spellings
for keys that do not meet; the clock runs past an expiry, and the first item of a
list may be older than its TTL and the delay when the list is sent. *Lifespan* needs no bounds but the stub's.

Deadlock is checked except where the system stops: the stream task has ended and
the bounded PUTs are used up, or the clock of `live_bars_backoff` has run out, or all
frames came and no client is there, or the requests of `read_through` are used up, or the
process is down.

Fairness. `LiveBars!FairSpec` is weak fairness of each request's own steps: asyncio
runs every ready coroutine, and Redis and Schwab calls return or raise. Nothing
forces clients, writers or TTLs, and `RequestsAnswered` assumes that new requests
and other writes stop; without that a WATCH transaction may be disturbed for ever.
`StreamRunner!FairSpec` is weak fairness of the runner's steps, of `ctrl_task`
(the loop schedules a created task) and of woken PUTs. Frames, faults, PUTs and
the shutdown are never forced. `EventuallySettled` needs that no shutdown is
asked; faults and PUTs stop by their bounds. `PipelineFairSpec` is weak fairness of
the worker (with Redis carrying out its XADD) and of each connection's own steps;
`QuotesArrive` is about frames that wait while a client has a cursor, and lets
failures, drops and departures excuse it. `ClientFairSpec` is weak fairness of time, of
whoever is next at the lock or awake, and of the request's own steps; other callers may
ask for ever, since the lock serves in order. `Lifespan!FairSpec` is weak fairness of
the lifespan, of the stream task's clean-up and of the cancelled stub's end; the shutdown and failures are not forced,
and a cancel that was swallowed is excluded (the application then does not end).

### Findings

1. `schwab/stream_equity_runner.py:222` loses a payload that its PUT has been
   answered for, when the read fails in the same wake-up. The comment at line 215
   says it cannot. The reconnect subscribes the old lists.
2. `app/services/data_resolver.py:81`: the back-off does not hold back requests
   without `end`, each of which has a window of its own.
3. `app/services/data_resolver.py:228`: the sample tail is merged as the preferred
   list and starts at the full hour, so a sample bar replaces canonical 1m rows.

Observations met while modelling, which no run states:

- `app/services/data_resolver.py:103` widens only the start of a daily backfill. Daily
  bars are stamped at UTC midnight (`schwab/normalize.py:262`) while the end of the
  range becomes a New York date (`schwab/schwab_py_client.py:143`), so a window that
  ends between UTC and New York midnight does not ask for the last session in it.
- `schwab/option_symbol.py:67`: an OSI symbol in lower case is not mapped; Schwab is
  asked in upper case, the answer is looked up in lower case, and a quote without
  prices is answered and cached under the symbol as written.
- `app/services/quote_stream_stub.py:53`: an XADD that raises ends the stub task. At
  shutdown `await stub_task` (`app/main.py:155`) raises it again, and the Schwab client,
  Redis and the pool are not closed (the exception that `NothingLeftOpen` makes).
- `schwab/stream_equity_runner.py:300` swallows a shutdown that comes while a failed
  session joins its worker; `await stream_task` then waits on (`lost` of Lifespan).
- `app/services/live_cache.py:172`: the coverage check of a window that ends before it
  starts has no day to look at and says yes, but the list of bars is empty and
  `app/services/data_resolver.py:85` goes on: Schwab is asked on every such request, and
  `_sync_backfill_miss_after_attempt` clears the marker (`CoveredNeedsNoBackfill` excludes
  these windows).
- `app/services/data_resolver.py:142` converts candles outside the `try`: one that cannot be
  converted makes the request an HTTP 500, although it had partials to answer.
- `app/services/live_cache.py:227` may delete a marker that another request has just set,
  where an older build had left one: the next request for the window asks Schwab again.
- `app/main.py:78`: a pool or a TYPE that fails at startup leaves what was made before open.
- `app/core/event_bus.py:82`: until its first event a client reads from `$`, and events
  between two reads, or during the sleep after an error, are not delivered to it.
- `app/api/orders.py:76`: a submit that is turned away publishes no event.

## 5. What is proved

The `...Proofs` modules prove type invariants and safety properties of the passing runs
as theorems of their component's specification, for every value of the constants that
satisfies the named assumptions of the modules (times and bounds are natural numbers, a
later instant is never on an earlier day, windows are any pairs of instants, a chain is asked
for alone, payloads are not empty, live client only with
live data on, queues and batches have room for one, intervals and TTLs are natural
numbers). Each follows one
argument: `Init => IInv`, every action preserves `IInv`, `IInv` implies the
property. TLC checked each `IInv` before it was proved.

*LiveBars.* `PartialsRetained` speaks of the answer only; it is inductive with
`ReadSoFar`: the kept bars of the days already read are in `live` (or in `out`
after the merge), which needs `LoopDays` (the loop is on a day of the window) and
`KeptIsCached` (a kept bar is in its blob). `MissSuppressesBackfill` needs
`HeldIsMarked`; `CoveredNeedsNoBackfill` needs `SpannedIsCovered`, and that a
covered window is answered in the first loop (`SpannedAnswersEarly`); it is claimed of
windows that end after they start only. `UncoveredIsBackfilled` is an action property over
`bare`: the loop of checks does not get past a day that was never covered (`BareAhead`).
`BackfillKeepsBars` is an action property: EXEC writes a superset of the blob
because of `FreshSnapshot`, an EXEC that will succeed has read the current blob.

*BarStore.* `StoreImplemented` first sorts the steps of LiveBars by what they mean to
requests and store (`StepKinds`): a request comes, is answered, fails or leaves, or none
does and only the cache changes. Every such step is one of BarStore: what an answer may
leave out is `PartialsRetained` and `ReadSoFar`, what it may hold is the invariant
`ListsSeen`: `live`, `out` and the answer only have bars that were cached since the
request came in. Nothing of this restricts how many requests and writers there are.

*StreamRunner.* `SessionMatchesIntent` holds where the loop is entered because of
`PartlySubscribed`: of the services gone through, the session has the new keys, of
the others the old ones (or none on a new session). `NewestIsNotOvertaken` is
inductive with lemmas about the last element of the queue.

*BarStitch.* `FinalizedRowsServed` rests on `LastIsLate`: the last finalized
timestamp was read after the request came in and is not before any row of that
time. `NoHoleAfterCanonical` for daily bars rests on arithmetic of midnights: two
multiples of a day less than a day apart are one. `TailReplacesOneRow` rests on arithmetic of
full hours: the tail starts at the one of the last finalized timestamp, rows that were read are
not after that timestamp (`HistoryIsFinal`), so only the one on the full hour can be met.

*PublishQueue.* `PublishedInOrder` needs `LogIsBehind` (nothing that waits has been
published, the frame in hand only up to its row), `HandledIsPublished` needs
`RowsPassed` (the rows the worker is past are in the stream exactly if they are
quotes), and both need `WorkerInPlace` and `QueueIsNewest`: frames leave the queue in
the order of their numbers.

*EventBus.* `NothingMissed` is inductive with `CursorsInLog`: where the cursor, the
server's reading of it and the batch lie. The refinement has one lemma per action:
XREAD with `$` begins the feed, a call that answers nothing before the first message
makes it lapse, a message delivers, everything else stutters.

*QuotePipeline.* A step of the pipeline is a step of the queue or leaves its variables
alone (`PipelineRunsQueue`), and to the bus it publishes one entry that parses, or does
nothing, or is a step of a connection (`PipelineRunsBus`, with the queue's `IInv`: the
worker only sends rows of frames). So everything proved of PublishQueue and of EventBus
holds of the composition, the refinement of EventFeed too (`PipelineCorrect`).
`OnlyLostFramesMissing` then follows in one state from what both sides promise:
`got` is an interval of the stream (`NothingMissed`, all entries parse), the stream is in
the order of the frames (`PublishedInOrder`), so all entries of a frame between two
received ones are in the interval; a handled frame has them all there
(`HandledIsPublished`); and a frame that is still queued or in hand comes after every
entry of the stream, for which `FatesPlaced` says where such a frame is.

*SchwabClient.* Of RateLimiter, `Spaced` needs that the limiter's clock and the true one
agree and `SleepsToTheSlot`: there is one sleeper, and what it has left is what the
interval has left, also after another one was cancelled. Of PriceHistory, `ChunksTile` is
inductive with the place of the next chunk, `EachCandleOnce` and `FallbackOnlyWhenEmpty`
with `Collected` (while chunks come, `seen` is what was received and what is kept). What
the loop over an answer keeps is the recursive function `Kept`; `UnseenIsNew` says what it
returns for every answer. The library's induction theorems take an operator, so
SchwabClientProofs proves its own for sets: a set of naturals has a least element (from
the well-foundedness of inclusion of finite sets), hence `NatSetInduction`, hence that a
function defined by recursion exists (`Recursion`). `ClientRunsHistory` and
`ClientRunsLimiter` carry all of it to the client.

*ReadThrough.* `AnswersMatch` rests on what a key keeps: two items of one key ask
Schwab the same. `StalenessBounded` needs when Schwab read what is cached against its expiry
and of what is about to be set against `MaxDelay`, and that `began` is not later than now; `BackwardsBounded` that every fetch
under way is at most `MaxDelay` behind the newest answer. `MissMeansExpired` is an action
property: what was stored is in the cache until its TTL is over (`AllTimely`) unless
Redis loses it.

*Lifespan.* `NothingLeftOpen` and `NoTaskOutlivesConnections` rest on the order of the
statements: what is open and alive at each of them, and where a raise leads.

### Only model-checked

Liveness (`RequestsAnswered`, `EventuallySettled`, `CancelEnds`, `QuotesArrive`,
`EveryCallerServed`, `HistoryEnds`, `ShutdownEnds`) is out of the prover's reach. Every
other property of a passing run is a theorem. The violated properties are, of course,
not theorems.

## 6. Not modelled

- Orders: preview and submit never reach a broker; each is a few Redis commands in
  sequence, and what another actor can change is the expiry of a preview.
- The conversions of option symbols, character by character: pure functions without
  state. ReadThrough models which spellings meet in one key.
- `recent` of the event bus (one XREVRANGE), the `/status`, `/positions`, `/strategies`
  and `/health` handlers, authentication: a read or a comparison, and no state.
- The fields of quotes, chains and bars, prices, HTTP, JSON and SQL, logging, the stub
  client's numbers, environment variables and process management: nothing that the
  properties tell apart.
