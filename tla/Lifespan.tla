------------------------------ MODULE Lifespan ------------------------------
(***************************************************************************)
(* The lifespan of app/main.py: what it opens, the tasks it starts and how *)
(* it stops them, with ensure_stream_exists of the event bus, the choice   *)
(* of the Schwab client and the quote stream stub.  The stream task is     *)
(* StreamRunner's, seen from here: in a session (login, back-off and       *)
(* logout included), or joining the publish worker of a failed one.        *)
(***************************************************************************)
EXTENDS Naturals

CONSTANTS
    StubSymbols, \* how many symbols the stub publishes at each tick
    MaxTicks     \* bound of the stub's tick counter

ASSUME LifespanAssumption == StubSymbols \in Nat \ {0} /\ MaxTicks \in Nat

VARIABLES
    settings, \* what Settings() and the disk say
    key,      \* Redis type of EVENT_STREAM_NAME: "none", "stream", "other"
    stage,    \* where the lifespan is
    opened,   \* of "redis", "history", "schwab"
    stub,     \* stub_task: "none", "sleep", "publish", "cancelling", "cancelled", "dead"
    sent,     \* symbols published in this tick
    tick,
    stream,   \* stream_task: "none", "session", "joining", "leaving", "ended"
    lost,     \* history: the cancel of stream_task was swallowed
    cause     \* history: why the lifespan ended early, "none" if it did not

vars == <<settings, key, stage, opened, stub, sent, tick, stream, lost, cause>>

Settings == [dsn : BOOLEAN, live : BOOLEAN, credentials : BOOLEAN, token : {"absent", "bad", "good"},
             stub : BOOLEAN, streaming : BOOLEAN, symbols : BOOLEAN]

\* create_schwab_market_client: the live client, or the stub with a warning.
LiveClient == settings.live /\ settings.credentials /\ settings.token = "good"

StubAlive == stub \in {"sleep", "publish", "cancelling"}
StreamAlive == stream \in {"session", "joining", "leaving"}

\* Slips, for mutation runs.
NotAwaited == TRUE
CancelOutlived == IF stream = "session" THEN "session" ELSE stream
SchwabForgotten == opened

\* `await stream_task` returns when the task is over.
StreamAwaited == ~StreamAlive

\* Cancelled: in a session the task joins its worker, logs out and ends; the
\* join of a failed session's worker swallows it.
Cancelled == IF stream = "session" THEN "leaving" ELSE stream

\* `await stub_task` returns or raises when the task is over.
StubAwaited == ~StubAlive

\* `for sym in syms` is over.
LastOfTick == sent + 1 = StubSymbols

ClosedSchwab == opened \ {"schwab"}

-----------------------------------------------------------------------------
Init ==
    /\ settings \in Settings
    /\ key \in {"none", "stream", "other"}
    /\ stage = "redis" /\ opened = {}
    /\ stub = "none" /\ sent = 0 /\ tick = 0
    /\ stream = "none" /\ lost = FALSE /\ cause = "none"

\* An exception leaves the lifespan: what is open stays open.
Leave(why) ==
    /\ stage' = "down"
    /\ cause' = why
    /\ UNCHANGED <<settings, key, opened, stub, sent, tick, stream, lost>>

\* The Redis client is made; a failed ping is only logged.
OpenRedis ==
    /\ stage = "redis"
    /\ stage' = "history"
    /\ opened' = {"redis"}
    /\ UNCHANGED <<settings, key, stub, sent, tick, stream, lost, cause>>

\* create_historical_store, then the Schwab client; the pool may fail.
OpenHistory ==
    /\ stage = "history"
    /\ stage' = "ensure"
    /\ opened' = opened \cup {x \in {"history"} : settings.dsn} \cup {x \in {"schwab"} : LiveClient}
    /\ UNCHANGED <<settings, key, stub, sent, tick, stream, lost, cause>>

NoHistory == stage = "history" /\ settings.dsn /\ Leave("startup")

\* ensure_stream_exists: a first event makes a missing stream; a key of
\* another type is only logged.  TYPE or XADD may fail.
EnsureStream ==
    /\ stage = "ensure"
    /\ stage' = "tasks"
    /\ key' = IF key = "none" THEN "stream" ELSE key
    /\ UNCHANGED <<settings, opened, stub, sent, tick, stream, lost, cause>>

NoStream == stage = "ensure" /\ Leave("startup")

\* The tasks are created and the application serves.
StartTasks ==
    /\ stage = "tasks"
    /\ stage' = "serving"
    /\ stub' = IF settings.stub THEN "sleep" ELSE "none"
    /\ stream' = IF settings.streaming /\ LiveClient /\ settings.symbols THEN "session" ELSE "none"
    /\ UNCHANGED <<settings, key, opened, sent, tick, lost, cause>>

StubWakes ==
    /\ stub = "sleep" /\ tick < MaxTicks
    /\ stub' = "publish" /\ sent' = 0
    /\ UNCHANGED <<settings, key, stage, opened, tick, stream, lost, cause>>

\* One symbol of the tick is published; after the last the stub sleeps.
StubPublishes ==
    /\ stub = "publish" /\ key # "other"
    /\ key' = "stream"
    /\ sent' = IF LastOfTick THEN 0 ELSE sent + 1
    /\ stub' = IF LastOfTick THEN "sleep" ELSE stub
    /\ tick' = IF LastOfTick THEN tick + 1 ELSE tick
    /\ UNCHANGED <<settings, stage, opened, stream, lost, cause>>

\* XADD raises, by the connection or the type of the key: the task ends.
StubFails ==
    /\ stub = "publish"
    /\ stub' = "dead"
    /\ UNCHANGED <<settings, key, stage, opened, sent, tick, stream, lost, cause>>

\* The session fails and its worker is joined; then a new session follows.
SessionFails ==
    /\ stream = "session"
    /\ stream' = "joining"
    /\ UNCHANGED <<settings, key, stage, opened, stub, sent, tick, lost, cause>>

SessionComesBack ==
    /\ stream = "joining"
    /\ stream' = "session"
    /\ UNCHANGED <<settings, key, stage, opened, stub, sent, tick, lost, cause>>

StreamEnds ==
    /\ stream = "leaving"
    /\ stream' = "ended"
    /\ UNCHANGED <<settings, key, stage, opened, stub, sent, tick, lost, cause>>

\* Shutdown: stream_task is cancelled.
Stop ==
    /\ stage = "serving"
    /\ stage' = "await_stream"
    /\ stream' = Cancelled
    /\ lost' = (stream = "joining")
    /\ UNCHANGED <<settings, key, opened, stub, sent, tick, cause>>

\* The await returns; stub_task is cancelled.
StreamGone ==
    /\ stage = "await_stream" /\ StreamAwaited
    /\ stage' = "await_stub"
    /\ stub' = IF StubAlive THEN "cancelling" ELSE stub
    /\ UNCHANGED <<settings, key, opened, sent, tick, stream, lost, cause>>

\* The cancel reaches the stub in its sleep or its XADD; it raises it again.
StubEnds ==
    /\ stub = "cancelling"
    /\ stub' = "cancelled"
    /\ UNCHANGED <<settings, key, stage, opened, sent, tick, stream, lost, cause>>

\* The await swallows the CancelledError ...
StubGone ==
    /\ stage = "await_stub" /\ StubAwaited /\ stub # "dead"
    /\ stage' = "close_schwab"
    /\ UNCHANGED <<settings, key, opened, stub, sent, tick, stream, lost, cause>>

\* ... and raises what the stub had died of.
StubRaises == stage = "await_stub" /\ StubAwaited /\ stub = "dead" /\ Leave("stub")

CloseSchwab ==
    /\ stage = "close_schwab"
    /\ stage' = "close_redis"
    /\ opened' = ClosedSchwab
    /\ UNCHANGED <<settings, key, stub, sent, tick, stream, lost, cause>>

CloseRedis ==
    /\ stage = "close_redis"
    /\ stage' = "close_history"
    /\ opened' = opened \ {"redis"}
    /\ UNCHANGED <<settings, key, stub, sent, tick, stream, lost, cause>>

CloseHistory ==
    /\ stage = "close_history"
    /\ stage' = "down"
    /\ opened' = opened \ {"history"}
    /\ UNCHANGED <<settings, key, stub, sent, tick, stream, lost, cause>>

CloserRaises == stage \in {"close_schwab", "close_redis", "close_history"} /\ Leave("closer")

\* What the lifespan itself does.
Main ==
    \/ OpenRedis \/ OpenHistory \/ NoHistory \/ EnsureStream \/ NoStream \/ StartTasks
    \/ StreamGone \/ StubGone \/ StubRaises \/ CloseSchwab \/ CloseRedis \/ CloseHistory \/ CloserRaises

Stub == StubWakes \/ StubPublishes \/ StubFails \/ StubEnds
Stream == SessionComesBack \/ StreamEnds

\* The tasks die with the process.
Next == stage # "down" /\ (Main \/ Stop \/ Stub \/ Stream \/ SessionFails)

Spec == Init /\ [][Next]_vars

\* Awaits of a finished task return, closers return or raise, a cancelled
\* session's clean-up ends, and so does the cancelled stub.
FairSpec ==
    /\ Spec
    /\ WF_vars(stage # "down" /\ Main)
    /\ WF_vars(stage # "down" /\ Stream)
    /\ WF_vars(stage # "down" /\ StubEnds)

-----------------------------------------------------------------------------
TypeOK ==
    /\ settings \in Settings
    /\ key \in {"none", "stream", "other"}
    /\ stage \in {"redis", "history", "ensure", "tasks", "serving", "await_stream", "await_stub",
                  "close_schwab", "close_redis", "close_history", "down"}
    /\ opened \subseteq {"redis", "history", "schwab"}
    /\ stub \in {"none", "sleep", "publish", "cancelling", "cancelled", "dead"}
    /\ sent \in 0..(StubSymbols - 1) /\ tick \in 0..MaxTicks
    /\ stream \in {"none", "session", "joining", "leaving", "ended"}
    /\ lost \in BOOLEAN /\ cause \in {"none", "startup", "stub", "closer"}

(* Connections are closed under no running task: the stub publishes through  *)
(* the bus, the stream through the bus and the Schwab client.               *)
NoTaskOutlivesConnections ==
    [][opened' \subseteq opened /\ opened' # opened => ~StubAlive /\ ~StreamAlive]_vars

(* After an orderly end nothing is open: only a failed startup, a failed    *)
(* closer or a stub that had died leaves connections open.                  *)
NothingLeftOpen == (stage = "down" /\ cause = "none") => opened = {} /\ ~StubAlive /\ ~StreamAlive

(* A shutdown ends, whatever the stream task was doing, unless the cancel    *)
(* reached it in the join of a failed session's worker, which swallows it.  *)
ShutdownEnds == (stage = "await_stream" /\ ~lost) ~> stage = "down"
=============================================================================
